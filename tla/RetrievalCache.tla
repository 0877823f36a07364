--------------------------- MODULE RetrievalCache ---------------------------
(***************************************************************************)
(* retrieval/cached.py over services/cache/ and the dense retriever with   *)
(* its embedding cache, asked directly or once per variant of a query by   *)
(* retrieval/multi_query.py.  Requests are threads (or, with Redis,        *)
(* processes) that share the cache; nothing locks it.  The corpus changes  *)
(* under it, and nothing tells the cache.                                  *)
(***************************************************************************)
EXTENDS Searching, QueryRewriting, Fusion

CONSTANTS
    Requests,     \* threads, each with one call of retrieve
    Asks,         \* what they ask: [query, k, who, multi]
    TTL,          \* ttl_seconds
    MaxQueries,   \* max_queries of the multi-query retriever
    PerQueryK,    \* its per_query_k, 0 for None
    RrfK,         \* its rrf_k
    MaxTime,      \* bound: how long the clock runs
    MaxCall       \* bound: the time from a search to the write of its result

\* CacheSettings has ttl_seconds >= 1.
ASSUME TimesAssumption ==
    /\ TTL \in Nat \ {0} /\ MaxCall \in Nat /\ MaxTime \in Nat /\ RrfK \in Nat
    /\ MaxQueries \in Nat \ {0} /\ PerQueryK \in Sizes \cup {0}
ASSUME AsksAssumption ==
    Asks \subseteq [query : Seq(Words), k : Sizes, who : Callers, multi : BOOLEAN]

\* Texts holds every text a search can be made for.
ASSUME TextsAssumption ==
    \A a \in Asks : IF a.multi THEN ExpandQuery(a.query) \in Seq(Texts) \ {<<>>}
                               ELSE a.query \in Texts

VARIABLES
    clock, store, past,   \* as in BoundedStaleness
    backend,              \* "redis" or "memory": what build_cache returned
    up, upAtStart,        \* Redis is reachable, was when the cache was built
    cache,                \* entries of CachedRetriever: [key, hits, expires, asof]
    embeddings,           \* entries of EmbeddingCache: [text, vector, expires]
    pc,
    asked,                \* per request: the ask
    todo,                 \* the searches still to make
    found,                \* a search's result on its way to the cache
    answers               \* the results of the searches made

vars == <<clock, store, past, backend, up, upAtStart, cache, embeddings, pc,
          asked, todo, found, answers>>
worldVars == <<clock, store, past, backend, up, upAtStart>>

Nothing == [vector |-> <<>>, hits |-> {}, asof |-> 0]
Step(r, from, to) == pc[r] = from /\ pc' = [pc EXCEPT ![r] = to]

\* The searches a call makes: the query's, or one for each of its variants.
Plan(a) ==
    LET Search(text, k) == [text |-> text, k |-> k, who |-> a.who]
        variants == ExpandQuery(a.query)
    IN  IF ~a.multi THEN <<Search(a.query, a.k)>>
        ELSE [i \in 1 .. Min({MaxQueries, Len(variants)}) |->
                Search(variants[i], IF PerQueryK = 0 THEN a.k ELSE PerQueryK)]

\* build_cache: from_url does not connect, so that only a missing package (or
\* a malformed URL) is noticed.
BuildCache(configured, installed) ==
    IF configured = "redis" /\ installed THEN "redis" ELSE "memory"

Init ==
    /\ clock = 0
    /\ store \in Corpora
    /\ past = [t \in 0 .. MaxTime |-> IF t = 0 THEN {store} ELSE {}]
    /\ \E configured \in {"memory", "redis"}, installed \in BOOLEAN :
            backend = BuildCache(configured, installed)
    /\ up \in IF backend = "redis" THEN BOOLEAN ELSE {TRUE}
    /\ upAtStart = up
    /\ cache = {} /\ embeddings = {}
    /\ pc = [r \in Requests |-> "get"]
    /\ asked \in [Requests -> Asks]
    /\ todo = [r \in Requests |-> Plan(asked[r])]
    /\ found = [r \in Requests |-> Nothing]
    /\ answers = [r \in Requests |-> <<>>]

-----------------------------------------------------------------------------
(* The world around the requests.                                          *)

Change ==
    /\ \E u \in Updates : u[1] = store /\ store' = u[2]
    /\ past' = [past EXCEPT ![clock] = @ \cup {store'}]
    /\ UNCHANGED <<clock, backend, up, upAtStart, cache, embeddings, pc, asked,
                   todo, found, answers>>

Live(e) == clock < e.expires

\* Redis drops what has expired; the dict keeps it.
Tick ==
    /\ clock < MaxTime
    /\ \A r \in Requests : pc[r] = "set" => clock < found[r].asof + MaxCall
    /\ clock' = clock + 1
    /\ past' = [past EXCEPT ![clock + 1] = {store}]
    /\ cache' = {e \in cache : backend = "redis" => clock' < e.expires}
    /\ embeddings' = {e \in embeddings : backend = "redis" => clock' < e.expires}
    /\ UNCHANGED <<store, backend, up, upAtStart, pc, asked, todo, found, answers>>

RedisToggles ==
    /\ backend = "redis" /\ up' = ~up
    /\ UNCHANGED <<clock, store, past, backend, upAtStart, cache, embeddings, pc,
                   asked, todo, found, answers>>

-----------------------------------------------------------------------------
(* retrieve.                                                               *)

Reachable == backend = "redis" => up

\* A call of the client raises: the retrieval fails with it.
CacheFails(r) ==
    /\ ~Reachable
    /\ pc[r] \in {"get", "embed", "set"}
    /\ pc' = [pc EXCEPT ![r] = "cache error"]
    /\ UNCHANGED <<worldVars, cache, embeddings, asked, todo, found, answers>>

\* Mutant: the key forgets who asks.
SharedKey(s) == <<s.text, s.k>>
\* _key; hashing is injective, and no name holds a separator.
Key(s) == <<s.text, s.k, IF s.who.unrestricted THEN {"*"} ELSE s.who.groups>>

Search(r) == Head(todo[r])
Entries(r) == {e \in cache : e.key = Key(Search(r))}

\* The search is answered; the next one, if any, starts.
Answered(r, from, hits) ==
    /\ Step(r, from, IF Len(todo[r]) = 1 THEN "done" ELSE "get")
    /\ todo' = [todo EXCEPT ![r] = Tail(@)]
    /\ answers' = [answers EXCEPT ![r] = Append(@, [search |-> Search(r), hits |-> hits])]

\* Mutant: an entry is served in the unit it expires in.
HitLate(r) ==
    /\ pc[r] = "get" /\ Reachable
    /\ \E e \in Entries(r) : clock <= e.expires /\ Answered(r, "get", e.hits)
    /\ UNCHANGED <<worldVars, cache, embeddings, asked, found>>
Hit(r) ==
    /\ pc[r] = "get" /\ Reachable
    /\ \E e \in Entries(r) : Live(e) /\ Answered(r, "get", e.hits)
    /\ UNCHANGED <<worldVars, cache, embeddings, asked, found>>

\* No entry, or one that has expired: the dict's is popped in a step of its
\* own.
Miss(r) ==
    /\ pc[r] = "get" /\ Reachable
    /\ ~ \E e \in Entries(r) : Live(e)
    /\ Step(r, "get", IF Entries(r) = {} THEN "embed" ELSE "pop")
    /\ UNCHANGED <<worldVars, cache, embeddings, asked, todo, found, answers>>

\* What is popped is the entry that is there now.
Pop(r) ==
    /\ Step(r, "pop", "embed")
    /\ cache' = cache \ Entries(r)
    /\ UNCHANGED <<worldVars, embeddings, asked, todo, found, answers>>

\* The cached vectors of a text, and the one that would be cached now.
Vectors(text) == {e \in embeddings : e.text = text}
NewVector(text) == [text |-> text, vector |-> text, expires |-> clock + TTL]

\* _embed: the cached vector of the text, or a new one that is then cached.
\* A text has one vector, so that threads which race here agree.
Embed(r) ==
    LET text == Search(r).text
        known == {e \in Vectors(text) : Live(e)}
    IN  /\ Reachable /\ Step(r, "embed", "search")
        /\ \E e \in IF known = {} THEN {NewVector(text)} ELSE known :
                /\ found' = [found EXCEPT ![r].vector = e.vector]
                /\ embeddings' = IF known = {} THEN (embeddings \ Vectors(text)) \cup {e}
                                 ELSE embeddings
        /\ UNCHANGED <<worldVars, cache, asked, todo, answers>>

\* store.search, one call; it may raise, and so may the model in Embed.
Retrieve(r) ==
    /\ Step(r, "search", "set")
    /\ found' = [found EXCEPT ![r].asof = clock,
                              ![r].hits = Ranked(Search(r), found[r].vector, store)]
    /\ UNCHANGED <<worldVars, cache, embeddings, asked, todo, answers>>
RetrieveFails(r) ==
    /\ pc[r] \in {"embed", "search"} /\ pc' = [pc EXCEPT ![r] = "error"]
    /\ UNCHANGED <<worldVars, cache, embeddings, asked, todo, found, answers>>

\* Mutant: the lifetime is given in milliseconds.
NewEntryMillis(r) ==
    [key |-> Key(Search(r)), hits |-> found[r].hits,
     expires |-> clock + 1000 * TTL, asof |-> found[r].asof]
\* set: the entry lives a TTL from now, however old its result is.
NewEntry(r) ==
    [key |-> Key(Search(r)), hits |-> found[r].hits,
     expires |-> clock + TTL, asof |-> found[r].asof]

\* The result is cached and returned.
Set(r) ==
    /\ pc[r] = "set" /\ Reachable
    /\ cache' = (cache \ Entries(r)) \cup {NewEntry(r)}
    /\ Answered(r, "set", found[r].hits)
    /\ UNCHANGED <<worldVars, embeddings, asked, found>>

Next ==
    \/ Change \/ Tick \/ RedisToggles
    \/ \E r \in Requests :
        \/ Hit(r) \/ Miss(r) \/ Pop(r) \/ Embed(r) \/ Retrieve(r)
        \/ RetrieveFails(r) \/ Set(r) \/ CacheFails(r)

Spec == Init /\ [][Next]_vars

\* A result list is ranked; the store has each chunk once.
List(a) == Sorted(a.hits, LAMBDA c, d : Place[a.search.text][c.id] < Place[a.search.text][d.id])
Ids(list) == [i \in 1 .. Len(list) |-> list[i].id]

\* Mutant: two versions of a chunk are two items.
MergeVersions(lists, top) == Fuse(lists, RrfK, top)
\* Result lists are fused by chunk id: a chunk that changed between two searches
\* is one item, shown as the first list that has it does.
Merge(lists, top) ==
    LET ids == [i \in 1 .. Len(lists) |-> Ids(lists[i])]
        fused == Fuse(ids, RrfK, top)
        First(id) == Min(Has(ids, id))
    IN  [i \in 1 .. Len(fused) |->
            lists[First(fused[i])][Rank(ids[First(fused[i])], fused[i])]]

Reply(r) ==
    LET lists == [i \in 1 .. Len(answers[r]) |-> List(answers[r][i])]
    IN  IF asked[r].multi THEN Merge(lists, asked[r].k) ELSE lists[1]

-----------------------------------------------------------------------------
(* Correctness.                                                            *)

Result == [search : Searches, hits : SUBSET (UNION Corpora)]

TypeOK ==
    /\ clock \in 0 .. MaxTime /\ store \in Corpora
    /\ past \in [0 .. MaxTime -> SUBSET Corpora]
    /\ backend \in {"redis", "memory"} /\ up \in BOOLEAN /\ upAtStart \in BOOLEAN
    /\ \A e \in cache :
        /\ e.expires \in 1 .. MaxTime + TTL /\ e.asof \in 0 .. MaxTime
        /\ e.hits \subseteq UNION Corpora
    /\ \A e \in embeddings : e.vector \in Texts /\ e.expires \in 1 .. MaxTime + TTL
    /\ pc \in [Requests -> {"get", "pop", "embed", "search", "set", "done",
                            "error", "cache error"}]
    /\ asked \in [Requests -> Asks]
    /\ todo \in [Requests -> Seq(Searches)]
    /\ found \in [Requests -> [vector : Texts \cup {<<>>}, hits : SUBSET (UNION Corpora),
                               asof : 0 .. MaxTime]]
    /\ answers \in [Requests -> Seq(Result)]

\* Cached results never cross access boundaries: whoever filled the entry, and
\* whatever the variants, a caller is shown only chunks that were visible to
\* that caller when they were found (CachedRetriever._key, cached.py:4-5).
CacheConfined ==
    \A r \in Requests : \A i \in 1 .. Len(answers[r]) : \A c \in answers[r][i].hits :
        AclAllows(c.acl, asked[r].who)

\* Every answer is the hits of the search that was asked in a corpus no older
\* than a TTL and the search that filled the entry: a delete or a change of
\* an ACL shows after that time at the latest, whatever the interleaving of
\* fills, expiries and pops (CachedRetriever over either cache).
Promise == INSTANCE BoundedStaleness WITH Bound <- TTL + MaxCall - 1
StalenessBounded == Promise!Spec

\* A reply has at most top_k chunks, no chunk id twice though a chunk may have
\* changed from one variant's search to the next, all of them found for its own
\* variants, and a chunk one of them found is missing only from a full reply; the
\* variants are distinct, the rewritten query first, even when the rewriter or
\* max_queries cuts the list short (MultiQueryRetriever.retrieve, expand_query,
\* reciprocal_rank_fusion).
MultiQuerySound ==
    \A r \in Requests : pc[r] = "done" =>
        LET reply == Reply(r)
            results == answers[r]
            hits == UNION {results[i].hits : i \in 1 .. Len(results)}
        IN  /\ Len(reply) <= asked[r].k
            /\ \A i, j \in 1 .. Len(reply) : reply[i].id = reply[j].id => i = j
            /\ Items(reply) \subseteq hits
            /\ Len(reply) < asked[r].k => {c.id : c \in hits} = {c.id : c \in Items(reply)}
            /\ asked[r].multi =>
                /\ results[1].search.text = RewriteQuery(asked[r].query)
                /\ Len(results) \in 1 .. MaxQueries
                /\ \A i, j \in 1 .. Len(results) :
                        results[i].search.text = results[j].search.text => i = j

\* With Redis selected but unreachable "it falls back to the in-memory cache
\* ... caching is an optimization, not a correctness requirement"
\* (services/cache/factory.py:3-6): no retrieval fails for want of the cache.
CacheNeverFails == \A r \in Requests : ~upAtStart => pc[r] # "cache error"
=============================================================================
