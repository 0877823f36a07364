------------------------ MODULE RetrievalCacheProofs ------------------------
(***************************************************************************)
(* For any requests, corpora, TTL and query expansion: the types of        *)
(* RetrievalCache, that a caller is shown only what the caller may see,    *)
(* that multi-query retrieval fuses the answers of one search for each     *)
(* variant, and that the cache implements BoundedStaleness.                *)
(*                                                                         *)
(* The argument: an entry is the hits of the one search its key stands     *)
(* for, in a corpus of the time `asof`, and it is served for at most TTL   *)
(* after a write that came at most MaxCall after `asof`.                   *)
(***************************************************************************)
EXTENDS RetrievalCache, FusionProofs

Steps == {"get", "pop", "embed", "search", "set"}

\* An entry answers a search in a corpus of its time, and dies in time.
EntriesSound ==
    \A e \in cache :
        /\ e.asof \in 0 .. clock
        /\ e.expires <= e.asof + MaxCall + TTL
        /\ \E s \in Searches : e.key = Key(s) /\ \E S \in past[e.asof] : e.hits = Hits(s, S)

EmbeddingsSound == \A e \in embeddings : e.vector = e.text

\* The searches left are the caller's, and what has been found answers the
\* next of them.
PendingSound ==
    \A r \in Requests :
        /\ pc[r] \in Steps => todo[r] # <<>>
        /\ \A i \in 1 .. Len(todo[r]) : todo[r][i].who = asked[r].who
        /\ pc[r] = "search" => found[r].vector = Search(r).text
        /\ pc[r] = "set" =>
            /\ found[r].asof <= clock /\ clock <= found[r].asof + MaxCall
            /\ \E S \in past[found[r].asof] : found[r].hits = Hits(Search(r), S)

AnswersSound ==
    \A r \in Requests : \A i \in 1 .. Len(answers[r]) :
        /\ answers[r][i].search.who = asked[r].who
        /\ \E S \in Corpora : answers[r][i].hits = Hits(answers[r][i].search, S)

\* The corpus of now is on record.
Present == store \in past[clock]

Sound == Present /\ EntriesSound /\ EmbeddingsSound /\ PendingSound /\ AnswersSound

-----------------------------------------------------------------------------
(* The operators.                                                          *)

\* Hits are chunks of the corpus the caller may see.
LEMMA HitsVisible ==
    ASSUME NEW s, NEW S
    PROVE  Hits(s, S) \subseteq S /\ \A c \in Hits(s, S) : AclAllows(c.acl, s.who)
BY DEF Hits, Ranked, Visible

\* Two searches have one key only when they are the same search.
LEMMA KeyInjective ==
    ASSUME NEW s \in Searches, NEW t \in Searches, Key(s) = Key(t)
    PROVE  s = t
<1>1. s.text = t.text /\ s.k = t.k
  BY DEF Key
<1>2. s.who = t.who
  <2>0. \A w \in {s.who, t.who} :
            /\ w = [unrestricted |-> w.unrestricted, groups |-> w.groups]
            /\ w.unrestricted \in BOOLEAN
            /\ w.unrestricted => w.groups = {}
    <3>1. {s.who, t.who} \subseteq Callers
      BY DEF Searches
    <3>. QED
      BY <3>1 DEF Callers
  <2>1. CASE s.who.unrestricted /\ t.who.unrestricted
    BY <2>0, <2>1
  <2>2. CASE ~s.who.unrestricted /\ ~t.who.unrestricted
    <3>1. s.who.groups = t.who.groups
      BY <2>2 DEF Key
    <3>. QED
      BY <2>0, <2>2, <3>1
  <2>3. CASE s.who.unrestricted # t.who.unrestricted
    <3>1. s.who.groups \subseteq Groups /\ t.who.groups \subseteq Groups
      BY DEF Searches, Callers
    <3>2. {"*"} \in {s.who.groups, t.who.groups}
      BY <2>3 DEF Key, Searches, Callers
    <3>. QED
      BY <3>1, <3>2, GroupsAssumption
  <2>. QED
    BY <2>1, <2>2, <2>3 DEF Searches, Callers
<1>. QED
  BY <1>1, <1>2 DEF Searches

\* A plan is a nonempty sequence of searches for the caller who asks.
LEMMA PlanCorrect ==
    ASSUME NEW a \in Asks
    PROVE  /\ Plan(a) \in Seq(Searches) /\ Plan(a) # <<>>
           /\ \A i \in 1 .. Len(Plan(a)) : Plan(a)[i].who = a.who
<1>. DEFINE S(text, k) == [text |-> text, k |-> k, who |-> a.who]
            v == ExpandQuery(a.query)
            n == Min({MaxQueries, Len(v)})
            k == IF PerQueryK = 0 THEN a.k ELSE PerQueryK
            plan == [i \in 1 .. n |-> S(v[i], k)]
<1>1. IF a.multi THEN v \in Seq(Texts) /\ v # <<>> ELSE a.query \in Texts
  BY TextsAssumption
<1>2. a.k \in Sizes /\ a.who \in Callers /\ k \in Sizes /\ MaxQueries \in Nat \ {0}
  BY AsksAssumption, TimesAssumption
<1>3. CASE ~a.multi
  <2>1. Plan(a) = <<S(a.query, a.k)>>
    BY <1>3 DEF Plan
  <2>2. S(a.query, a.k) \in Searches
    BY <1>1, <1>2, <1>3 DEF Searches
  <2>. QED
    BY <2>1, <2>2
<1>4. CASE a.multi
  <2>1. Len(v) \in Nat \ {0} /\ n \in Nat \ {0} /\ n <= Len(v)
    <3>1. Len(v) \in Nat \ {0}
      BY <1>1, <1>4
    <3>2. \E x \in {MaxQueries, Len(v)} : \A y \in {MaxQueries, Len(v)} : x <= y
      BY <3>1, <1>2
    <3>3. n \in {MaxQueries, Len(v)} /\ \A y \in {MaxQueries, Len(v)} : n <= y
      BY <3>2 DEF Min
    <3>. QED
      BY <3>1, <3>3, <1>2
  <2>2. Plan(a) = plan
    BY <1>4 DEF Plan
  <2>3. \A i \in 1 .. n : S(v[i], k) \in Searches
    BY <1>1, <1>2, <1>4, <2>1 DEF Searches
  <2>4. plan \in Seq(Searches) /\ Len(plan) = n
    <3>1. plan \in [1 .. n -> Searches]
      BY <2>3
    <3>. HIDE DEF plan, n
    <3>. QED
      BY <2>1, <3>1
  <2>. QED
    BY <2>1, <2>2, <2>4
<1>. QED
  BY <1>3, <1>4

\* The next search of a request that has one.
LEMMA SearchTyped ==
    ASSUME TypeOK, NEW r \in Requests, todo[r] # <<>>
    PROVE  /\ Search(r) \in Searches /\ Search(r) = todo[r][1]
           /\ Len(todo[r]) \in Nat \ {0}
           /\ Tail(todo[r]) \in Seq(Searches) /\ Len(Tail(todo[r])) = Len(todo[r]) - 1
           /\ \A i \in 1 .. Len(Tail(todo[r])) : Tail(todo[r])[i] = todo[r][i + 1]
<1>1. todo[r] \in Seq(Searches)
  BY DEF TypeOK
<1>. QED
  BY <1>1 DEF Search

\* What answering a search leaves behind.
LEMMA AnsweredKeeps ==
    ASSUME TypeOK, PendingSound, AnswersSound, NEW r \in Requests, NEW hits,
           NEW S \in Corpora, pc[r] \in {"get", "set"}, hits = Hits(Search(r), S),
           Answered(r, pc[r], hits), asked' = asked, found' = found, clock' = clock,
           past' = past
    PROVE  /\ pc' \in [Requests -> {"get", "pop", "embed", "search", "set", "done",
                                    "error", "cache error"}]
           /\ todo' \in [Requests -> Seq(Searches)]
           /\ answers' \in [Requests -> Seq(Result)]
           /\ PendingSound' /\ AnswersSound'
<1>. DEFINE new == [search |-> Search(r), hits |-> hits]
<1>1. todo[r] # <<>> /\ Search(r).who = asked[r].who
  BY SearchTyped DEF PendingSound, Steps
<1>2. new \in Result
  BY <1>1, SearchTyped, HitsVisible DEF Result
<1>3. /\ todo' = [todo EXCEPT ![r] = Tail(todo[r])]
      /\ answers' = [answers EXCEPT ![r] = Append(answers[r], new)]
      /\ pc' = [pc EXCEPT ![r] = IF Len(todo[r]) = 1 THEN "done" ELSE "get"]
  BY DEF Answered, Step
<1>4. /\ todo' \in [Requests -> Seq(Searches)]
      /\ pc' \in [Requests -> {"get", "pop", "embed", "search", "set", "done",
                               "error", "cache error"}]
  BY <1>1, <1>3, SearchTyped DEF TypeOK
<1>5. answers' \in [Requests -> Seq(Result)]
  <2>1. answers \in [Requests -> Seq(Result)]
    BY DEF TypeOK
  <2>2. Append(answers[r], new) \in Seq(Result)
    BY <1>2, <2>1
  <2>. QED
    BY <1>3, <2>1, <2>2
<1>6. PendingSound'
  <2>. SUFFICES ASSUME NEW q \in Requests
                PROVE  /\ pc'[q] \in Steps => todo'[q] # <<>>
                       /\ \A i \in 1 .. Len(todo'[q]) : todo'[q][i].who = asked[q].who
                       /\ pc'[q] = "search" => found[q].vector = Search(q)'.text
                       /\ pc'[q] = "set" =>
                            /\ found[q].asof <= clock /\ clock <= found[q].asof + MaxCall
                            /\ \E T \in past[found[q].asof] :
                                    found[q].hits = Hits(Search(q)', T)
    BY DEF PendingSound
  <2>1. CASE q # r
    <3>1. pc'[q] = pc[q] /\ todo'[q] = todo[q] /\ Search(q)' = Search(q)
      BY <2>1, <1>3 DEF TypeOK, Search
    <3>. QED
      BY <3>1 DEF PendingSound
  <2>2. CASE q = r
    <3>1. todo'[r] = Tail(todo[r]) /\ pc'[r] = IF Len(todo[r]) = 1 THEN "done" ELSE "get"
      BY <1>3 DEF TypeOK
    <3>2. \A i \in 1 .. Len(Tail(todo[r])) : i + 1 \in 1 .. Len(todo[r])
      BY <1>1, SearchTyped
    <3>3. \A i \in 1 .. Len(Tail(todo[r])) : Tail(todo[r])[i].who = asked[r].who
      <4>1. \A i \in 1 .. Len(todo[r]) : todo[r][i].who = asked[r].who
        BY DEF PendingSound
      <4>2. \A i \in 1 .. Len(Tail(todo[r])) : Tail(todo[r])[i] = todo[r][i + 1]
        BY <1>1, SearchTyped
      <4>. QED
        BY <3>2, <4>1, <4>2
    <3>4. pc'[r] \in Steps => Tail(todo[r]) # <<>>
      <4>1. CASE Len(todo[r]) = 1
        <5>1. pc'[r] = "done"
          BY <4>1, <3>1
        <5>2. "done" \notin Steps
          BY DEF Steps
        <5>. QED
          BY <5>1, <5>2
      <4>2. CASE Len(todo[r]) # 1
        <5>1. Len(Tail(todo[r])) # 0
          BY <4>2, <1>1, SearchTyped
        <5>2. Len(<<>>) = 0
          OBVIOUS
        <5>. QED
          BY <5>1, <5>2
      <4>. QED
        BY <4>1, <4>2
    <3>. QED
      BY <2>2, <3>1, <3>3, <3>4
  <2>. QED
    BY <2>1, <2>2
<1>7. AnswersSound'
  <2>. SUFFICES ASSUME NEW q \in Requests, NEW i \in 1 .. Len(answers'[q])
                PROVE  /\ answers'[q][i].search.who = asked[q].who
                       /\ \E T \in Corpora : answers'[q][i].hits = Hits(answers'[q][i].search, T)
    BY DEF AnswersSound
  <2>1. CASE q # r
    <3>1. answers'[q] = answers[q]
      BY <2>1, <1>3 DEF TypeOK
    <3>. QED
      BY <3>1 DEF AnswersSound
  <2>2. CASE q = r
    <3>1. answers'[r] = Append(answers[r], new) /\ answers[r] \in Seq(Result)
      BY <1>3 DEF TypeOK
    <3>2. CASE i \in 1 .. Len(answers[r])
      <4>1. answers'[r][i] = answers[r][i]
        BY <3>1, <3>2
      <4>. QED
        BY <2>2, <3>2, <4>1 DEF AnswersSound
    <3>3. CASE i = Len(answers[r]) + 1
      <4>1. answers'[r][i] = new
        BY <3>1, <3>3
      <4>. QED
        BY <2>2, <4>1, <1>1
    <3>. QED
      BY <2>2, <3>1, <3>2, <3>3
  <2>. QED
    BY <2>1, <2>2
<1>. QED
  BY <1>4, <1>5, <1>6, <1>7

-----------------------------------------------------------------------------
(* The inductive invariant.                                                *)

Inv == TypeOK /\ Sound

\* The invariant holds before the first search.
LEMMA InitInv == Init => Inv
<1>. SUFFICES ASSUME Init PROVE Inv
  OBVIOUS
<1>1. \A r \in Requests :
        /\ todo[r] = Plan(asked[r]) /\ asked[r] \in Asks
        /\ todo[r] \in Seq(Searches) /\ todo[r] # <<>>
        /\ \A i \in 1 .. Len(todo[r]) : todo[r][i].who = asked[r].who
  BY PlanCorrect DEF Init
<1>2. TypeOK
  <2>1. past \in [0 .. MaxTime -> SUBSET Corpora] /\ clock \in 0 .. MaxTime
    BY TimesAssumption DEF Init
  <2>2. backend \in {"redis", "memory"} /\ up \in BOOLEAN /\ upAtStart \in BOOLEAN
    BY DEF Init, BuildCache
  <2>3. found \in [Requests -> [vector : Texts \cup {<<>>}, hits : SUBSET (UNION Corpora),
                                asof : 0 .. MaxTime]]
    BY TimesAssumption DEF Init, Nothing
  <2>4. todo \in [Requests -> Seq(Searches)]
    BY <1>1 DEF Init
  <2>5. answers \in [Requests -> Seq(Result)]
    BY DEF Init
  <2>. QED
    BY <2>1, <2>2, <2>3, <2>4, <2>5 DEF Init, TypeOK
<1>3. PendingSound
  BY <1>1 DEF Init, PendingSound
<1>4. Present /\ EntriesSound /\ EmbeddingsSound
  BY TimesAssumption DEF Init, Present, EntriesSound, EmbeddingsSound
<1>5. AnswersSound
  BY DEF Init, AnswersSound
<1>. QED
  BY <1>2, <1>3, <1>4, <1>5 DEF Inv, Sound

\* Steps of the world leave what is known of the entries and searches true,
\* as long as no time that has passed loses a corpus.
LEMMA WorldKeeps ==
    ASSUME Inv, cache' \subseteq cache, embeddings' \subseteq embeddings,
           UNCHANGED <<pc, asked, todo, found, answers>>,
           clock' \in Nat, clock <= clock',
           \A t \in 0 .. clock : past[t] \subseteq past'[t],
           \A r \in Requests : pc[r] = "set" => clock' <= found[r].asof + MaxCall,
           Present'
    PROVE  Sound'
<1>1. clock \in Nat /\ \A r \in Requests : found[r].asof \in Nat
  <2>1. clock \in 0 .. MaxTime
    BY DEF Inv, TypeOK
  <2>2. \A r \in Requests : found[r].asof \in 0 .. MaxTime
    BY DEF Inv, TypeOK
  <2>. QED
    BY TimesAssumption, <2>1, <2>2
<1>2. EntriesSound'
  <2>. SUFFICES ASSUME NEW e \in cache
                PROVE  /\ e.asof \in 0 .. clock'
                       /\ e.expires <= e.asof + MaxCall + TTL
                       /\ \E s \in Searches : e.key = Key(s) /\ \E S \in past'[e.asof] : e.hits = Hits(s, S)
    BY DEF EntriesSound
  <2>1. e.asof \in 0 .. clock /\ past[e.asof] \subseteq past'[e.asof]
    BY DEF Inv, Sound, EntriesSound
  <2>. QED
    BY <1>1, <2>1 DEF Inv, Sound, EntriesSound
<1>3. EmbeddingsSound'
  BY DEF Inv, Sound, EmbeddingsSound
<1>4. PendingSound'
  <2>. SUFFICES ASSUME NEW r \in Requests
                PROVE  /\ pc[r] \in Steps => todo[r] # <<>>
                       /\ \A i \in 1 .. Len(todo[r]) : todo[r][i].who = asked[r].who
                       /\ pc[r] = "search" => found[r].vector = Search(r).text
                       /\ pc[r] = "set" =>
                            /\ found[r].asof <= clock' /\ clock' <= found[r].asof + MaxCall
                            /\ \E S \in past'[found[r].asof] : found[r].hits = Hits(Search(r), S)
    BY DEF PendingSound, Search
  <2>1. PendingSound
    BY DEF Inv, Sound
  <2>2. ASSUME pc[r] = "set"
        PROVE  /\ found[r].asof <= clock' /\ clock' <= found[r].asof + MaxCall
               /\ \E S \in past'[found[r].asof] : found[r].hits = Hits(Search(r), S)
    <3>1. found[r].asof \in 0 .. clock
      BY <1>1, <2>1, <2>2 DEF PendingSound
    <3>2. past[found[r].asof] \subseteq past'[found[r].asof]
      BY <3>1
    <3>. QED
      BY <1>1, <2>1, <2>2, <3>1, <3>2 DEF PendingSound
  <2>. QED
    BY <2>1, <2>2 DEF PendingSound
<1>5. AnswersSound'
  BY DEF Inv, Sound, AnswersSound
<1>. QED
  BY <1>2, <1>3, <1>4, <1>5 DEF Sound

\* Steps of a request that neither answer it nor write a result list.
LEMMA LocalKeeps ==
    ASSUME Inv, NEW r \in Requests,
           UNCHANGED <<worldVars, asked, todo, answers>>,
           NEW to, pc' = [pc EXCEPT ![r] = to], pc[r] \in Steps,
           \A q \in Requests \ {r} : found'[q] = found[q],
           to = "search" => found'[r].vector = Search(r).text,
           to = "set" =>
                /\ found'[r].asof <= clock /\ clock <= found'[r].asof + MaxCall
                /\ \E S \in past[found'[r].asof] : found'[r].hits = Hits(Search(r), S)
    PROVE  PendingSound' /\ AnswersSound'
<1>1. PendingSound'
  <2>. SUFFICES ASSUME NEW q \in Requests
                PROVE  /\ pc'[q] \in Steps => todo[q] # <<>>
                       /\ \A i \in 1 .. Len(todo[q]) : todo[q][i].who = asked[q].who
                       /\ pc'[q] = "search" => found'[q].vector = Search(q).text
                       /\ pc'[q] = "set" =>
                            /\ found'[q].asof <= clock /\ clock <= found'[q].asof + MaxCall
                            /\ \E S \in past[found'[q].asof] : found'[q].hits = Hits(Search(q), S)
    BY DEF PendingSound, Search, worldVars
  <2>1. PendingSound
    BY DEF Inv, Sound
  <2>2. CASE q # r
    <3>1. pc'[q] = pc[q] /\ found'[q] = found[q]
      BY <2>2 DEF Inv, TypeOK
    <3>. QED
      BY <2>1, <3>1 DEF PendingSound
  <2>3. CASE q = r
    <3>1. pc'[r] = to
      BY DEF Inv, TypeOK
    <3>. QED
      BY <2>1, <2>3, <3>1 DEF PendingSound
  <2>. QED
    BY <2>2, <2>3
<1>2. AnswersSound'
  BY DEF Inv, Sound, AnswersSound
<1>. QED
  BY <1>1, <1>2

\* A subset of the entries, at the same time, is as sound as they are.
LEMMA EntriesKeep ==
    ASSUME Inv, cache' \subseteq cache, clock' = clock, past' = past
    PROVE  EntriesSound'
BY DEF Inv, Sound, EntriesSound

\* A live entry under a search's key is the hits of that search in a corpus
\* that was there less than Bound before.
LEMMA LiveEntryRecent ==
    ASSUME Inv, NEW r \in Requests, todo[r] # <<>>, NEW e \in Entries(r), Live(e)
    PROVE  \E t \in 0 .. clock : \E S \in past[t] :
                clock <= t + (TTL + MaxCall - 1) /\ e.hits = Hits(Search(r), S)
<1>1. Search(r) \in Searches /\ e \in cache /\ e.key = Key(Search(r))
  BY SearchTyped DEF Inv, Entries
<1>2. PICK s \in Searches, S \in past[e.asof] : e.key = Key(s) /\ e.hits = Hits(s, S)
  BY <1>1 DEF Inv, Sound, EntriesSound
<1>3. s = Search(r)
  BY <1>1, <1>2, KeyInjective
<1>4. e.asof \in 0 .. clock /\ e.expires <= e.asof + MaxCall + TTL
  BY <1>1 DEF Inv, Sound, EntriesSound
<1>5. e.expires \in Nat /\ clock \in Nat /\ clock < e.expires
  <2>1. e.expires \in 1 .. MaxTime + TTL /\ clock \in 0 .. MaxTime
    BY <1>1 DEF Inv, TypeOK
  <2>. QED
    BY <2>1, TimesAssumption DEF Live
<1>6. clock <= e.asof + (TTL + MaxCall - 1)
  BY <1>4, <1>5, TimesAssumption
<1>. QED
  BY <1>2, <1>3, <1>4, <1>6

\* Every step, of a request or of the world, keeps the invariant.
LEMMA Preserved == Inv /\ [Next]_vars => Inv'
<1>. SUFFICES ASSUME Inv, [Next]_vars PROVE Inv'
  OBVIOUS
<1>. USE DEF Inv
<1>0. /\ clock \in 0 .. MaxTime /\ MaxTime \in Nat /\ TTL \in Nat \ {0} /\ MaxCall \in Nat
      /\ past \in [0 .. MaxTime -> SUBSET Corpora] /\ store \in Corpora
  BY TimesAssumption DEF TypeOK
<1>1. CASE Change
  <2>1. PICK u \in Updates : store' = u[2]
    BY <1>1 DEF Change
  <2>2. store' \in Corpora
    BY <2>1, UpdatesAssumption
  <2>3. past' = [past EXCEPT ![clock] = past[clock] \cup {store'}]
    BY <1>1 DEF Change
  <2>4. past' \in [0 .. MaxTime -> SUBSET Corpora]
    BY <1>0, <2>2, <2>3
  <2>5. TypeOK'
    BY <1>1, <2>2, <2>4 DEF Change, TypeOK
  <2>6. \A t \in 0 .. clock : past[t] \subseteq past'[t]
    BY <1>0, <2>3
  <2>7. Sound'
    <3>1. Present'
      BY <1>0, <1>1, <2>3 DEF Change, Present
    <3>. QED
      BY <1>0, <1>1, <2>6, <3>1, WorldKeeps DEF Change, Sound, PendingSound
  <2>. QED
    BY <2>5, <2>7
<1>2. CASE Tick
  <2>1. clock' = clock + 1 /\ clock < MaxTime /\ past' = [past EXCEPT ![clock + 1] = {store}]
    BY <1>2 DEF Tick
  <2>2. past' \in [0 .. MaxTime -> SUBSET Corpora] /\ clock' \in 0 .. MaxTime
    BY <1>0, <2>1
  <2>3. cache' \subseteq cache /\ embeddings' \subseteq embeddings
    BY <1>2 DEF Tick
  <2>4. TypeOK'
    BY <1>2, <2>2, <2>3 DEF Tick, TypeOK
  <2>5. \A t \in 0 .. clock : past[t] \subseteq past'[t]
    BY <1>0, <2>1
  <2>6. \A r \in Requests : pc[r] = "set" => clock' <= found[r].asof + MaxCall
    <3>. SUFFICES ASSUME NEW r \in Requests, pc[r] = "set"
                  PROVE  clock' <= found[r].asof + MaxCall
      OBVIOUS
    <3>1. found[r].asof \in 0 .. MaxTime
      BY DEF TypeOK
    <3>2. clock < found[r].asof + MaxCall
      BY <1>2 DEF Tick
    <3>. QED
      BY <1>0, <2>1, <3>1, <3>2
  <2>7. Sound'
    <3>1. Present'
      BY <1>0, <1>2, <2>1, <2>2 DEF Tick, Present
    <3>. QED
      BY <1>0, <1>2, <2>1, <2>3, <2>5, <2>6, <3>1, WorldKeeps DEF Tick
  <2>. QED
    BY <2>4, <2>7
<1>3. CASE RedisToggles
  <2>1. TypeOK'
    BY <1>3 DEF RedisToggles, TypeOK
  <2>2. Sound'
    BY <1>0, <1>3, WorldKeeps DEF RedisToggles, Sound, Present, PendingSound
  <2>. QED
    BY <2>1, <2>2
<1>4. ASSUME NEW r \in Requests, Hit(r) PROVE Inv'
  <2>1. PICK e \in Entries(r) : Live(e) /\ Answered(r, "get", e.hits) /\ pc[r] = "get"
    BY <1>4 DEF Hit
  <2>2. todo[r] # <<>>
    BY <2>1 DEF Sound, PendingSound, Steps
  <2>3. PICK S \in Corpora : e.hits = Hits(Search(r), S)
    <3>1. PICK t \in 0 .. clock : \E S \in past[t] : e.hits = Hits(Search(r), S)
      BY <2>1, <2>2, LiveEntryRecent
    <3>. QED
      BY <1>0, <3>1
  <2>5. UNCHANGED <<worldVars, cache, embeddings, asked, found>>
    BY <1>4 DEF Hit
  <2>6. /\ pc' \in [Requests -> {"get", "pop", "embed", "search", "set", "done",
                                "error", "cache error"}]
        /\ todo' \in [Requests -> Seq(Searches)]
        /\ answers' \in [Requests -> Seq(Result)]
        /\ PendingSound' /\ AnswersSound'
    BY <2>1, <2>3, <2>5, AnsweredKeeps DEF worldVars, Sound
  <2>7. TypeOK'
    BY <2>5, <2>6 DEF TypeOK, worldVars
  <2>8. Present' /\ EntriesSound' /\ EmbeddingsSound'
    BY <2>5 DEF Present, worldVars, Sound, EntriesSound, EmbeddingsSound
  <2>. QED
    BY <2>6, <2>7, <2>8 DEF Sound
<1>5. ASSUME NEW r \in Requests, Miss(r) PROVE Inv'
  <2>1. PICK to \in {"embed", "pop"} : pc' = [pc EXCEPT ![r] = to]
    BY <1>5 DEF Miss, Step
  <2>2. UNCHANGED <<worldVars, cache, embeddings, asked, todo, found, answers>> /\ pc[r] = "get"
    BY <1>5 DEF Miss
  <2>3. TypeOK'
    BY <2>1, <2>2 DEF TypeOK, worldVars
  <2>4. PendingSound' /\ AnswersSound'
    BY <2>1, <2>2, LocalKeeps DEF Steps
  <2>5. Present' /\ EntriesSound' /\ EmbeddingsSound'
    BY <2>2, EntriesKeep DEF Present, worldVars, Sound, EmbeddingsSound
  <2>. QED
    BY <2>3, <2>4, <2>5 DEF Sound
<1>6. ASSUME NEW r \in Requests, Pop(r) PROVE Inv'
  <2>1. /\ pc' = [pc EXCEPT ![r] = "embed"] /\ pc[r] = "pop" /\ cache' \subseteq cache
        /\ UNCHANGED <<worldVars, embeddings, asked, todo, found, answers>>
    BY <1>6 DEF Pop, Step
  <2>2. TypeOK'
    BY <2>1 DEF TypeOK, worldVars
  <2>3. PendingSound' /\ AnswersSound'
    BY <2>1, LocalKeeps DEF Steps
  <2>4. Present' /\ EntriesSound' /\ EmbeddingsSound'
    BY <2>1, EntriesKeep DEF Present, worldVars, Sound, EmbeddingsSound
  <2>. QED
    BY <2>2, <2>3, <2>4 DEF Sound
<1>7. ASSUME NEW r \in Requests, Embed(r) PROVE Inv'
  <2>. DEFINE text == Search(r).text
              fresh == NewVector(text)
              same == Vectors(text)
              known == {e \in same : Live(e)}
  <2>1. PICK e \in IF known = {} THEN {fresh} ELSE known :
            /\ found' = [found EXCEPT ![r].vector = e.vector]
            /\ embeddings' = IF known = {} THEN (embeddings \ same) \cup {e} ELSE embeddings
    BY <1>7 DEF Embed
  <2>2. /\ pc[r] = "embed" /\ pc' = [pc EXCEPT ![r] = "search"]
        /\ UNCHANGED <<worldVars, cache, asked, todo, answers>>
    BY <1>7 DEF Embed, Step
  <2>3. todo[r] # <<>> /\ text \in Texts
    <3>1. todo[r] # <<>>
      BY <2>2 DEF Sound, PendingSound, Steps
    <3>. QED
      BY <3>1, SearchTyped DEF Searches
  <2>4. e.vector = text /\ e.vector \in Texts
    BY <2>1, <2>3 DEF Vectors, NewVector, Sound, EmbeddingsSound
  <2>5. e = fresh \/ e \in embeddings
    BY <2>1 DEF Vectors
  <2>6. \A x \in embeddings' :
            x.vector \in Texts /\ x.expires \in 1 .. MaxTime + TTL /\ x.vector = x.text
    <3>1. \A x \in embeddings' : x \in embeddings \/ x = fresh
      BY <2>1, <2>5
    <3>2. clock + TTL \in 1 .. MaxTime + TTL
      BY <1>0
    <3>3. fresh.vector = text /\ fresh.text = text /\ fresh.expires = clock + TTL
      BY DEF NewVector
    <3>4. \A x \in embeddings :
            x.vector \in Texts /\ x.expires \in 1 .. MaxTime + TTL /\ x.vector = x.text
      BY DEF TypeOK, Sound, EmbeddingsSound
    <3>. HIDE DEF fresh
    <3>. QED
      BY <2>3, <3>1, <3>2, <3>3, <3>4
  <2>7. /\ found'[r] = [found[r] EXCEPT !.vector = e.vector]
        /\ \A q \in Requests \ {r} : found'[q] = found[q]
        /\ found' \in [Requests -> [vector : Texts \cup {<<>>}, hits : SUBSET (UNION Corpora),
                                    asof : 0 .. MaxTime]]
    <3>. DEFINE F == [vector : Texts \cup {<<>>}, hits : SUBSET (UNION Corpora), asof : 0 .. MaxTime]
    <3>1. found \in [Requests -> F]
      BY DEF TypeOK
    <3>2. [found[r] EXCEPT !.vector = e.vector] \in F
      BY <2>4, <3>1
    <3>3. found' = [found EXCEPT ![r] = [found[r] EXCEPT !.vector = e.vector]]
      BY <2>1, <3>1
    <3>. DEFINE v == [found[r] EXCEPT !.vector = e.vector]
    <3>4. v \in F /\ found' = [found EXCEPT ![r] = v]
      BY <3>2, <3>3
    <3>. HIDE DEF F, v
    <3>5. found'[r] = v /\ \A q \in Requests \ {r} : found'[q] = found[q]
      BY <3>1, <3>4
    <3>6. found' \in [Requests -> F]
      BY <3>1, <3>4
    <3>. QED
      BY <3>5, <3>6 DEF F, v
  <2>8. TypeOK'
    BY <2>2, <2>6, <2>7 DEF TypeOK, worldVars
  <2>9. found[r] \in [vector : Texts \cup {<<>>}, hits : SUBSET (UNION Corpora), asof : 0 .. MaxTime]
    BY DEF TypeOK
  <2>10. PendingSound' /\ AnswersSound'
    BY <2>2, <2>4, <2>7, <2>9, LocalKeeps DEF Steps
  <2>11. Present' /\ EntriesSound' /\ EmbeddingsSound'
    BY <2>2, <2>6, EntriesKeep DEF Present, worldVars, Sound, EmbeddingsSound
  <2>. QED
    BY <2>8, <2>10, <2>11 DEF Sound
<1>8. ASSUME NEW r \in Requests, Retrieve(r) PROVE Inv'
  <2>1. /\ pc[r] = "search" /\ pc' = [pc EXCEPT ![r] = "set"]
        /\ UNCHANGED <<worldVars, cache, embeddings, asked, todo, answers>>
        /\ found' = [found EXCEPT ![r].asof = clock,
                                  ![r].hits = Ranked(Search(r), found[r].vector, store)]
    BY <1>8 DEF Retrieve, Step
  <2>2. found[r].vector = Search(r).text
    BY <2>1 DEF Sound, PendingSound
  <2>3. Ranked(Search(r), found[r].vector, store) = Hits(Search(r), store)
    BY <2>2 DEF Hits
  <2>4. Hits(Search(r), store) \subseteq UNION Corpora
    BY <1>0, HitsVisible
  <2>5. found[r] \in [vector : Texts \cup {<<>>}, hits : SUBSET (UNION Corpora), asof : 0 .. MaxTime]
    BY DEF TypeOK
  <2>6. /\ found'[r] = [found[r] EXCEPT !.asof = clock, !.hits = Hits(Search(r), store)]
        /\ \A q \in Requests \ {r} : found'[q] = found[q]
    BY <2>1, <2>3 DEF TypeOK
  <2>7. found'[r].asof = clock /\ found'[r].hits = Hits(Search(r), store)
        /\ found'[r].vector = found[r].vector
    BY <2>5, <2>6
  <2>8. found' \in [Requests -> [vector : Texts \cup {<<>>}, hits : SUBSET (UNION Corpora),
                                 asof : 0 .. MaxTime]]
    <3>1. found'[r] \in [vector : Texts \cup {<<>>}, hits : SUBSET (UNION Corpora),
                         asof : 0 .. MaxTime]
      BY <1>0, <2>4, <2>5, <2>6
    <3>. QED
      BY <2>1, <2>6, <3>1 DEF TypeOK
  <2>9. TypeOK'
    BY <2>1, <2>8 DEF TypeOK, worldVars
  <2>10. /\ found'[r].asof <= clock /\ clock <= found'[r].asof + MaxCall
         /\ \E S \in past[found'[r].asof] : found'[r].hits = Hits(Search(r), S)
    BY <1>0, <2>7 DEF Sound, Present
  <2>11. PendingSound' /\ AnswersSound'
    BY <2>1, <2>6, <2>10, LocalKeeps DEF Steps
  <2>12. Present' /\ EntriesSound' /\ EmbeddingsSound'
    BY <2>1, EntriesKeep DEF Present, worldVars, Sound, EmbeddingsSound
  <2>. QED
    BY <2>9, <2>11, <2>12 DEF Sound
<1>9. ASSUME NEW r \in Requests, RetrieveFails(r) \/ CacheFails(r) PROVE Inv'
  <2>1. PICK to \in {"error", "cache error"} : pc' = [pc EXCEPT ![r] = to]
    BY <1>9 DEF RetrieveFails, CacheFails
  <2>2. /\ UNCHANGED <<worldVars, cache, embeddings, asked, todo, found, answers>>
        /\ pc[r] \in Steps
    BY <1>9 DEF RetrieveFails, CacheFails, Steps
  <2>3. TypeOK'
    BY <2>1, <2>2 DEF TypeOK, worldVars
  <2>4. PendingSound' /\ AnswersSound'
    BY <2>1, <2>2, LocalKeeps
  <2>5. Present' /\ EntriesSound' /\ EmbeddingsSound'
    BY <2>2, EntriesKeep DEF Present, worldVars, Sound, EmbeddingsSound
  <2>. QED
    BY <2>3, <2>4, <2>5 DEF Sound
<1>10. ASSUME NEW r \in Requests, Set(r) PROVE Inv'
  <2>. DEFINE new == NewEntry(r)
  <2>1. /\ pc[r] = "set" /\ Answered(r, "set", found[r].hits)
        /\ cache' = (cache \ Entries(r)) \cup {new}
        /\ UNCHANGED <<worldVars, embeddings, asked, found>>
    BY <1>10 DEF Set
  <2>2. /\ found[r].asof <= clock /\ clock <= found[r].asof + MaxCall
        /\ \E S \in past[found[r].asof] : found[r].hits = Hits(Search(r), S)
    BY <2>1 DEF Sound, PendingSound
  <2>3. found[r].asof \in 0 .. clock
    <3>1. found[r].asof \in 0 .. MaxTime
      BY DEF TypeOK
    <3>. QED
      BY <1>0, <2>2, <3>1
  <2>4. PICK S \in past[found[r].asof] : found[r].hits = Hits(Search(r), S)
    BY <2>2
  <2>5. S \in Corpora /\ found[r].hits \subseteq UNION Corpora
    BY <1>0, <2>3, <2>4, HitsVisible
  <2>6. /\ pc' \in [Requests -> {"get", "pop", "embed", "search", "set", "done",
                                "error", "cache error"}]
        /\ todo' \in [Requests -> Seq(Searches)]
        /\ answers' \in [Requests -> Seq(Result)]
        /\ PendingSound' /\ AnswersSound'
    BY <2>1, <2>4, <2>5, AnsweredKeeps DEF worldVars, Sound
  <2>7. clock + TTL \in 1 .. MaxTime + TTL /\ clock + TTL <= found[r].asof + MaxCall + TTL
    BY <1>0, <2>2, <2>3
  <2>8. \A e \in cache' : e \in cache \/ e = new
    BY <2>1
  <2>9. TypeOK'
    <3>1. \A e \in cache' : /\ e.expires \in 1 .. MaxTime + TTL /\ e.asof \in 0 .. MaxTime
                            /\ e.hits \subseteq UNION Corpora
      <4>1. new.expires = clock + TTL /\ new.asof = found[r].asof /\ new.hits = found[r].hits
        BY DEF NewEntry
      <4>2. found[r].asof \in 0 .. MaxTime
        BY <1>0, <2>3
      <4>. HIDE DEF new
      <4>. QED
        BY <2>5, <2>7, <2>8, <4>1, <4>2 DEF TypeOK
    <3>. QED
      BY <2>1, <2>6, <3>1 DEF TypeOK, worldVars
  <2>10. Search(r) \in Searches
    BY <2>1, SearchTyped DEF Sound, PendingSound, Steps
  <2>11. EntriesSound'
    BY <2>1, <2>3, <2>4, <2>7, <2>8, <2>10 DEF NewEntry, Sound, EntriesSound, worldVars
  <2>12. Present' /\ EmbeddingsSound'
    BY <2>1 DEF Present, worldVars, Sound, EmbeddingsSound
  <2>. QED
    BY <2>6, <2>9, <2>11, <2>12 DEF Sound
<1>11. CASE UNCHANGED vars
  <2>1. TypeOK'
    BY <1>11 DEF vars, TypeOK
  <2>2. Present' /\ EntriesSound' /\ EmbeddingsSound'
    BY <1>11 DEF vars, Sound, Present, EntriesSound, EmbeddingsSound
  <2>3. PendingSound' /\ AnswersSound'
    BY <1>11 DEF vars, Sound, PendingSound, AnswersSound, Search
  <2>. QED
    BY <2>1, <2>2, <2>3 DEF Sound
<1>. QED
  BY <1>1, <1>2, <1>3, <1>4, <1>5, <1>6, <1>7, <1>8, <1>9, <1>10, <1>11 DEF Next

\* The invariant, in every behaviour.
LEMMA InvHolds == Spec => []Inv
<1>. QED
  BY InitInv, Preserved, PTL DEF Spec

-----------------------------------------------------------------------------
(* The properties.                                                         *)

\* Every reachable state of RetrievalCache has the types declared.
THEOREM TypeCorrect == Spec => []TypeOK
<1>1. Inv => TypeOK
  BY DEF Inv
<1>. QED
  BY <1>1, InvHolds, PTL

\* Whoever filled the cache, no caller is answered with a chunk that was not
\* visible to that caller (CachedRetriever.retrieve).
THEOREM CacheIsConfined == Spec => []CacheConfined
<1>1. Inv => CacheConfined
  <2>. SUFFICES ASSUME Inv, NEW r \in Requests, NEW i \in 1 .. Len(answers[r]),
                       NEW c \in answers[r][i].hits
                PROVE  AclAllows(c.acl, asked[r].who)
    BY DEF CacheConfined
  <2>1. PICK S \in Corpora : answers[r][i].hits = Hits(answers[r][i].search, S)
    BY DEF Inv, Sound, AnswersSound
  <2>2. answers[r][i].search.who = asked[r].who
    BY DEF Inv, Sound, AnswersSound
  <2>. QED
    BY <2>1, <2>2, HitsVisible
<1>. QED
  BY <1>1, InvHolds, PTL

\* Answering from what is recent is a step of the abstract specification.
LEMMA AnsweringServes ==
    ASSUME Inv, NEW r \in Requests, NEW hits, NEW from, Answered(r, from, hits),
           todo[r] # <<>>, UNCHANGED <<clock, store, past>>,
           \E t \in 0 .. clock : \E S \in past[t] :
                clock <= t + (TTL + MaxCall - 1) /\ hits = Hits(Search(r), S)
    PROVE  Promise!Serve(r)
<1>. DEFINE new == [search |-> Search(r), hits |-> hits]
<1>1. answers' = [answers EXCEPT ![r] = Append(answers[r], new)]
  BY DEF Answered
<1>2. answers' # answers
  <2>1. answers[r] \in Seq(Result) /\ answers'[r] = Append(answers[r], new)
    BY <1>1 DEF Inv, TypeOK
  <2>2. Len(answers'[r]) = Len(answers[r]) + 1 /\ Len(answers[r]) \in Nat
    BY <2>1
  <2>. QED
    BY <2>2
<1>3. PICK t \in 0 .. clock : \E S \in past[t] :
            clock <= t + (TTL + MaxCall - 1) /\ hits = Hits(Search(r), S)
  OBVIOUS
<1>4. PICK S \in past[t] : clock <= t + (TTL + MaxCall - 1) /\ hits = Hits(Search(r), S)
  BY <1>3
<1>5. S \in Promise!Recent
  BY <1>4 DEF Promise!Recent
<1>6. Search(r) \in Searches
  BY SearchTyped DEF Inv
<1>7. answers' = [answers EXCEPT ![r] =
                    Append(answers[r], [search |-> Search(r), hits |-> Hits(Search(r), S)])]
  BY <1>1, <1>4
<1>. QED
  BY <1>2, <1>5, <1>6, <1>7 DEF Promise!Serve

\* RetrievalCache implements BoundedStaleness: no answer is older than a TTL
\* and the call that filled the entry, whatever fills, expiries and pops
\* interleave (CachedRetriever over InMemoryCache or RedisCache).
THEOREM CacheImplementsPromise == Spec => StalenessBounded
<1>1. Init => Promise!Init
  BY DEF Init, Promise!Init
<1>2. Inv /\ [Next]_vars => [Promise!Next]_<<clock, store, past, answers>>
  <2>. SUFFICES ASSUME Inv, [Next]_vars
                PROVE  Promise!Next \/ UNCHANGED <<clock, store, past, answers>>
    OBVIOUS
  <2>1. CASE Change
    BY <2>1 DEF Change, Promise!Change, Promise!Next
  <2>2. CASE Tick
    BY <2>2 DEF Tick, Promise!Tick, Promise!Next
  <2>3. ASSUME NEW r \in Requests, Hit(r) PROVE Promise!Next
    <3>1. PICK e \in Entries(r) : Live(e) /\ Answered(r, "get", e.hits) /\ pc[r] = "get"
      BY <2>3 DEF Hit
    <3>2. todo[r] # <<>>
      BY <3>1 DEF Inv, Sound, PendingSound, Steps
    <3>3. UNCHANGED <<clock, store, past>>
      BY <2>3 DEF Hit, worldVars
    <3>4. \E t \in 0 .. clock : \E S \in past[t] :
                clock <= t + (TTL + MaxCall - 1) /\ e.hits = Hits(Search(r), S)
      BY <3>1, <3>2, LiveEntryRecent
    <3>5. Promise!Serve(r)
      BY <3>1, <3>2, <3>3, <3>4, AnsweringServes
    <3>. QED
      BY <3>5 DEF Promise!Next
  <2>4. ASSUME NEW r \in Requests, Set(r) PROVE Promise!Next
    <3>1. pc[r] = "set" /\ Answered(r, "set", found[r].hits)
      BY <2>4 DEF Set
    <3>2. UNCHANGED <<clock, store, past>>
      BY <2>4 DEF Set, worldVars
    <3>3. /\ found[r].asof <= clock /\ clock <= found[r].asof + MaxCall
          /\ \E S \in past[found[r].asof] : found[r].hits = Hits(Search(r), S)
          /\ todo[r] # <<>>
      BY <3>1 DEF Inv, Sound, PendingSound, Steps
    <3>4. found[r].asof \in 0 .. clock /\ clock <= found[r].asof + (TTL + MaxCall - 1)
      <4>1. found[r].asof \in 0 .. MaxTime /\ clock \in 0 .. MaxTime
        BY DEF Inv, TypeOK
      <4>. QED
        BY <3>3, <4>1, TimesAssumption
    <3>5. Promise!Serve(r)
      BY <3>1, <3>2, <3>3, <3>4, AnsweringServes
    <3>. QED
      BY <3>5 DEF Promise!Next
  <2>5. CASE RedisToggles
    BY <2>5 DEF RedisToggles
  <2>6. ASSUME NEW r \in Requests,
               Miss(r) \/ Pop(r) \/ Embed(r) \/ Retrieve(r) \/ RetrieveFails(r) \/ CacheFails(r)
        PROVE  UNCHANGED <<clock, store, past, answers>>
    BY <2>6 DEF Miss, Pop, Embed, Retrieve, RetrieveFails, CacheFails, worldVars
  <2>7. CASE UNCHANGED vars
    BY <2>7 DEF vars
  <2>. QED
    BY <2>1, <2>2, <2>3, <2>4, <2>5, <2>6, <2>7 DEF Next
<1>. QED
  BY <1>1, <1>2, InvHolds, PTL DEF Spec, StalenessBounded, Promise!Spec

-----------------------------------------------------------------------------
(* Query rewriting.                                                        *)

\* The leading phrases are phrases.
LEMMA PhrasesTyped == \A i \in 1 .. Len(LeadingPhrases) : Len(LeadingPhrases[i]) \in Nat
<1>1. Len(LeadingPhrases) = 12
  BY DEF LeadingPhrases
<1>2. \A i \in 1 .. 12 : Len(LeadingPhrases[i]) \in {1, 2, 3, 4}
  <2>1. /\ Len(LeadingPhrases[1]) = 3 /\ Len(LeadingPhrases[2]) = 3
        /\ Len(LeadingPhrases[3]) = 3 /\ Len(LeadingPhrases[4]) = 2
    BY DEF LeadingPhrases
  <2>2. /\ Len(LeadingPhrases[5]) = 3 /\ Len(LeadingPhrases[6]) = 2
        /\ Len(LeadingPhrases[7]) = 2 /\ Len(LeadingPhrases[8]) = 2
    BY DEF LeadingPhrases
  <2>3. /\ Len(LeadingPhrases[9]) = 3 /\ Len(LeadingPhrases[10]) = 4
        /\ Len(LeadingPhrases[11]) = 1 /\ Len(LeadingPhrases[12]) = 2
    BY DEF LeadingPhrases
  <2>4. \A i \in 1 .. 12 : i \in {1, 2, 3, 4, 5, 6, 7, 8, 9, 10, 11, 12}
    OBVIOUS
  <2>. QED
    BY <2>1, <2>2, <2>3, <2>4
<1>. QED
  BY <1>1, <1>2

\* A query without its leading phrase is made of words.
LEMMA StrippedTyped ==
    ASSUME NEW query \in Seq(Words)
    PROVE  Stripped(query) \in Seq(Words)
<1>. DEFINE leads == {i \in 1 .. Len(LeadingPhrases) : IsStrictPrefix(LeadingPhrases[i], query)}
            m == Len(LeadingPhrases[Min(leads)])
<1>1. CASE leads = {}
  BY <1>1 DEF Stripped
<1>2. CASE leads # {}
  <2>1. Len(LeadingPhrases) \in Nat
    BY DEF LeadingPhrases
  <2>2. IsFiniteSet(1 .. Len(LeadingPhrases))
    BY <2>1, FS_Interval
  <2>3. IsFiniteSet(leads) /\ leads \subseteq Int
    BY <2>1, <2>2, FS_Subset
  <2>4. Min(leads) \in leads
    <3>. HIDE DEF leads
    <3>. QED
      BY <1>2, <2>3, Extremes
  <2>5. m \in Nat
    BY <2>4, PhrasesTyped
  <2>6. Stripped(query) = SubSeq(query, m + 1, Len(query))
    BY <1>2 DEF Stripped
  <2>. HIDE DEF m
  <2>7. SubSeq(query, m + 1, Len(query)) \in Seq(Words)
    BY <2>5
  <2>. QED
    BY <2>6, <2>7
<1>. QED
  BY <1>1, <1>2

\* A rewritten query is made of words of the query.
LEMMA RewriteTyped ==
    ASSUME NEW query \in Seq(Words)
    PROVE  RewriteQuery(query) \in Seq(Words)
<1>. DEFINE seq == Stripped(query)
            D == 1 .. Len(seq)
            V == Seq(Words)
            Keep(words, w) ==
                IF w \in Stopwords \cup Unspoken THEN words ELSE Append(words, w)
            said == FoldLeft(Keep, <<>>, seq)
            pick == [T \in SUBSET D |-> Max(T)]
            F == [i \in D |-> [v \in V |-> Keep(v, seq[i])]]
            Body(g) == [T \in SUBSET D |-> IF T = {} THEN <<>>
                                           ELSE Keep(g[T \ {Max(T)}], seq[Max(T)])]
            iter == CHOOSE g : g = Body(g)
<1>1. seq \in Seq(Words) /\ Len(seq) \in Nat /\ DOMAIN seq = D
  BY StrippedTyped
<1>2. IsFiniteSet(D) /\ \A T \in SUBSET D : T # {} => Max(T) \in T
  <2>. HIDE DEF seq
  <2>. QED
    BY <1>1, LastPosition
<1>3. \A i \in D : \A v \in V : Keep(v, seq[i]) \in V
  BY <1>1
<1>4. PICK w \in [SUBSET D -> V] : IsFold(w, D, <<>>, F, pick)
  <2>1. F \in [D -> [V -> V]] /\ <<>> \in V
    BY <1>3
  <2>2. \A T \in SUBSET D : T # {} => pick[T] \in T
    BY <1>2
  <2>. DEFINE none == <<>>
  <2>. HIDE DEF D, V, F, pick, none
  <2>3. none \in V
    BY <2>1 DEF none
  <2>4. Foldable(D, V, none, F, pick)
    BY <1>2, <2>1, <2>2, <2>3 DEF Foldable
  <2>5. \E w \in [SUBSET D -> V] : IsFold(w, D, none, F, pick)
    BY <2>4, FoldExists
  <2>. QED
    BY <2>5 DEF none
<1>5. w = Body(w)
  <2>1. ASSUME NEW T \in SUBSET D PROVE w[T] = Body(w)[T]
    <3>1. CASE T = {}
      BY <1>4, <3>1 DEF IsFold
    <3>2. CASE T # {}
      <4>. HIDE DEF D, V, Keep
      <4>1. Max(T) \in D /\ T \ {Max(T)} \in SUBSET D /\ pick[T] = Max(T)
        BY <1>2, <3>2
      <4>2. w[T \ {Max(T)}] \in V
        BY <1>4, <4>1
      <4>3. F[Max(T)][w[T \ {Max(T)}]] = Keep(w[T \ {Max(T)}], seq[Max(T)])
        BY <4>1, <4>2
      <4>. QED
        BY <1>4, <3>2, <4>1, <4>3 DEF IsFold
    <3>. QED
      BY <3>1, <3>2
  <2>. QED
    BY <2>1
<1>6. iter = Body(iter)
  <2>. HIDE DEF Body
  <2>. QED
    BY <1>5
<1>7. said = iter[D]
  BY <1>1 DEF FoldLeft, MapThenFoldSet
<1>. DEFINE I == {T \in SUBSET D : iter[T] \in V}
<1>8. \A T \in SUBSET D : (\A U \in SUBSET T : U # T => U \in I) => T \in I
  <2>. SUFFICES ASSUME NEW T \in SUBSET D, \A U \in SUBSET T : U # T => U \in I
                PROVE  iter[T] \in V
    OBVIOUS
  <2>. HIDE DEF iter
  <2>1. CASE T = {}
    BY <1>6, <2>1
  <2>2. CASE T # {}
    <3>1. Max(T) \in T /\ Max(T) \in D
      BY <1>2, <2>2
    <3>2. T \ {Max(T)} \in I
      BY <3>1
    <3>3. iter[T] = Keep(iter[T \ {Max(T)}], seq[Max(T)])
      BY <1>6, <2>2
    <3>. QED
      BY <1>3, <3>1, <3>2, <3>3
  <2>. QED
    BY <2>1, <2>2
<1>9. D \in I
  <2>. HIDE DEF I, D
  <2>1. \A T \in SUBSET D : T \in I
    BY <1>2, <1>8, SmallerSets
  <2>. QED
    BY <2>1
<1>10. said \in V
  <2>. HIDE DEF iter
  <2>. QED
    BY <1>7, <1>9
<1>11. RewriteQuery(query) = IF said = <<>> THEN query ELSE said
  BY DEF RewriteQuery
<1>. HIDE DEF said
<1>. QED
  BY <1>10, <1>11

\* A list of variants of a query: the rewritten query first, no two the same.
Variants(list, q) ==
    /\ Len(list) \in Nat \ {0} /\ list[1] = q
    /\ \A i, j \in 1 .. Len(list) : list[i] = list[j] => i = j

\* A query is expanded to such a list, whatever the synonyms and the limit.
LEMMA ExpandIs ==
    ASSUME NEW query \in Seq(Words)
    PROVE  Variants(ExpandQuery(query), RewriteQuery(query))
<1>. DEFINE q == RewriteQuery(query)
            parts == [i \in 1 .. Len(q) |-> Synonyms[q[i]]]
            seq == FlattenSeq(parts)
            D == 1 .. Len(seq)
            Base == [list |-> <<q>>, full |-> FALSE]
            L == Seq(Seq(Words))
            V == {v \in [list : L, full : BOOLEAN] : Variants(v.list, q)}
            pick == [T \in SUBSET D |-> Max(T)]
            F == [i \in D |-> [v \in V |-> Add(v, seq[i])]]
            Body(g) == [T \in SUBSET D |-> IF T = {} THEN Base
                                           ELSE Add(g[T \ {Max(T)}], seq[Max(T)])]
            iter == CHOOSE g : g = Body(g)
<1>1. q \in Seq(Words) /\ Len(q) \in Nat
  BY RewriteTyped
<1>2. seq \in L
  <2>. DEFINE X == Seq(Words)
  <2>1. \A i \in 1 .. Len(q) : Synonyms[q[i]] \in Seq(X)
    BY <1>1, WordsAssumption
  <2>. DEFINE n == Len(q)
              SX == Seq(X)
  <2>2. parts \in [1 .. n -> SX] /\ n \in Nat
    BY <1>1, <2>1
  <2>. HIDE DEF parts, SX, n, X
  <2>3. parts \in Seq(SX)
    BY <2>2
  <2>4. FlattenSeq(parts) \in Seq(X)
    BY <2>3, FlattenIsSeq DEF SX
  <2>. QED
    BY <2>4 DEF X
<1>3. Len(seq) \in Nat /\ DOMAIN seq = D /\ \A i \in D : seq[i] \in Seq(Words)
  <2>. DEFINE X == Seq(Words)
  <2>1. seq \in Seq(X)
    BY <1>2
  <2>. HIDE DEF seq, X
  <2>2. Len(seq) \in Nat /\ DOMAIN seq = D /\ \A i \in D : seq[i] \in X
    BY <2>1
  <2>. QED
    BY <2>2 DEF X
<1>4. IsFiniteSet(D) /\ \A T \in SUBSET D : T # {} => Max(T) \in T
  <2>. HIDE DEF seq
  <2>. QED
    BY <1>3, LastPosition
<1>5. ASSUME NEW i \in D, NEW v \in V PROVE Add(v, seq[i]) \in V
  <2>. DEFINE X == Seq(Words)
              e == seq[i]
              list == Append(v.list, e)
  <2>0. \A l \in L : \A f \in BOOLEAN : Variants(l, q) => [list |-> l, full |-> f] \in V
    <3>. HIDE DEF L, q
    <3>. QED
      OBVIOUS
  <2>1. v.list \in Seq(X) /\ e \in X /\ v.full \in BOOLEAN /\ Variants(v.list, q)
    BY <1>3
  <2>2. CASE v.full
    <3>1. Add(v, e) = v
      BY <2>2 DEF Add
    <3>. QED
      BY <3>1
  <2>3. CASE ~v.full /\ e \in ToSet(v.list)
    <3>1. Add(v, e) = [list |-> v.list, full |-> Len(v.list) >= MaxVariants]
      BY <2>3 DEF Add
    <3>2. (Len(v.list) >= MaxVariants) \in BOOLEAN
      OBVIOUS
    <3>. HIDE DEF e, V, q
    <3>. QED
      BY <2>0, <2>1, <3>1, <3>2 DEF e
  <2>4. CASE ~v.full /\ e \notin ToSet(v.list)
    <3>1. Add(v, e) = [list |-> list, full |-> Len(list) >= MaxVariants]
      BY <2>4 DEF Add
    <3>. HIDE DEF X, e, V
    <3>2. /\ list \in Seq(X) /\ Len(list) = Len(v.list) + 1 /\ Len(v.list) \in Nat
          /\ \A j \in 1 .. Len(v.list) : list[j] = v.list[j]
          /\ list[Len(v.list) + 1] = e
          /\ DOMAIN v.list = 1 .. Len(v.list)
      BY <2>1
    <3>3. \A j \in 1 .. Len(v.list) : v.list[j] # e
      BY <2>4, <3>2 DEF ToSet
    <3>. HIDE DEF list
    <3>4. \A j, k \in 1 .. Len(list) : list[j] = list[k] => j = k
      <4>. SUFFICES ASSUME NEW j \in 1 .. Len(list), NEW k \in 1 .. Len(list), list[j] = list[k]
                    PROVE  j = k
        OBVIOUS
      <4>1. \A l \in 1 .. Len(list) : l \in 1 .. Len(v.list) \/ l = Len(v.list) + 1
        BY <3>2
      <4>. QED
        BY <2>1, <3>2, <3>3, <4>1 DEF Variants
    <3>5. Variants(list, q)
      <4>1. 1 \in 1 .. Len(v.list)
        BY <2>1, <3>2 DEF Variants
      <4>. QED
        BY <2>1, <3>2, <3>4, <4>1 DEF Variants
    <3>6. (Len(list) >= MaxVariants) \in BOOLEAN
      OBVIOUS
    <3>7. list \in L
      BY <3>2 DEF X
    <3>. HIDE DEF L, q
    <3>. QED
      BY <2>0, <3>1, <3>5, <3>6, <3>7 DEF e
  <2>. QED
    BY <2>2, <2>3, <2>4
<1>6. Base \in V
  <2>. DEFINE X == Seq(Words)
  <2>1. q \in X
    BY <1>1
  <2>. HIDE DEF X
  <2>2. <<q>> \in Seq(X) /\ Len(<<q>>) = 1 /\ <<q>>[1] = q
    BY <2>1
  <2>3. Variants(<<q>>, q)
    BY <2>2 DEF Variants
  <2>. QED
    BY <2>2, <2>3 DEF X
<1>7. PICK w \in [SUBSET D -> V] : IsFold(w, D, Base, F, pick)
  <2>1. F \in [D -> [V -> V]]
    <3>. HIDE DEF V, seq
    <3>. QED
      BY <1>5
  <2>2. \A T \in SUBSET D : T # {} => pick[T] \in T
    BY <1>4
  <2>. HIDE DEF D, V, F, pick, Base
  <2>3. Base \in V
    BY <1>6 DEF Base
  <2>4. IsFiniteSet(D)
    BY <1>4
  <2>5. Foldable(D, V, Base, F, pick)
    BY <2>1, <2>2, <2>3, <2>4 DEF Foldable
  <2>. QED
    BY <2>5, FoldExists
<1>8. w = Body(w)
  <2>1. ASSUME NEW T \in SUBSET D PROVE w[T] = Body(w)[T]
    <3>. HIDE DEF Base, V, seq
    <3>1. CASE T = {}
      BY <1>7, <3>1 DEF IsFold
    <3>2. CASE T # {}
      <4>. HIDE DEF D
      <4>1. Max(T) \in D /\ T \ {Max(T)} \in SUBSET D /\ pick[T] = Max(T)
        BY <1>4, <3>2
      <4>2. w[T \ {Max(T)}] \in V
        BY <1>7, <4>1
      <4>3. F[Max(T)][w[T \ {Max(T)}]] = Add(w[T \ {Max(T)}], seq[Max(T)])
        BY <4>1, <4>2
      <4>. QED
        BY <1>7, <3>2, <4>1, <4>3 DEF IsFold
    <3>. QED
      BY <3>1, <3>2
  <2>. QED
    BY <2>1
<1>9. iter = Body(iter)
  <2>. HIDE DEF Body
  <2>. QED
    BY <1>8
<1>10. FoldLeft(Add, Base, seq) = iter[D]
  <2>. HIDE DEF Base, seq
  <2>. QED
    BY <1>3 DEF FoldLeft, MapThenFoldSet
<1>. DEFINE I == {T \in SUBSET D : iter[T] \in V}
<1>11. \A T \in SUBSET D : (\A U \in SUBSET T : U # T => U \in I) => T \in I
  <2>. SUFFICES ASSUME NEW T \in SUBSET D, \A U \in SUBSET T : U # T => U \in I
                PROVE  iter[T] \in V
    OBVIOUS
  <2>. HIDE DEF iter, V, Base, seq
  <2>1. CASE T = {}
    BY <1>6, <1>9, <2>1
  <2>2. CASE T # {}
    <3>1. Max(T) \in T /\ Max(T) \in D
      BY <1>4, <2>2
    <3>2. T \ {Max(T)} \in I
      BY <3>1
    <3>3. iter[T] = Add(iter[T \ {Max(T)}], seq[Max(T)])
      BY <1>9, <2>2
    <3>. QED
      BY <1>5, <3>1, <3>2, <3>3
  <2>. QED
    BY <2>1, <2>2
<1>12. D \in I
  <2>. HIDE DEF I, D
  <2>1. \A T \in SUBSET D : T \in I
    BY <1>4, <1>11, SmallerSets
  <2>. QED
    BY <2>1
<1>13. FoldLeft(Add, Base, seq) \in V
  <2>. HIDE DEF iter, V, Base, seq
  <2>. QED
    BY <1>10, <1>12
<1>14. ExpandQuery(query) = FoldLeft(Add, Base, seq).list
  BY DEF ExpandQuery
<1>. DEFINE result == FoldLeft(Add, Base, seq)
<1>. HIDE DEF result
<1>15. ExpandQuery(query) = result.list /\ result \in V
  BY <1>13, <1>14 DEF result
<1>. QED
  BY <1>15

\* A call with rewriting searches for the rewritten query first and for no
\* text twice; a call without makes one search, for as many chunks as it asks.
LEMMA PlanIs ==
    ASSUME NEW a \in Asks
    PROVE  IF a.multi
           THEN /\ Len(Plan(a)) \in 1 .. MaxQueries
                /\ Plan(a)[1].text = RewriteQuery(a.query)
                /\ \A i, j \in 1 .. Len(Plan(a)) : Plan(a)[i].text = Plan(a)[j].text => i = j
           ELSE Len(Plan(a)) = 1 /\ Plan(a)[1].k = a.k
<1>1. CASE ~a.multi
  <2>. DEFINE s == [text |-> a.query, k |-> a.k, who |-> a.who]
  <2>1. Plan(a) = <<s>> /\ s.k = a.k
    BY <1>1 DEF Plan
  <2>. HIDE DEF s
  <2>. QED
    BY <1>1, <2>1
<1>2. CASE a.multi
  <2>. DEFINE v == ExpandQuery(a.query)
              n == Min({MaxQueries, Len(v)})
              k == IF PerQueryK = 0 THEN a.k ELSE PerQueryK
              plan == [i \in 1 .. n |-> [text |-> v[i], k |-> k, who |-> a.who]]
  <2>1. a.query \in Seq(Words)
    BY AsksAssumption
  <2>2. Variants(v, RewriteQuery(a.query))
    BY <2>1, ExpandIs
  <2>3. n \in Nat \ {0} /\ n <= Len(v) /\ n <= MaxQueries /\ Len(v) \in Nat \ {0}
    <3>1. Len(v) \in Nat \ {0} /\ MaxQueries \in Nat \ {0}
      BY <2>2, TimesAssumption DEF Variants
    <3>2. \E x \in {MaxQueries, Len(v)} : \A y \in {MaxQueries, Len(v)} : x <= y
      BY <3>1
    <3>3. n \in {MaxQueries, Len(v)} /\ \A y \in {MaxQueries, Len(v)} : n <= y
      BY <3>2 DEF Min
    <3>. QED
      BY <3>1, <3>3
  <2>4. Plan(a) = plan
    BY <1>2 DEF Plan
  <2>5. \A i \in 1 .. n : plan[i].text = v[i]
    OBVIOUS
  <2>6. Len(plan) = n
    <3>. HIDE DEF v, k, n
    <3>. QED
      BY <2>3
  <2>. HIDE DEF v, n, k, plan
  <2>. QED
    BY <1>2, <2>2, <2>3, <2>4, <2>5, <2>6, TimesAssumption DEF Variants
<1>. QED
  BY <1>1, <1>2

-----------------------------------------------------------------------------
(* Result lists.                                                           *)

\* Comes before in the ranking for text t.
Precedes(t, H) == {p \in H \X H : Place[t][p[1].id] < Place[t][p[2].id]}

\* Chunks of one corpus are strictly ordered by a text's ranking.
LEMMA PrecedesIsOrder ==
    ASSUME NEW t \in Texts, NEW S \in Corpora, NEW H \in SUBSET S
    PROVE  /\ IsFiniteSet(H) /\ StrictOrder(Precedes(t, H), H)
           /\ \A c \in H : {d \in H : Place[t][d.id] < Place[t][c.id]} = Ahead(Precedes(t, H), H, c)
<1>. DEFINE R == Precedes(t, H)
            at == [c \in H |-> Place[t][c.id]]
<1>1. IsFiniteSet(H)
  BY RankingAssumption, FS_Subset
<1>2. \A c \in H : c.id \in ChunkIds
  BY CorporaAssumption
<1>3. \A c \in H : at[c] \in Nat
  BY <1>2, PlaceAssumption
<1>4. \A c, d \in H : at[c] = at[d] => c = d
  BY <1>2, RankingAssumption
<1>5. \A c, d \in H : <<c, d>> \in R <=> at[c] < at[d]
  BY DEF Precedes
<1>. HIDE DEF R, at
<1>6. StrictOrder(R, H)
  BY <1>3, <1>4, <1>5 DEF StrictOrder
<1>7. ASSUME NEW c \in H PROVE {d \in H : Place[t][d.id] < Place[t][c.id]} = Ahead(R, H, c)
  BY <1>5 DEF at, Ahead
<1>. QED
  BY <1>1, <1>6, <1>7 DEF R

\* A search has at most as many hits as it asked for.
LEMMA HitsBounded ==
    ASSUME NEW s \in Searches, NEW S \in Corpora
    PROVE  IsFiniteSet(Hits(s, S)) /\ Cardinality(Hits(s, S)) \in Nat /\ Cardinality(Hits(s, S)) <= s.k
<1>. DEFINE V == Visible(S, s.who)
            R == Precedes(s.text, V)
            n(c) == Cardinality(Ahead(R, V, c))
            H == Hits(s, S)
            g == [c \in H |-> n(c)]
<1>1. V \in SUBSET S /\ s.text \in Texts /\ s.k \in Nat
  BY SizesAssumption DEF Visible, Searches
<1>2. /\ IsFiniteSet(V) /\ StrictOrder(R, V)
      /\ \A c \in V : {d \in V : Place[s.text][d.id] < Place[s.text][c.id]} = Ahead(R, V, c)
  <2>. HIDE DEF V
  <2>. QED
    BY <1>1, PrecedesIsOrder
<1>3. \A c : c \in H <=> c \in V /\ n(c) < s.k
  BY <1>2 DEF Hits, Ranked
<1>. HIDE DEF V, R, H
<1>4. /\ \A c \in V : n(c) \in Nat
      /\ \A c, d \in V : <<c, d>> \in R <=> n(c) < n(d)
  <2>1. Cardinality(V) \in Nat
    BY <1>2, AheadCounts
  <2>2. \A c \in V : n(c) \in 0 .. Cardinality(V) - 1
    BY <1>2, AheadCounts
  <2>3. \A c, d \in V : <<c, d>> \in R <=> n(c) < n(d)
    BY <1>2, AheadCounts
  <2>. HIDE DEF n
  <2>. QED
    BY <2>1, <2>2, <2>3
<1>5. \A c, d \in V : n(c) = n(d) => c = d
  <2>. HIDE DEF n
  <2>. QED
    BY <1>2, <1>4 DEF StrictOrder
<1>6. IsFiniteSet(H)
  <2>1. H \in SUBSET V
    BY <1>3
  <2>. QED
    BY <1>2, <2>1, FS_Subset
<1>. DEFINE m == s.k
            T == 0 .. m - 1
<1>7. IsFiniteSet(T) /\ Cardinality(T) = m
  <2>1. 0 \in Int /\ m - 1 \in Int /\ m \in Nat
    BY <1>1
  <2>. HIDE DEF m
  <2>. DEFINE lo == 0
              hi == m - 1
  <2>2. lo \in Int /\ hi \in Int
    BY <2>1
  <2>. HIDE DEF lo, hi
  <2>3. IsFiniteSet(lo .. hi) /\ Cardinality(lo .. hi) = IF lo > hi THEN 0 ELSE hi - lo + 1
    BY <2>2, FS_Interval
  <2>. QED
    BY <2>1, <2>3 DEF lo, hi
<1>8. g \in Injection(H, T)
  <2>. HIDE DEF n
  <2>1. \A c \in H : n(c) \in T
    BY <1>1, <1>3, <1>4
  <2>. QED
    BY <1>3, <1>5, <2>1 DEF Injection, IsInjective
<1>9. Cardinality(H) <= Cardinality(T)
  <2>. HIDE DEF T, g
  <2>. QED
    BY <1>7, <1>8, FS_Injection
<1>10. Cardinality(H) \in Nat
  BY <1>6, FS_CardinalityType
<1>. QED
  BY <1>6, <1>7, <1>9, <1>10 DEF H

\* A result list has the hits of its search, each once.
LEMMA ListIs ==
    ASSUME NEW a, a.search.text \in Texts, NEW S \in Corpora, a.hits \in SUBSET S
    PROVE  /\ Distinct(List(a)) /\ Items(List(a)) = a.hits
           /\ Len(List(a)) = Cardinality(a.hits)
           /\ \A i, j \in 1 .. Len(List(a)) : List(a)[i].id = List(a)[j].id => i = j
<1>. DEFINE t == a.search.text
            H == a.hits
            R == Precedes(t, H)
            n == Cardinality(H)
            list == [i \in 1 .. n |->
                        CHOOSE c \in H : Cardinality({d \in H : Place[t][d.id] < Place[t][c.id]}) = i - 1]
<1>1. List(a) = list
  BY DEF List, Sorted
<1>2. /\ IsFiniteSet(H) /\ StrictOrder(R, H)
      /\ \A c \in H : {d \in H : Place[t][d.id] < Place[t][c.id]} = Ahead(R, H, c)
  <2>. HIDE DEF t, H
  <2>. QED
    BY PrecedesIsOrder DEF t, H
<1>3. n \in Nat
  BY <1>2, FS_CardinalityType
<1>4. ASSUME NEW i \in 1 .. n PROVE list[i] \in H /\ Cardinality(Ahead(R, H, list[i])) = i - 1
  <2>. HIDE DEF H, R, t
  <2>1. PICK c \in H : Cardinality(Ahead(R, H, c)) = i - 1
    BY <1>2, AheadCounts
  <2>2. Cardinality({d \in H : Place[t][d.id] < Place[t][c.id]}) = i - 1
    BY <1>2, <2>1
  <2>3. /\ list[i] \in H
        /\ Cardinality({d \in H : Place[t][d.id] < Place[t][list[i].id]}) = i - 1
    <3>1. list[i] = CHOOSE e \in H : Cardinality({d \in H : Place[t][d.id] < Place[t][e.id]}) = i - 1
      OBVIOUS
    <3>. HIDE DEF list, n
    <3>. QED
      BY <2>2, <3>1
  <2>. HIDE DEF list, n
  <2>. QED
    BY <1>2, <2>3
<1>5. Len(list) = n
  <2>. HIDE DEF H, t, n
  <2>. QED
    BY <1>3
<1>. HIDE DEF list, H, R, t
<1>6. /\ \A i, j \in 1 .. n : list[i] = list[j] => i = j
      /\ \A c \in H : \E i \in 1 .. n : list[i] = c
  BY <1>2, <1>4, SortedBy
<1>7. Distinct(list) /\ Items(list) = H
  <2>. HIDE DEF n
  <2>. QED
    BY <1>3, <1>4, <1>5, <1>6 DEF Distinct, Items
<1>8. \A i, j \in 1 .. n : list[i].id = list[j].id => i = j
  <2>1. \A i \in 1 .. n : list[i] \in S
    BY <1>4 DEF H
  <2>. QED
    BY <1>6, <2>1, RankingAssumption
<1>. QED
  BY <1>1, <1>5, <1>7, <1>8 DEF H

-----------------------------------------------------------------------------
(* Multi-query retrieval.                                                  *)

\* What has been answered and what is left are the searches of the plan.
Planned ==
    \A r \in Requests :
        LET plan == Plan(asked[r])
            made == Len(answers[r])
        IN  /\ Len(plan) = made + Len(todo[r])
            /\ \A i \in 1 .. made : answers[r][i].search = plan[i]
            /\ \A i \in 1 .. Len(todo[r]) : todo[r][i] = plan[made + i]
            /\ pc[r] = "done" => Len(todo[r]) = 0

\* Answering a search moves it from what is left to what has been answered.
LEMMA AnsweredFollowsPlan ==
    ASSUME Inv, Planned, NEW r \in Requests, pc[r] \in {"get", "set"}, NEW hits,
           Answered(r, pc[r], hits), asked' = asked
    PROVE  Planned'
<1>. DEFINE new == [search |-> Search(r), hits |-> hits]
            plan == Plan(asked[r])
            made == Len(answers[r])
<1>1. todo[r] # <<>>
  BY DEF Inv, Sound, PendingSound, Steps
<1>2. /\ Len(todo[r]) \in Nat \ {0} /\ Search(r) = todo[r][1]
      /\ Len(Tail(todo[r])) = Len(todo[r]) - 1
      /\ \A i \in 1 .. Len(Tail(todo[r])) : Tail(todo[r])[i] = todo[r][i + 1]
  BY <1>1, SearchTyped DEF Inv
<1>3. /\ todo' = [todo EXCEPT ![r] = Tail(todo[r])]
      /\ answers' = [answers EXCEPT ![r] = Append(answers[r], new)]
      /\ pc' = [pc EXCEPT ![r] = IF Len(todo[r]) = 1 THEN "done" ELSE "get"]
  BY DEF Answered, Step
<1>4. /\ todo'[r] = Tail(todo[r]) /\ answers'[r] = Append(answers[r], new)
      /\ pc'[r] = IF Len(todo[r]) = 1 THEN "done" ELSE "get"
      /\ \A q \in Requests \ {r} : todo'[q] = todo[q] /\ answers'[q] = answers[q] /\ pc'[q] = pc[q]
  BY <1>3 DEF Inv, TypeOK
<1>5. /\ made \in Nat /\ Len(answers'[r]) = made + 1 /\ answers'[r][made + 1] = new
      /\ \A i \in 1 .. made : answers'[r][i] = answers[r][i]
  <2>1. answers[r] \in Seq(Result)
    BY DEF Inv, TypeOK
  <2>. HIDE DEF new
  <2>. QED
    BY <1>4, <2>1
<1>6. /\ Len(plan) = made + Len(todo[r])
      /\ \A i \in 1 .. made : answers[r][i].search = plan[i]
      /\ \A i \in 1 .. Len(todo[r]) : todo[r][i] = plan[made + i]
  BY DEF Planned
<1>7. new.search = plan[made + 1]
  BY <1>2, <1>6
<1>. HIDE DEF new, plan, made
<1>8. /\ Len(plan) = Len(answers'[r]) + Len(todo'[r])
      /\ \A i \in 1 .. Len(answers'[r]) : answers'[r][i].search = plan[i]
      /\ \A i \in 1 .. Len(todo'[r]) : todo'[r][i] = plan[Len(answers'[r]) + i]
      /\ pc'[r] = "done" => Len(todo'[r]) = 0
  <2>. DEFINE left == Len(todo[r])
  <2>0. /\ left \in Nat \ {0} /\ made \in Nat
        /\ Len(todo'[r]) = left - 1 /\ Len(answers'[r]) = made + 1 /\ Len(plan) = made + left
    BY <1>2, <1>4, <1>5, <1>6
  <2>1. Len(plan) = Len(answers'[r]) + Len(todo'[r])
    <3>. HIDE DEF left
    <3>. QED
      BY <2>0
  <2>2. \A i \in 1 .. Len(answers'[r]) : answers'[r][i].search = plan[i]
    <3>. SUFFICES ASSUME NEW i \in 1 .. made + 1 PROVE answers'[r][i].search = plan[i]
      BY <1>5
    <3>1. i \in 1 .. made \/ i = made + 1
      BY <1>5
    <3>. QED
      BY <1>5, <1>6, <1>7, <3>1
  <2>3. \A i \in 1 .. Len(todo'[r]) : todo'[r][i] = plan[Len(answers'[r]) + i]
    <3>. SUFFICES ASSUME NEW i \in 1 .. Len(todo[r]) - 1 PROVE todo'[r][i] = plan[(made + 1) + i]
      BY <1>2, <1>4, <1>5
    <3>1. i + 1 \in 1 .. Len(todo[r]) /\ made + (i + 1) = (made + 1) + i
      <4>1. i \in 1 .. left - 1
        OBVIOUS
      <4>. HIDE DEF left
      <4>2. i + 1 \in 1 .. left /\ made + (i + 1) = (made + 1) + i
        BY <2>0, <4>1
      <4>. QED
        BY <4>2 DEF left
    <3>2. todo'[r][i] = todo[r][i + 1]
      BY <1>2, <1>4
    <3>3. todo[r][i + 1] = plan[made + (i + 1)]
      BY <1>6, <3>1
    <3>. QED
      BY <3>1, <3>2, <3>3
  <2>4. pc'[r] = "done" => Len(todo'[r]) = 0
    BY <1>2, <1>4
  <2>. QED
    BY <2>1, <2>2, <2>3, <2>4
<1>9. ASSUME NEW q \in Requests, q # r
      PROVE  LET m == Len(answers'[q])
                 p == Plan(asked[q])
             IN  /\ Len(p) = m + Len(todo'[q])
                 /\ \A i \in 1 .. m : answers'[q][i].search = p[i]
                 /\ \A i \in 1 .. Len(todo'[q]) : todo'[q][i] = p[m + i]
                 /\ pc'[q] = "done" => Len(todo'[q]) = 0
  <2>1. answers'[q] = answers[q] /\ todo'[q] = todo[q] /\ pc'[q] = pc[q]
    BY <1>4, <1>9
  <2>. QED
    BY <2>1 DEF Planned
<1>. QED
  BY <1>8, <1>9 DEF Planned, plan

\* Before the first search the whole plan is left.
LEMMA InitPlanned == Init => Planned
<1>. SUFFICES ASSUME Init, NEW r \in Requests
              PROVE  /\ Len(Plan(asked[r])) = Len(answers[r]) + Len(todo[r])
                     /\ \A i \in 1 .. Len(answers[r]) : answers[r][i].search = Plan(asked[r])[i]
                     /\ \A i \in 1 .. Len(todo[r]) : todo[r][i] = Plan(asked[r])[Len(answers[r]) + i]
                     /\ pc[r] = "done" => Len(todo[r]) = 0
  BY DEF Planned
<1>1. /\ todo[r] = Plan(asked[r]) /\ answers[r] = <<>> /\ pc[r] = "get"
      /\ asked[r] \in Asks
  BY DEF Init
<1>2. Plan(asked[r]) \in Seq(Searches)
  BY <1>1, PlanCorrect
<1>. DEFINE plan == Plan(asked[r])
<1>3. plan \in Seq(Searches) /\ Len(plan) \in Nat /\ Len(<<>>) = 0
  BY <1>2
<1>4. todo[r] = plan
  BY <1>1
<1>. HIDE DEF plan
<1>5. Len(answers[r]) = 0
  BY <1>1, <1>3
<1>6. \A i \in 1 .. Len(plan) : 0 + i = i
  BY <1>3
<1>7. /\ Len(plan) = Len(answers[r]) + Len(todo[r])
      /\ \A i \in 1 .. Len(answers[r]) : answers[r][i].search = plan[i]
      /\ \A i \in 1 .. Len(todo[r]) : todo[r][i] = plan[Len(answers[r]) + i]
  BY <1>3, <1>4, <1>5, <1>6
<1>. QED
  BY <1>1, <1>7 DEF plan

\* Every step keeps to the plan: only Hit and Set make progress on it.
LEMMA PlanKept == Inv /\ Planned /\ [Next]_vars => Planned'
<1>. SUFFICES ASSUME Inv, Planned, [Next]_vars PROVE Planned'
  OBVIOUS
<1>1. ASSUME asked' = asked, todo' = todo, answers' = answers,
             \A r \in Requests : pc'[r] = "done" => pc[r] = "done"
      PROVE  Planned'
  BY <1>1 DEF Planned
<1>2. pc \in [Requests -> {"get", "pop", "embed", "search", "set", "done",
                           "error", "cache error"}]
  BY DEF Inv, TypeOK
<1>3. CASE Change \/ Tick \/ RedisToggles \/ UNCHANGED vars
  BY <1>1, <1>3 DEF Change, Tick, RedisToggles, vars
<1>4. ASSUME NEW r \in Requests, Hit(r) PROVE Planned'
  <2>1. PICK e \in Entries(r) : Live(e) /\ Answered(r, "get", e.hits)
    BY <1>4 DEF Hit
  <2>2. pc[r] = "get" /\ asked' = asked
    BY <1>4 DEF Hit
  <2>. QED
    BY <2>1, <2>2, AnsweredFollowsPlan
<1>5. ASSUME NEW r \in Requests, Set(r) PROVE Planned'
  <2>1. pc[r] = "set" /\ asked' = asked /\ Answered(r, "set", found[r].hits)
    BY <1>5 DEF Set
  <2>. QED
    BY <2>1, AnsweredFollowsPlan
<1>6. ASSUME NEW r \in Requests,
             Miss(r) \/ Pop(r) \/ Embed(r) \/ Retrieve(r) \/ RetrieveFails(r) \/ CacheFails(r)
      PROVE  Planned'
  <2>1. PICK to \in {"embed", "pop", "search", "set", "error", "cache error"} :
            pc' = [pc EXCEPT ![r] = to]
    BY <1>6 DEF Miss, Pop, Embed, Retrieve, RetrieveFails, CacheFails, Step
  <2>2. asked' = asked /\ todo' = todo /\ answers' = answers
    BY <1>6 DEF Miss, Pop, Embed, Retrieve, RetrieveFails, CacheFails
  <2>3. \A q \in Requests : pc'[q] = "done" => pc[q] = "done"
    BY <1>2, <2>1
  <2>. QED
    BY <1>1, <2>2, <2>3
<1>. QED
  BY <1>3, <1>4, <1>5, <1>6 DEF Next

\* Every chunk of the lists, and the lists' chunk ids.
AllOf(lists) == UNION {Items(lists[i]) : i \in 1 .. Len(lists)}
IdsOf(lists) == [i \in 1 .. Len(lists) |-> Ids(lists[i])]

\* Merged lists have no chunk id twice, and miss one only when they are full.
LEMMA MergeIs ==
    ASSUME NEW lists, Len(lists) \in Nat, NEW top \in Nat,
           \A i \in 1 .. Len(lists) :
                /\ Len(lists[i]) \in Nat
                /\ \A l, m \in 1 .. Len(lists[i]) : lists[i][l].id = lists[i][m].id => l = m
    PROVE  LET merged == Merge(lists, top)
           IN  /\ Len(merged) \in Nat /\ Len(merged) <= top
               /\ \A i, j \in 1 .. Len(merged) : merged[i].id = merged[j].id => i = j
               /\ Items(merged) \subseteq AllOf(lists)
               /\ Len(merged) < top => {c.id : c \in AllOf(lists)} = {c.id : c \in Items(merged)}
<1>. DEFINE n == Len(lists)
            ids == IdsOf(lists)
            fused == Fuse(ids, RrfK, top)
            len == Len(fused)
            merged == Merge(lists, top)
            met == Cardinality(Found(ids))
<1>1. Len(ids) = n
  BY DEF IdsOf
<1>2. ASSUME NEW i \in 1 .. n
      PROVE  /\ ids[i] = Ids(lists[i]) /\ Len(ids[i]) = Len(lists[i])
             /\ \A l \in 1 .. Len(lists[i]) : ids[i][l] = lists[i][l].id
             /\ Distinct(ids[i])
  <2>1. ids[i] = Ids(lists[i])
    BY DEF IdsOf
  <2>2. Len(Ids(lists[i])) = Len(lists[i])
    BY DEF Ids
  <2>3. \A l \in 1 .. Len(lists[i]) : Ids(lists[i])[l] = lists[i][l].id
    BY DEF Ids
  <2>. HIDE DEF ids
  <2>. QED
    BY <2>1, <2>2, <2>3 DEF Distinct
<1>. HIDE DEF ids
<1>3. RankedLists(ids)
  BY <1>1, <1>2 DEF RankedLists
<1>4. /\ met \in Nat /\ len = (IF met < top THEN met ELSE top)
      /\ fused \in [1 .. IF met < top THEN met ELSE top -> Found(ids)]
      /\ Distinct(fused) /\ Items(fused) \subseteq Found(ids)
  BY <1>3, FuseIs, TimesAssumption
<1>. DEFINE at(id) == Min(Has(ids, id))
            show(id) == lists[at(id)][Rank(ids[at(id)], id)]
<1>5. ASSUME NEW id \in Found(ids)
      PROVE  show(id).id = id /\ show(id) \in AllOf(lists)
  <2>1. at(id) \in 1 .. n /\ id \in Items(ids[at(id)])
    <3>1. PICK i \in 1 .. n : id \in Items(ids[i])
      BY <1>1 DEF Found
    <3>2. Has(ids, id) \in SUBSET (1 .. n) /\ Has(ids, id) # {}
      BY <1>1, <3>1 DEF Has
    <3>3. IsFiniteSet(Has(ids, id)) /\ Has(ids, id) \in SUBSET Int
      BY <1>3, <3>2, FoundFinite
    <3>. DEFINE H == Has(ids, id)
    <3>. HIDE DEF H
    <3>4. H # {} /\ IsFiniteSet(H) /\ H \in SUBSET Int
      BY <3>2, <3>3 DEF H
    <3>5. Min(H) \in H
      BY <3>4, Extremes
    <3>. QED
      BY <1>1, <3>5 DEF H, Has
  <2>. DEFINE i == at(id)
              l == Rank(ids[i], id)
  <2>2. l \in 1 .. Len(ids[i]) /\ ids[i][l] = id
    <3>. HIDE DEF i
    <3>. QED
      BY <1>2, <2>1, RankIs DEF i
  <2>. HIDE DEF i, l
  <2>3. lists[i][l].id = id /\ lists[i][l] \in Items(lists[i]) /\ i \in 1 .. n
    BY <1>2, <2>1, <2>2 DEF Items, i
  <2>4. lists[i][l] \in AllOf(lists)
    BY <2>3 DEF AllOf
  <2>. QED
    BY <2>3, <2>4 DEF i, l
<1>6. merged = [j \in 1 .. len |-> show(fused[j])]
  BY DEF Merge, ids, IdsOf
<1>. HIDE DEF show, merged, fused
<1>7. len \in Nat /\ len <= top
  BY <1>4
<1>8. \A j \in 1 .. len : fused[j] \in Found(ids)
  BY <1>4 DEF Items
<1>9. Len(merged) = len /\ \A j \in 1 .. len : merged[j] = show(fused[j])
  BY <1>6, <1>7
<1>. HIDE DEF len, met
<1>10. /\ \A j \in 1 .. len : merged[j].id = fused[j] /\ merged[j] \in AllOf(lists)
  BY <1>5, <1>8, <1>9
<1>11. \A i, j \in 1 .. len : merged[i].id = merged[j].id => i = j
  BY <1>4, <1>10 DEF Distinct, len
<1>12. Items(merged) \subseteq AllOf(lists)
  BY <1>9, <1>10 DEF Items
<1>13. ASSUME len < top
       PROVE  {c.id : c \in AllOf(lists)} = {c.id : c \in Items(merged)}
  <2>1. len = met
    BY <1>4, <1>13
  <2>2. Items(fused) = Found(ids)
    <3>. DEFINE A == Items(fused)
                B == Found(ids)
    <3>1. IsFiniteSet(B) /\ A \in SUBSET B /\ Cardinality(A) = Cardinality(B)
      BY <1>3, <1>4, <2>1, FoundFinite, ItemsCounted DEF met, len
    <3>. HIDE DEF A, B
    <3>2. A = B
      BY <3>1, FS_Subset
    <3>. QED
      BY <3>2 DEF A, B
  <2>3. ASSUME NEW c \in AllOf(lists) PROVE c.id \in Found(ids)
    <3>1. PICK i \in 1 .. n : c \in Items(lists[i])
      BY DEF AllOf
    <3>2. PICK l \in 1 .. Len(lists[i]) : lists[i][l] = c
      BY <3>1 DEF Items
    <3>3. c.id \in Items(ids[i])
      BY <1>2, <3>2 DEF Items
    <3>. QED
      BY <1>1, <3>3 DEF Found
  <2>4. ASSUME NEW c \in AllOf(lists) PROVE \E d \in Items(merged) : d.id = c.id
    <3>1. PICK j \in 1 .. len : fused[j] = c.id
      BY <2>2, <2>3 DEF Items, len
    <3>. QED
      BY <1>9, <1>10, <3>1 DEF Items
  <2>. QED
    BY <1>12, <2>4
<1>. QED
  BY <1>7, <1>9, <1>11, <1>12, <1>13 DEF merged

\* What a call with or without rewriting replies when it is done.
LEMMA ReplySound ==
    ASSUME Inv, Planned, NEW r \in Requests, pc[r] = "done"
    PROVE  LET reply == Reply(r)
               results == answers[r]
               hits == UNION {results[i].hits : i \in 1 .. Len(results)}
           IN  /\ Len(reply) <= asked[r].k
               /\ \A i, j \in 1 .. Len(reply) : reply[i].id = reply[j].id => i = j
               /\ Items(reply) \subseteq hits
               /\ Len(reply) < asked[r].k => {c.id : c \in hits} = {c.id : c \in Items(reply)}
<1>. DEFINE results == answers[r]
            n == Len(results)
            lists == [i \in 1 .. n |-> List(results[i])]
            k == asked[r].k
<1>1. asked[r] \in Asks /\ k \in Nat /\ RrfK \in Nat /\ results \in Seq(Result) /\ n \in Nat
  <2>1. asked[r] \in Asks /\ results \in Seq(Result)
    BY DEF Inv, TypeOK
  <2>2. k \in Nat
    BY <2>1, AsksAssumption, SizesAssumption
  <2>3. n \in Nat
    <3>. HIDE DEF results
    <3>. QED
      BY <2>1
  <2>. HIDE DEF results, k, n
  <2>. QED
    BY <2>1, <2>2, <2>3, TimesAssumption
<1>2. Len(Plan(asked[r])) = n /\ \A i \in 1 .. n : results[i].search = Plan(asked[r])[i]
  <2>1. Len(Plan(asked[r])) = n + Len(todo[r]) /\ Len(todo[r]) = 0
    BY DEF Planned
  <2>2. \A i \in 1 .. n : results[i].search = Plan(asked[r])[i]
    BY DEF Planned
  <2>. HIDE DEF n
  <2>. QED
    BY <1>1, <2>1, <2>2
<1>3. ASSUME NEW i \in 1 .. n
      PROVE  /\ \A l, m \in 1 .. Len(lists[i]) : lists[i][l].id = lists[i][m].id => l = m
             /\ Items(lists[i]) = results[i].hits
             /\ Len(lists[i]) \in Nat /\ Len(lists[i]) <= results[i].search.k
  <2>1. results[i] \in Result
    BY <1>1
  <2>2. results[i].search \in Searches
    BY <2>1 DEF Result
  <2>3. PICK S \in Corpora : results[i].hits = Hits(results[i].search, S)
    BY DEF Inv, Sound, AnswersSound
  <2>4. /\ Cardinality(results[i].hits) \in Nat
        /\ Cardinality(results[i].hits) <= results[i].search.k
    BY <2>2, <2>3, HitsBounded
  <2>5. results[i].hits \in SUBSET S /\ results[i].search.text \in Texts
    BY <2>2, <2>3, HitsVisible DEF Searches
  <2>6. lists[i] = List(results[i])
    OBVIOUS
  <2>. HIDE DEF results, lists
  <2>. QED
    BY <2>4, <2>5, <2>6, ListIs
<1>4. Len(lists) = n
  <2>. HIDE DEF n, results
  <2>. QED
    BY <1>1
<1>. DEFINE hits == UNION {results[i].hits : i \in 1 .. n}
<1>5. AllOf(lists) = hits
  <2>. HIDE DEF lists, n, results
  <2>. QED
    BY <1>3, <1>4 DEF AllOf
<1>6. CASE asked[r].multi
  <2>1. Reply(r) = Merge(lists, k)
    BY <1>6 DEF Reply
  <2>. HIDE DEF lists, k, n, hits
  <2>. DEFINE merged == Merge(lists, k)
  <2>2. /\ Len(lists) \in Nat
        /\ \A i \in 1 .. Len(lists) :
                /\ Len(lists[i]) \in Nat
                /\ \A l, m \in 1 .. Len(lists[i]) : lists[i][l].id = lists[i][m].id => l = m
    BY <1>1, <1>3, <1>4
  <2>3. /\ Len(merged) \in Nat /\ Len(merged) <= k
        /\ \A i, j \in 1 .. Len(merged) : merged[i].id = merged[j].id => i = j
        /\ Items(merged) \subseteq AllOf(lists)
        /\ Len(merged) < k => {c.id : c \in AllOf(lists)} = {c.id : c \in Items(merged)}
    BY <1>1, <2>2, MergeIs
  <2>. HIDE DEF merged
  <2>. QED
    BY <1>5, <2>1, <2>3 DEF merged, hits, k, n
<1>7. CASE ~asked[r].multi
  <2>1. n = 1 /\ results[1].search.k = k
    BY <1>1, <1>2, <1>7, PlanIs
  <2>2. Reply(r) = lists[1]
    BY <1>7 DEF Reply
  <2>3. hits = results[1].hits
    <3>. HIDE DEF n, results
    <3>. QED
      BY <2>1
  <2>. HIDE DEF lists, n, results, k, hits
  <2>. QED
    BY <1>3, <2>1, <2>2, <2>3 DEF k, n, results, hits
<1>. QED
  BY <1>6, <1>7

\* Multi-query retrieval, in every behaviour: at most top_k chunks, no chunk id
\* twice, all found for the call's own variants, which differ and begin with the
\* rewritten query, and none found left out unless the reply is full
\* (MultiQueryRetriever.retrieve, expand_query, reciprocal_rank_fusion).
THEOREM MultiQueryIsSound == Spec => []MultiQuerySound
<1>1. Inv /\ Planned => MultiQuerySound
  <2>. SUFFICES ASSUME Inv, Planned, NEW r \in Requests, pc[r] = "done"
                PROVE  LET reply == Reply(r)
                           results == answers[r]
                           hits == UNION {results[i].hits : i \in 1 .. Len(results)}
                       IN  /\ Len(reply) <= asked[r].k
                           /\ \A i, j \in 1 .. Len(reply) : reply[i].id = reply[j].id => i = j
                           /\ Items(reply) \subseteq hits
                           /\ Len(reply) < asked[r].k =>
                                {c.id : c \in hits} = {c.id : c \in Items(reply)}
                           /\ asked[r].multi =>
                               /\ results[1].search.text = RewriteQuery(asked[r].query)
                               /\ Len(results) \in 1 .. MaxQueries
                               /\ \A i, j \in 1 .. Len(results) :
                                    results[i].search.text = results[j].search.text => i = j
    BY DEF MultiQuerySound
  <2>. DEFINE results == answers[r]
              plan == Plan(asked[r])
  <2>. DEFINE hits == UNION {results[i].hits : i \in 1 .. Len(results)}
  <2>1. /\ Len(Reply(r)) <= asked[r].k
        /\ \A i, j \in 1 .. Len(Reply(r)) : Reply(r)[i].id = Reply(r)[j].id => i = j
        /\ Items(Reply(r)) \subseteq hits
        /\ Len(Reply(r)) < asked[r].k =>
                {c.id : c \in hits} = {c.id : c \in Items(Reply(r))}
    BY ReplySound
  <2>2. Len(plan) = Len(results) /\ \A i \in 1 .. Len(results) : results[i].search = plan[i]
    <3>1. Len(results) \in Nat
      <4>1. results \in Seq(Result)
        BY DEF Inv, TypeOK
      <4>. HIDE DEF results
      <4>. QED
        BY <4>1
    <3>2. Len(plan) = Len(results) + Len(todo[r]) /\ Len(todo[r]) = 0
      BY DEF Planned
    <3>3. \A i \in 1 .. Len(results) : results[i].search = plan[i]
      BY DEF Planned
    <3>. HIDE DEF plan, results
    <3>. QED
      BY <3>1, <3>2, <3>3
  <2>3. ASSUME asked[r].multi
        PROVE  /\ results[1].search.text = RewriteQuery(asked[r].query)
               /\ Len(results) \in 1 .. MaxQueries
               /\ \A i, j \in 1 .. Len(results) :
                        results[i].search.text = results[j].search.text => i = j
    <3>1. asked[r] \in Asks
      BY DEF Inv, TypeOK
    <3>2. /\ Len(plan) \in 1 .. MaxQueries
          /\ plan[1].text = RewriteQuery(asked[r].query)
          /\ \A i, j \in 1 .. Len(plan) : plan[i].text = plan[j].text => i = j
      BY <2>3, <3>1, PlanIs
    <3>. HIDE DEF plan, results
    <3>. QED
      BY <2>2, <3>2, TimesAssumption
  <2>. HIDE DEF hits
  <2>. QED
    BY <2>1, <2>3 DEF hits
<1>2. Spec => []Planned
  BY InitPlanned, PlanKept, InvHolds, PTL DEF Spec
<1>. QED
  BY <1>1, <1>2, InvHolds, PTL
=============================================================================
