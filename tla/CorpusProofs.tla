---------------------------- MODULE CorpusProofs ----------------------------
(* Theorems about Corpus, for every value of its constants. *)
EXTENDS Corpus, TLAPS

-----------------------------------------------------------------------------
(* Types.                                                                  *)

\* TypeOK without the history of the scans.
CoreOK ==
    /\ collection \in {"absent", "bare", "indexed"}
    /\ store \subseteq Chunk
    /\ used \subseteq ChunkIds
    /\ pc \in [Procs -> States]
    /\ op \in [Procs -> {"none", "boot", "ingest", "delete", "list", "query"}]
    /\ todo \in [Procs -> Seq(Document)]
    /\ target \in [Procs -> SUBSET Docs]
    /\ batch \in [Procs -> SUBSET ChunkIds]
    /\ acc \in [Procs -> SUBSET Chunk]
    /\ offset \in [Procs -> Nat]
    /\ sparse \in [Procs -> SUBSET Chunk]
    /\ caller \in [Procs -> Callers]
    /\ hits \in [Procs -> SUBSET Chunk]
    /\ acked \in [Procs -> SUBSET ChunkIds]
    /\ purged \in [Procs -> SUBSET ChunkIds]

\* A page, and what is beyond it, are of the set that is paged.
LEMMA PageSubset ==
    ASSUME NEW S, NEW from
    PROVE  Page(S, from) \subseteq S /\ Beyond(S, from) \subseteq S
BY DEF Page, Beyond, Remaining

\* The ids of chunks are ids.
LEMMA IdsOfChunks ==
    ASSUME NEW S, S \subseteq Chunk
    PROVE  Ids(S) \subseteq ChunkIds
BY DEF Ids, Chunk

\* The id of a chunk is a number.
LEMMA ChunkIdNat == \A c \in Chunk : c.id \in Nat
<1>1. \A c \in Chunk : c.id \in ChunkIds
  BY DEF Chunk
<1> QED
  BY <1>1, IdsAssumption

\* What an ingest makes are chunks.
LEMMA NewChunksType ==
    ASSUME NEW d \in Document, NEW ids \in FreshIds(d)
    PROVE  NewChunks(d, ids) \subseteq Chunk
<1>1. 1 .. d.parts \subseteq Nat
  OBVIOUS
<1>2. \A i \in 1 .. d.parts : ids[i] \in ChunkIds
  BY DEF FreshIds
<1>3. d.doc \in Docs /\ d.acl \in SUBSET Groups
  BY DEF Document
<1> QED
  BY <1>1, <1>2, <1>3 DEF NewChunks, Chunk

\* Beginning an operation keeps the types of the handler's locals.
LEMMA BeginType ==
    ASSUME CoreOK, NEW p \in Procs,
           NEW what \in {"none", "boot", "ingest", "delete", "list"},
           NEW where \in States, NEW docs \in Seq(Document),
           NEW doomed \in SUBSET Docs, Begin(p, what, where, docs, doomed)
    PROVE  /\ pc' \in [Procs -> States]
           /\ op' \in [Procs -> {"none", "boot", "ingest", "delete", "list", "query"}]
           /\ todo' \in [Procs -> Seq(Document)]
           /\ target' \in [Procs -> SUBSET Docs]
           /\ batch' \in [Procs -> SUBSET ChunkIds]
           /\ acc' \in [Procs -> SUBSET Chunk]
           /\ offset' \in [Procs -> Nat]
           /\ caller' \in [Procs -> Callers]
           /\ hits' \in [Procs -> SUBSET Chunk]
BY DEF CoreOK, Begin, Goto, Callers

\* Ending an operation keeps the types of the handler's locals.
LEMMA FinishType ==
    ASSUME CoreOK, NEW p \in Procs, Finish(p)
    PROVE  /\ pc' \in [Procs -> States]
           /\ op' \in [Procs -> {"none", "boot", "ingest", "delete", "list", "query"}]
           /\ todo' \in [Procs -> Seq(Document)]
           /\ target' \in [Procs -> SUBSET Docs]
           /\ batch' \in [Procs -> SUBSET ChunkIds]
           /\ acc' \in [Procs -> SUBSET Chunk]
           /\ offset' \in [Procs -> Nat]
<1>1. <<>> \in Seq(Document)
  OBVIOUS
<1> QED
  BY <1>1 DEF CoreOK, Finish, Goto, States

\* An exception keeps the types, whatever the store has applied.
LEMMA RaiseType ==
    ASSUME CoreOK, NEW p \in Procs, Raise(p), store' \subseteq Chunk,
           used' \subseteq ChunkIds, collection' \in {"absent", "bare", "indexed"}
    PROVE  CoreOK'
<1>1. Finish(p)
  BY DEF Raise
<1> QED
  BY <1>1, FinishType DEF CoreOK, Raise, queryVars, ledgerVars

\* Opening a scan keeps the types of what it moves.
LEMMA ScanType ==
    ASSUME CoreOK, NEW p \in Procs, NEW where \in States, OpenScan(p, where)
    PROVE  /\ pc' \in [Procs -> States]
           /\ acc' \in [Procs -> SUBSET Chunk]
           /\ offset' \in [Procs -> Nat]
BY DEF CoreOK, OpenScan, Goto

\* What follows ensure_collection keeps the types.
LEMMA EnsureType ==
    ASSUME CoreOK, NEW p \in Procs, AfterEnsure(p)
    PROVE  /\ pc' \in [Procs -> States]
           /\ acc' \in [Procs -> SUBSET Chunk]
           /\ offset' \in [Procs -> Nat]
<1>1. "scan" \in States /\ "upsert" \in States
  BY DEF States, Watching, Scanning
<1> QED
  BY <1>1, ScanType DEF CoreOK, AfterEnsure, Goto

\* Upserts and deletes leave a set of chunks.
LEMMA WriteTypes ==
    ASSUME CoreOK
    PROVE  /\ \A new : new \subseteq Chunk => Upserted(store, new) \subseteq Chunk
           /\ \A ids : Erased(store, ids) \subseteq Chunk
BY DEF CoreOK, Upserted, Erased

\* A request, a start and a crash keep the types.
LEMMA ArriveType ==
    ASSUME CoreOK, NEW p \in Procs, Arrive(p) \/ Crash(p)
    PROVE  CoreOK'
<1>0. /\ <<>> \in Seq(Document)
      /\ \A d \in Docs : {d} \in SUBSET Docs
      /\ {} \in SUBSET Docs
      /\ "exists" \in States /\ "scan" \in States /\ "down" \in States
      /\ "fuse" \in States /\ "idle" \in States
  BY DEF States, Watching, Scanning
<1>1. CASE Start(p)
  BY <1>0, <1>1, BeginType DEF Start, CoreOK
<1>2. CASE Ingest(p)
  <2>1. PICK docs \in Seq(Document) : Begin(p, "ingest", "exists", docs, {})
    BY <1>2, RequestsAssumption DEF Ingest
  <2> QED
    BY <1>0, <1>2, <2>1, BeginType DEF Ingest, CoreOK, ledgerVars
<1>3. CASE Delete(p)
  <2>1. PICK d \in Docs : Begin(p, "delete", "scan", <<>>, {d})
    BY <1>3 DEF Delete
  <2> QED
    BY <1>0, <1>3, <2>1, BeginType DEF Delete, CoreOK, ledgerVars
<1>4. CASE List(p)
  BY <1>0, <1>4, BeginType DEF List, CoreOK, ledgerVars
<1>5. CASE QueryDense(p)
  <2>1. PICK who \in Users : \E found \in TopK(Visible(store, who)) :
            /\ caller' = [caller EXCEPT ![p] = who]
            /\ hits' = [hits EXCEPT ![p] = found]
    BY <1>5 DEF QueryDense
  <2>2. PICK found \in TopK(Visible(store, who)) :
            /\ caller' = [caller EXCEPT ![p] = who]
            /\ hits' = [hits EXCEPT ![p] = found]
    BY <2>1
  <2>3. found \subseteq Chunk
    BY <2>2 DEF TopK, Visible, CoreOK
  <2>4. who \in Callers
    BY UsersAssumption
  <2>5. pc' \in [Procs -> States]
        /\ op' \in [Procs -> {"none", "boot", "ingest", "delete", "list", "query"}]
    BY <1>0, <1>5 DEF QueryDense, Goto, CoreOK
  <2> QED
    BY <1>5, <2>2, <2>3, <2>4, <2>5 DEF QueryDense, CoreOK, requestVars, ledgerVars
<1>6. CASE Crash(p)
  BY <1>0, <1>6, BeginType DEF Crash, CoreOK
<1> QED
  BY <1>1, <1>2, <1>3, <1>4, <1>5, <1>6 DEF Arrive

\* What a scan has read are chunks.
LEMMA ScannedType ==
    ASSUME CoreOK, NEW p \in Procs
    PROVE  ScannedBy(p) \subseteq Chunk
BY PageSubset DEF ScannedBy, CoreOK

\* A refused call is one that fails.
LEMMA RefusedFails ==
    ASSUME NEW p, Refused(p)
    PROVE  CallFails(p)
BY DEF Refused, CallFails, Scanning

\* Every call of a handler keeps the types.
LEMMA ServeType ==
    ASSUME CoreOK, NEW p \in Procs, Serve(p)
    PROVE  CoreOK'
<1>0. "create" \in States /\ "payload" \in States /\ "erase" \in States
      /\ "reindex" \in States
  BY DEF States, Watching, Scanning
<1>1. CASE CollectionExists(p)
  BY <1>0, <1>1, EnsureType DEF CollectionExists, Goto, CoreOK, queryVars, ledgerVars
<1>2. CASE CreateCollection(p)
  <2>1. CASE Raise(p)
    BY <1>2, <2>1, RaiseType DEF CreateCollection, CoreOK
  <2>2. CASE ~ Raise(p)
    BY <1>0, <1>2, <2>2
    DEF CreateCollection, Goto, CoreOK, requestVars, queryVars, ledgerVars
  <2> QED
    BY <2>1, <2>2
<1>3. CASE CreatePayloadIndex(p)
  <2>1. CASE Raise(p)
    BY <1>3, <2>1, RaiseType DEF CreatePayloadIndex, CoreOK
  <2>2. CASE ~ Raise(p)
    BY <1>3, <2>2, EnsureType DEF CreatePayloadIndex, CoreOK, queryVars, ledgerVars
  <2> QED
    BY <2>1, <2>2
<1>4. CASE Upsert(p)
  <2>0. Head(todo[p]) \in Document /\ Tail(todo[p]) \in Seq(Document)
    BY <1>4 DEF Upsert, CoreOK
  <2>1. PICK ids \in FreshIds(Head(todo[p])) :
          LET new == NewChunks(Head(todo[p]), ids)
          IN  /\ used' = used \cup Ids(new)
              /\ \/ /\ store' = Upserted(store, new)
                    /\ todo' = [todo EXCEPT ![p] = Tail(@)]
                    /\ batch' = [batch EXCEPT ![p] = @ \cup Ids(new)]
                    /\ UNCHANGED <<pc, op, target, acc, offset, sparse,
                                   queryVars, ledgerVars>>
                 \/ /\ \E part \in SUBSET new : store' = Upserted(store, part)
                    /\ Raise(p)
    BY <1>4 DEF Upsert
  <2> DEFINE new == NewChunks(Head(todo[p]), ids)
  <2>2. new \subseteq Chunk
    BY <2>0, NewChunksType
  <2>3. Ids(new) \subseteq ChunkIds /\ used' \subseteq ChunkIds
    BY <2>1, <2>2, IdsOfChunks DEF CoreOK
  <2>4. store' \subseteq Chunk
    BY <2>1, <2>2, WriteTypes
  <2>5. collection' \in {"absent", "bare", "indexed"}
    BY <1>4 DEF Upsert, CoreOK
  <2> HIDE DEF new
  <2>6. CASE Raise(p)
    BY <2>3, <2>4, <2>5, <2>6, RaiseType
  <2>7. CASE ~ Raise(p)
    <3>1. /\ todo' = [todo EXCEPT ![p] = Tail(@)]
          /\ batch' = [batch EXCEPT ![p] = @ \cup Ids(new)]
          /\ UNCHANGED <<pc, op, target, acc, offset, sparse, queryVars, ledgerVars>>
      BY <2>1, <2>7 DEF new
    <3> QED
      BY <2>0, <2>3, <2>4, <2>5, <3>1 DEF CoreOK, queryVars, ledgerVars
  <2> QED
    BY <2>6, <2>7
<1>5. CASE Reindex(p)
  BY <1>0, <1>5, ScanType DEF Reindex, CoreOK, queryVars, ledgerVars
<1>6. CASE Erase(p)
  <2>1. store' \subseteq Chunk /\ used' \subseteq ChunkIds
        /\ collection' \in {"absent", "bare", "indexed"}
    BY <1>6, WriteTypes DEF Erase, CoreOK
  <2>2. CASE Raise(p)
    BY <2>1, <2>2, RaiseType
  <2>3. CASE ~ Raise(p)
    BY <1>0, <1>6, <2>1, <2>3, ScanType DEF Erase, CoreOK, queryVars, ledgerVars
  <2> QED
    BY <2>2, <2>3
<1>7. CASE ReadPage(p)
  <2>1. acc[p] \cup Page(store, offset[p]) \subseteq Chunk
    BY PageSubset DEF CoreOK
  <2>2. Ids(Beyond(store, offset[p])) \subseteq Nat
    BY PageSubset, IdsOfChunks, IdsAssumption DEF CoreOK
  <2>3. acc' \in [Procs -> SUBSET Chunk] /\ offset' \in [Procs -> Nat]
    BY <1>7, <2>1, <2>2 DEF ReadPage, CoreOK
  <2> QED
    BY <1>7, <2>3 DEF ReadPage, CoreOK, queryVars, ledgerVars
<1>8. CASE FinishBoot(p)
  BY <1>8, FinishType, ScannedType DEF FinishBoot, LastPage, CoreOK, queryVars, ledgerVars
<1>9. CASE FinishList(p)
  BY <1>9, FinishType DEF FinishList, LastPage, CoreOK, queryVars, ledgerVars
<1>10. CASE FindDoomed(p)
  <2>1. Ids({c \in ScannedBy(p) : c.doc \in target[p]}) \subseteq ChunkIds
    BY ScannedType, IdsOfChunks
  <2> QED
    BY <1>0, <1>10, <2>1 DEF FindDoomed, LastPage, Goto, CoreOK, queryVars, ledgerVars
<1>11. CASE FinishReindex(p)
  <2>1. acked' \in [Procs -> SUBSET ChunkIds] /\ purged' \in [Procs -> SUBSET ChunkIds]
    BY <1>11 DEF FinishReindex, CoreOK
  <2> QED
    BY <1>11, <2>1, FinishType, ScannedType DEF FinishReindex, LastPage, CoreOK, queryVars
<1>12. CASE QueryHybrid(p)
  <2>1. PICK found \in TopK(Visible(sparse[p], caller[p])) :
          \E fused \in TopK(hits[p] \cup {c \in found : c.id \notin Ids(hits[p])}) :
            hits' = [hits EXCEPT ![p] = fused]
    BY <1>12 DEF QueryHybrid
  <2>2. hits' \in [Procs -> SUBSET Chunk]
    BY <2>1 DEF TopK, Visible, CoreOK
  <2> QED
    BY <1>12, <2>2, FinishType DEF QueryHybrid, CoreOK, ledgerVars
<1>13. CASE CallFails(p)
  BY <1>13, RaiseType DEF CallFails, CoreOK
<1> QED
  BY <1>1, <1>2, <1>3, <1>4, <1>5, <1>6, <1>7, <1>8, <1>9, <1>10, <1>11, <1>12, <1>13, RefusedFails
  DEF Serve, Progress

\* No step puts anything but a value of its type into a variable.
THEOREM TypeCorrect == Spec => []TypeOK
<1>1. Init => TypeOK
  BY DEF Init, TypeOK, States, Callers
<1>2. TypeOK /\ [Next]_vars => TypeOK'
  <2> SUFFICES ASSUME TypeOK, [Next]_vars PROVE TypeOK'
    OBVIOUS
  <2>1. CoreOK
    BY DEF TypeOK, CoreOK
  <2>2. CASE UNCHANGED vars
    BY <2>2 DEF vars, TypeOK
  <2>3. CASE Next
    <3>1. CoreOK'
      BY <2>1, <2>3, ArriveType, ServeType DEF Next
    <3>2. must' \in [Procs -> SUBSET Chunk] /\ may' \in [Procs -> SUBSET Chunk]
      BY <2>3, <3>1 DEF Next, Observe, TypeOK, CoreOK
    <3> QED
      BY <3>1, <3>2 DEF TypeOK, CoreOK
  <2> QED
    BY <2>2, <2>3
<1> QED
  BY <1>1, <1>2, PTL DEF Spec

-----------------------------------------------------------------------------
(* What a step may do to the state the invariants are about.               *)

\* Where a process stands in its operation.
ControlInv ==
    \A p \in Procs :
        /\ pc[p] \in {"down", "idle"} => op[p] = "none"
        /\ pc[p] \in {"exists", "create", "payload"} => op[p] \in {"boot", "ingest"}
        /\ pc[p] = "scan" => op[p] \in {"boot", "delete", "list"}
        /\ pc[p] = "upsert" => op[p] = "ingest"
        /\ pc[p] = "erase" => op[p] = "delete"
        /\ pc[p] = "reindex" => op[p] \in {"ingest", "delete"}
        /\ pc[p] = "fuse" => op[p] = "query"
        /\ op[p] = "boot" => acked[p] = {}

\* Only the process that moves changes its own locals, index and ledger.
Frame(p) ==
    \A q \in Procs \ {p} :
        /\ pc'[q] = pc[q] /\ op'[q] = op[q]
        /\ target'[q] = target[q] /\ batch'[q] = batch[q]
        /\ acc'[q] = acc[q] /\ offset'[q] = offset[q]
        /\ sparse'[q] = sparse[q]
        /\ caller'[q] = caller[q] /\ hits'[q] = hits[q]
        /\ acked'[q] = acked[q] /\ purged'[q] = purged[q]

\* Chunks leave the store, and chunks with new ids enter it.
StoreEffect ==
    \E new \in SUBSET Chunk :
        /\ store' \subseteq store \cup new
        /\ used' = used \cup Ids(new)
        /\ Ids(new) \cap used = {}
        /\ \A c, d \in new : c.id = d.id => c = d

\* A scan is opened or reads a page.
ScanEffect(p) ==
    pc'[p] \in Scanning =>
        \/ pc'[p] # pc[p] /\ acc'[p] = {} /\ offset'[p] = 0
        \/ pc'[p] = pc[p] /\ ReadPage(p)

\* The index changes by being emptied with the ledger, or at the end of a scan.
IndexEffect(p) ==
    \/ sparse'[p] = sparse[p] /\ acked'[p] = acked[p]
    \/ sparse'[p] = {} /\ acked'[p] = {}
    \/ FinishBoot(p)
    \/ FinishReindex(p)

\* Deletion goes through FindDoomed, Erase and FinishReindex.
DeleteEffect(p) ==
    /\ pc'[p] = "erase" => FindDoomed(p)
    /\ pc'[p] = "reindex" /\ op'[p] = "delete" =>
          \/ ReadPage(p)
          \/ /\ pc[p] = "erase" /\ batch'[p] = batch[p]
             /\ store' = Erased(store, batch[p])
    /\ purged'[p] = purged[p] \/ (FinishReindex(p) /\ op[p] = "delete")

\* Retrieved chunks come from the store or from the index.
HitsEffect(p) ==
    hits'[p] \subseteq hits[p] \cup store \cup sparse[p]

\* The batch of a request is made of ids in use.
BatchEffect(p) ==
    batch'[p] \subseteq batch[p] \cup used' \/ FindDoomed(p)

Effect(p) ==
    /\ Frame(p) /\ StoreEffect /\ ScanEffect(p) /\ IndexEffect(p)
    /\ DeleteEffect(p) /\ HitsEffect(p) /\ BatchEffect(p)

\* Leaving the store alone is an effect on it.
LEMMA NoWrite ==
    ASSUME store' = store, used' = used
    PROVE  StoreEffect
<1>1. {} \in SUBSET Chunk /\ Ids({}) = {}
  BY DEF Ids
<1> QED
  BY <1>1 DEF StoreEffect

\* So is taking chunks away.
LEMMA EraseWrite ==
    ASSUME store' \subseteq store, used' = used
    PROVE  StoreEffect
<1>1. {} \in SUBSET Chunk /\ Ids({}) = {}
  BY DEF Ids
<1> QED
  BY <1>1 DEF StoreEffect

\* What beginning an operation does to the store and to the process.
LEMMA BeginEffect ==
    ASSUME TypeOK, NEW p \in Procs, NEW what, NEW docs, NEW doomed,
           NEW where \in {"exists", "scan", "down"},
           pc[p] # where, what # "delete" \/ where # "reindex",
           Begin(p, what, where, docs, doomed),
           store' = store, used' = used, purged' = purged,
           \/ sparse' = sparse /\ acked' = acked
           \/ /\ sparse' = [sparse EXCEPT ![p] = {}]
              /\ acked' = [acked EXCEPT ![p] = {}]
    PROVE  Effect(p)
<1>1. Frame(p)
  BY DEF Frame, Begin, Goto, TypeOK
<1>2. ScanEffect(p)
  BY DEF ScanEffect, Begin, Goto, TypeOK, Scanning
<1>3. IndexEffect(p)
  BY DEF IndexEffect, TypeOK
<1>4. DeleteEffect(p)
  BY DEF DeleteEffect, Begin, Goto, TypeOK
<1>5. HitsEffect(p) /\ BatchEffect(p)
  BY DEF HitsEffect, BatchEffect, Begin, TypeOK
<1> QED
  BY <1>1, <1>2, <1>3, <1>4, <1>5, NoWrite DEF Effect

\* What an exception does to the process.
LEMMA RaiseEffect ==
    ASSUME TypeOK, ControlInv, NEW p \in Procs, Raise(p), StoreEffect
    PROVE  Effect(p)
<1>1. Frame(p)
  BY DEF Frame, Raise, Finish, Goto, TypeOK, queryVars, ledgerVars
<1>2. ScanEffect(p)
  BY DEF ScanEffect, Raise, Finish, Goto, TypeOK, Scanning
<1>3. IndexEffect(p)
  BY DEF IndexEffect, Raise, ledgerVars, ControlInv, TypeOK
<1>4. DeleteEffect(p)
  BY DEF DeleteEffect, Raise, Finish, Goto, TypeOK, ledgerVars
<1>5. HitsEffect(p) /\ BatchEffect(p)
  BY DEF HitsEffect, BatchEffect, Raise, Finish, TypeOK, queryVars
<1> QED
  BY <1>1, <1>2, <1>3, <1>4, <1>5 DEF Effect

\* What a request, a start and a crash do.
LEMMA ArriveEffect ==
    ASSUME TypeOK, NEW p \in Procs, Arrive(p) \/ Crash(p)
    PROVE  Effect(p)
<1>1. CASE Start(p)
  BY <1>1, BeginEffect DEF Start
<1>2. CASE Ingest(p)
  BY <1>2, BeginEffect DEF Ingest, ledgerVars
<1>3. CASE Delete(p)
  BY <1>3, BeginEffect DEF Delete, ledgerVars
<1>4. CASE List(p)
  BY <1>4, BeginEffect DEF List, ledgerVars
<1>5. CASE QueryDense(p)
  <2>1. PICK who \in Users : \E found \in TopK(Visible(store, who)) :
            /\ caller' = [caller EXCEPT ![p] = who]
            /\ hits' = [hits EXCEPT ![p] = found]
    BY <1>5 DEF QueryDense
  <2>2. HitsEffect(p)
    BY <2>1 DEF HitsEffect, TopK, Visible, TypeOK
  <2>3. Frame(p)
    BY <1>5, <2>1 DEF QueryDense, Frame, Goto, TypeOK, requestVars, ledgerVars
  <2>4. ScanEffect(p) /\ IndexEffect(p) /\ DeleteEffect(p) /\ BatchEffect(p)
    BY <1>5 DEF QueryDense, ScanEffect, IndexEffect, DeleteEffect, BatchEffect,
                Goto, TypeOK, Scanning, requestVars, ledgerVars
  <2> QED
    BY <1>5, <2>2, <2>3, <2>4, NoWrite DEF Effect, QueryDense
<1>6. CASE Crash(p)
  BY <1>6, BeginEffect DEF Crash
<1> QED
  BY <1>1, <1>2, <1>3, <1>4, <1>5, <1>6 DEF Arrive

\* The steps that leave the process in its operation and touch no index.
LEMMA QuietEffect ==
    ASSUME TypeOK, NEW p \in Procs, StoreEffect, ScanEffect(p), DeleteEffect(p),
           BatchEffect(p), Frame(p), UNCHANGED <<sparse, queryVars, ledgerVars>>
    PROVE  Effect(p)
BY DEF Effect, IndexEffect, HitsEffect, queryVars, ledgerVars

\* An ingest draws ids that were in no copy, one for each chunk.
LEMMA FreshChunks ==
    ASSUME NEW d \in Document, NEW ids \in FreshIds(d)
    PROVE  /\ Ids(NewChunks(d, ids)) \cap used = {}
           /\ \A c, e \in NewChunks(d, ids) : c.id = e.id => c = e
BY DEF FreshIds, NewChunks, Ids

\* What an upsert does, applied or not.
LEMMA UpsertEffect ==
    ASSUME TypeOK, ControlInv, NEW p \in Procs, Upsert(p)
    PROVE  Effect(p)
<1>0. Head(todo[p]) \in Document
  BY DEF Upsert, TypeOK
<1>1. PICK ids \in FreshIds(Head(todo[p])) :
        LET new == NewChunks(Head(todo[p]), ids)
        IN  /\ used' = used \cup Ids(new)
            /\ \/ /\ store' = Upserted(store, new)
                  /\ todo' = [todo EXCEPT ![p] = Tail(@)]
                  /\ batch' = [batch EXCEPT ![p] = @ \cup Ids(new)]
                  /\ UNCHANGED <<pc, op, target, acc, offset, sparse,
                                 queryVars, ledgerVars>>
               \/ /\ \E part \in SUBSET new : store' = Upserted(store, part)
                  /\ Raise(p)
  BY DEF Upsert
<1> DEFINE new == NewChunks(Head(todo[p]), ids)
<1>2. /\ new \in SUBSET Chunk /\ Ids(new) \cap used = {}
      /\ \A c, e \in new : c.id = e.id => c = e
  BY <1>0, NewChunksType, FreshChunks
<1>3. used' = used \cup Ids(new)
  BY <1>1
<1>4. store' \subseteq store \cup new
  BY <1>1 DEF Upserted
<1>5. StoreEffect
  BY <1>2, <1>3, <1>4 DEF StoreEffect
<1>6. CASE Raise(p)
  BY <1>5, <1>6, RaiseEffect
<1>7. CASE ~ Raise(p)
  <2>1. /\ batch' = [batch EXCEPT ![p] = @ \cup Ids(new)]
        /\ UNCHANGED <<pc, op, target, acc, offset, sparse, queryVars, ledgerVars>>
    BY <1>1, <1>7
  <2>2. pc[p] = "upsert"
    BY DEF Upsert
  <2> HIDE DEF new
  <2>3. Frame(p)
    BY <2>1 DEF Frame, TypeOK, queryVars, ledgerVars
  <2>4. ScanEffect(p) /\ DeleteEffect(p)
    BY <2>1, <2>2 DEF ScanEffect, DeleteEffect, Scanning, ledgerVars
  <2>5. BatchEffect(p)
    BY <2>1, <1>3 DEF BatchEffect, TypeOK
  <2> QED
    BY <1>5, <2>1, <2>3, <2>4, <2>5, QuietEffect
<1> QED
  BY <1>6, <1>7

\* What the calls of ensure_collection do.
LEMMA EnsureEffect ==
    ASSUME TypeOK, ControlInv, NEW p \in Procs,
           CollectionExists(p) \/ CreateCollection(p) \/ CreatePayloadIndex(p)
    PROVE  Effect(p)
<1>0. StoreEffect
  BY NoWrite DEF CollectionExists, CreateCollection, CreatePayloadIndex
<1>1. CASE Raise(p)
  BY <1>0, <1>1, RaiseEffect
<1>2. CASE ~ Raise(p)
  <2>1. UNCHANGED <<op, todo, target, batch, sparse, queryVars, ledgerVars>>
    BY <1>2 DEF CollectionExists, CreateCollection, CreatePayloadIndex,
                requestVars
  <2>2. /\ pc[p] \in {"exists", "create", "payload"}
        /\ \/ /\ \E where \in {"create", "payload", "upsert"} : Goto(p, where)
              /\ UNCHANGED <<acc, offset>>
           \/ OpenScan(p, "scan")
    BY <1>2 DEF CollectionExists, CreateCollection, CreatePayloadIndex,
                AfterEnsure, requestVars
  <2>3. Frame(p)
    BY <2>1, <2>2 DEF Frame, Goto, OpenScan, TypeOK, queryVars, ledgerVars
  <2>4. ScanEffect(p) /\ DeleteEffect(p) /\ BatchEffect(p)
    BY <2>1, <2>2 DEF ScanEffect, DeleteEffect, BatchEffect, Goto, OpenScan,
                      TypeOK, Scanning, ledgerVars
  <2> QED
    BY <1>0, <2>1, <2>3, <2>4, QuietEffect
<1> QED
  BY <1>1, <1>2

\* What a delete call does, applied or not.
LEMMA EraseEffect ==
    ASSUME TypeOK, ControlInv, NEW p \in Procs, Erase(p)
    PROVE  Effect(p)
<1>0. StoreEffect
  BY EraseWrite DEF Erase, Erased
<1>1. CASE Raise(p)
  BY <1>0, <1>1, RaiseEffect
<1>2. CASE ~ Raise(p)
  <2>1. /\ store' = Erased(store, batch[p])
        /\ OpenScan(p, "reindex")
        /\ pc[p] = "erase"
        /\ UNCHANGED <<op, todo, target, batch, sparse, queryVars, ledgerVars>>
    BY <1>2 DEF Erase
  <2>2. Frame(p)
    BY <2>1 DEF Frame, Goto, OpenScan, TypeOK, queryVars, ledgerVars
  <2>3. ScanEffect(p) /\ DeleteEffect(p) /\ BatchEffect(p)
    BY <2>1 DEF ScanEffect, DeleteEffect, BatchEffect, Goto, OpenScan,
                TypeOK, Scanning, ledgerVars
  <2> QED
    BY <1>0, <2>1, <2>2, <2>3, QuietEffect
<1> QED
  BY <1>1, <1>2

\* Every call of a handler has one of the effects above.
LEMMA ServeEffect ==
    ASSUME TypeOK, ControlInv, NEW p \in Procs, Serve(p)
    PROVE  Effect(p)
<1>1. CASE CollectionExists(p) \/ CreateCollection(p) \/ CreatePayloadIndex(p)
  BY <1>1, EnsureEffect
<1>2. CASE Upsert(p)
  BY <1>2, UpsertEffect
<1>3. CASE Reindex(p)
  <2>1. Frame(p)
    BY <1>3 DEF Reindex, Frame, Goto, OpenScan, TypeOK, queryVars, ledgerVars
  <2>2. ScanEffect(p) /\ BatchEffect(p)
    BY <1>3 DEF Reindex, ScanEffect, BatchEffect, Goto, OpenScan, TypeOK, Scanning
  <2>3. DeleteEffect(p)
    BY <1>3 DEF Reindex, DeleteEffect, Goto, OpenScan, TypeOK, ledgerVars, ControlInv
  <2> QED
    BY <1>3, <2>1, <2>2, <2>3, QuietEffect, NoWrite DEF Reindex
<1>4. CASE Erase(p)
  BY <1>4, EraseEffect
<1>5. CASE ReadPage(p)
  <2>1. Frame(p)
    BY <1>5 DEF ReadPage, Frame, TypeOK, queryVars, ledgerVars
  <2>2. BatchEffect(p) /\ DeleteEffect(p) /\ ScanEffect(p)
    BY <1>5 DEF ReadPage, BatchEffect, DeleteEffect, ScanEffect, ledgerVars,
                Scanning, TypeOK
  <2>3. StoreEffect /\ UNCHANGED <<sparse, queryVars, ledgerVars>>
    BY <1>5, NoWrite DEF ReadPage
  <2> QED
    BY <2>1, <2>2, <2>3, QuietEffect
<1>6. CASE FinishBoot(p) \/ FinishList(p) \/ FinishReindex(p)
  <2>1. Finish(p) /\ UNCHANGED <<collection, store, used, queryVars>>
    BY <1>6 DEF FinishBoot, FinishList, FinishReindex, LastPage
  <2>2. Frame(p)
    BY <1>6, <2>1 DEF FinishBoot, FinishList, FinishReindex, Frame, Finish, Goto,
                      TypeOK, queryVars, ledgerVars
  <2>3. ScanEffect(p) /\ BatchEffect(p)
    BY <2>1 DEF Finish, Goto, ScanEffect, BatchEffect, Scanning, TypeOK
  <2>4. IndexEffect(p)
    BY <1>6 DEF IndexEffect, FinishList, ledgerVars
  <2>5. DeleteEffect(p)
    BY <1>6, <2>1 DEF DeleteEffect, FinishBoot, FinishList, FinishReindex, Finish,
                      Goto, TypeOK, ledgerVars
  <2>6. HitsEffect(p)
    BY <2>1 DEF HitsEffect, queryVars
  <2> QED
    BY <2>1, <2>2, <2>3, <2>4, <2>5, <2>6, NoWrite DEF Effect
<1>7. CASE FindDoomed(p)
  <2>1. Frame(p)
    BY <1>7 DEF FindDoomed, LastPage, Frame, Goto, TypeOK, queryVars, ledgerVars
  <2>2. ScanEffect(p) /\ BatchEffect(p) /\ DeleteEffect(p)
    BY <1>7 DEF FindDoomed, LastPage, Goto, ScanEffect, BatchEffect, DeleteEffect,
                Scanning, TypeOK, ledgerVars
  <2>3. StoreEffect /\ UNCHANGED <<sparse, queryVars, ledgerVars>>
    BY <1>7, NoWrite DEF FindDoomed, LastPage
  <2> QED
    BY <2>1, <2>2, <2>3, QuietEffect
<1>8. CASE QueryHybrid(p)
  <2>1. PICK found \in TopK(Visible(sparse[p], caller[p])) :
          \E fused \in TopK(hits[p] \cup {c \in found : c.id \notin Ids(hits[p])}) :
            hits' = [hits EXCEPT ![p] = fused]
    BY <1>8 DEF QueryHybrid
  <2>2. HitsEffect(p)
    BY <2>1 DEF HitsEffect, TopK, Visible, TypeOK
  <2>3. Frame(p)
    BY <1>8, <2>1 DEF QueryHybrid, Frame, Finish, Goto, TypeOK, ledgerVars
  <2>4. ScanEffect(p) /\ IndexEffect(p) /\ DeleteEffect(p) /\ BatchEffect(p)
    BY <1>8 DEF QueryHybrid, ScanEffect, IndexEffect, DeleteEffect, BatchEffect,
                Finish, Goto, TypeOK, Scanning, ledgerVars
  <2> QED
    BY <1>8, <2>2, <2>3, <2>4, NoWrite DEF Effect, QueryHybrid
<1>9. CASE CallFails(p)
  BY <1>9, RaiseEffect, NoWrite DEF CallFails
<1> QED
  BY <1>1, <1>2, <1>3, <1>4, <1>5, <1>6, <1>7, <1>8, <1>9, RefusedFails
  DEF Serve, Progress

\* A process stays where its operation allows.
LEMMA ControlStep ==
    ASSUME TypeOK, ControlInv, NEW p \in Procs, Serve(p) \/ Arrive(p) \/ Crash(p)
    PROVE  ControlInv'
<1>1. CASE Start(p) \/ Ingest(p) \/ Delete(p) \/ List(p) \/ Crash(p)
  <2>1. /\ \A q \in Procs \ {p} : op'[q] = op[q] /\ pc'[q] = pc[q]
        /\ \/ op'[p] \in {"boot", "ingest"} /\ pc'[p] = "exists"
           \/ op'[p] \in {"delete", "list"} /\ pc'[p] = "scan"
           \/ op'[p] = "none" /\ pc'[p] = "down"
    BY <1>1 DEF Start, Ingest, Delete, List, Crash, Begin, Goto, TypeOK
  <2>2. /\ \A q \in Procs \ {p} : acked'[q] = acked[q]
        /\ op'[p] = "boot" => acked'[p] = {}
    BY <1>1 DEF Start, Ingest, Delete, List, Crash, Begin, TypeOK, ledgerVars
  <2> QED
    BY <2>1, <2>2 DEF ControlInv
<1>2. CASE QueryDense(p) \/ QueryHybrid(p)
  <2>1. /\ \A q \in Procs \ {p} : op'[q] = op[q] /\ pc'[q] = pc[q]
        /\ \/ op'[p] = "query" /\ pc'[p] = "fuse"
           \/ op'[p] = "none" /\ pc'[p] \in {"idle", "down"}
    BY <1>2 DEF QueryDense, QueryHybrid, Finish, Goto, TypeOK
  <2>2. acked' = acked
    BY <1>2 DEF QueryDense, QueryHybrid, ledgerVars
  <2> QED
    BY <2>1, <2>2 DEF ControlInv
<1>3. CASE CollectionExists(p) \/ CreateCollection(p) \/ CreatePayloadIndex(p)
  <2>1. CASE Raise(p)
    BY <2>1 DEF Raise, Finish, Goto, ControlInv, TypeOK, ledgerVars
  <2>2. CASE ~ Raise(p)
    BY <1>3, <2>2 DEF CollectionExists, CreateCollection, CreatePayloadIndex,
        AfterEnsure, OpenScan, Goto, ControlInv, TypeOK, requestVars, ledgerVars
  <2> QED
    BY <2>1, <2>2
<1>4. CASE Upsert(p) \/ Reindex(p) \/ Erase(p) \/ CallFails(p)
  <2>1. CASE Raise(p)
    BY <2>1 DEF Raise, Finish, Goto, ControlInv, TypeOK, ledgerVars
  <2>2. CASE ~ Raise(p)
    BY <1>4, <2>2 DEF Upsert, Reindex, Erase, CallFails, OpenScan, Goto,
        ControlInv, TypeOK, ledgerVars
  <2> QED
    BY <2>1, <2>2
<1>5. CASE ReadPage(p) \/ FindDoomed(p)
  BY <1>5 DEF ReadPage, FindDoomed, Goto, ControlInv, TypeOK, ledgerVars
<1>6. CASE FinishBoot(p) \/ FinishList(p) \/ FinishReindex(p)
  <2>1. Finish(p) /\ \A q \in Procs \ {p} : acked'[q] = acked[q]
    BY <1>6 DEF FinishBoot, FinishList, FinishReindex, ledgerVars, TypeOK
  <2>2. /\ op'[p] = "none" /\ pc'[p] \in {"down", "idle"}
        /\ \A q \in Procs \ {p} : op'[q] = op[q] /\ pc'[q] = pc[q]
    BY <2>1 DEF Finish, Goto, TypeOK
  <2> QED
    BY <2>1, <2>2 DEF ControlInv
<1> QED
  BY <1>1, <1>2, <1>3, <1>4, <1>5, <1>6, RefusedFails DEF Serve, Progress, Arrive

-----------------------------------------------------------------------------
(* The inductive invariant.                                                *)

\* Every copy of a chunk there is, apart from the pages of open scans.
Known == store \cup UNION {sparse[p] \cup hits[p] \cup may[p] : p \in Procs}

\* must and may bracket the store while a scan (or the delete it is for) is
\* under way.
HistoryInv ==
    \A p \in Procs :
        /\ pc[p] \in Watching => must[p] \subseteq store /\ store \subseteq may[p]
        /\ pc[p] \notin Watching => must[p] = {} /\ may[p] = {}

\* Ids in circulation have been drawn, so a fresh id is new to everybody.
UsedInv ==
    /\ Ids(Known) \subseteq used
    /\ \A p \in Procs : acked[p] \cup purged[p] \cup batch[p] \subseteq used

\* An id names one chunk, wherever copies of it are.
OneChunkPerId == \A c, d \in Known : c.id = d.id => c = d

\* What a process confirmed, or is about to, and is stored, has been stored
\* throughout its scan.
ConfirmedStays ==
    \A p \in Procs : pc[p] \in Scanning =>
        \A c \in store : c.id \in acked[p] \cup batch[p] => c \in must[p]

\* The delete found all there was of the document.
DoomedInv ==
    \A p \in Procs : pc[p] = "erase" =>
        \A c \in must[p] : c.doc \in target[p] => c.id \in batch[p]

\* What a process deleted was not in the store at any point of its scan.
ErasedInv ==
    \A p \in Procs :
        /\ purged[p] \cap Ids(may[p]) = {}
        /\ pc[p] = "reindex" /\ op[p] = "delete" => batch[p] \cap Ids(may[p]) = {}

IInv ==
    /\ TypeOK
    /\ ControlInv
    /\ HistoryInv
    /\ UsedInv
    /\ OneChunkPerId
    /\ ScanRegular
    /\ ConfirmedStays
    /\ DoomedInv
    /\ ErasedInv
    /\ ConfirmedIngestIndexed
    /\ ConfirmedDeleteFinal

\* The list a scan delivers is a regular read of the store.
LEMMA ScanIsRegular ==
    ASSUME IInv, NEW p \in Procs, LastPage(p)
    PROVE  must[p] \subseteq ScannedBy(p) /\ ScannedBy(p) \subseteq may[p]
<1>0. pc[p] \in Scanning /\ pc[p] \in Watching /\ Beyond(store, offset[p]) = {}
  BY DEF LastPage, Watching
<1>1. must[p] \subseteq store /\ store \subseteq may[p] /\ acc[p] \subseteq may[p]
  BY <1>0 DEF IInv, HistoryInv, ScanRegular
<1>2. ScannedBy(p) \subseteq may[p]
  BY <1>1, PageSubset DEF ScannedBy
<1>3. ASSUME NEW c \in must[p]
      PROVE  c \in ScannedBy(p)
  <2>1. c.id \in Nat /\ offset[p] \in Nat
    BY <1>3, ChunkIdNat DEF IInv, TypeOK
  <2>2. CASE c.id < offset[p]
    BY <1>0, <1>3, <2>2 DEF IInv, ScanRegular, ScannedBy
  <2>3. CASE offset[p] <= c.id
    <3>1. c \in Remaining(store, offset[p])
      BY <1>1, <1>3, <2>3 DEF Remaining
    <3> QED
      BY <1>0, <3>1 DEF Beyond, ScannedBy
  <2> QED
    BY <2>1, <2>2, <2>3
<1> QED
  BY <1>2, <1>3

\* The store stays between the histories of every open read.
LEMMA HistoryStep ==
    ASSUME IInv, NEW p \in Procs, Effect(p), Observe
    PROVE  HistoryInv'
BY DEF HistoryInv, Observe, Opens, Watching, IInv

\* Copies hold nothing that was not known or is not new.
LEMMA KnownStep ==
    ASSUME IInv, NEW p \in Procs, Effect(p), Observe, TypeOK',
           NEW new, store' \subseteq store \cup new
    PROVE  Known' \subseteq Known \cup new
<1>1. \A q \in Procs : may'[q] \subseteq may[q] \cup store'
  BY DEF Observe
<1>2. \A q \in Procs : sparse'[q] \subseteq sparse[q] \cup may[q]
  <2>1. FinishBoot(p) \/ FinishReindex(p) => sparse'[p] \subseteq may[p]
    BY ScanIsRegular DEF FinishBoot, FinishReindex, IInv, TypeOK
  <2> QED
    BY <2>1 DEF Effect, Frame, IndexEffect
<1>3. \A q \in Procs : hits'[q] \subseteq hits[q] \cup store \cup sparse[q]
  BY DEF Effect, Frame, HitsEffect
<1> QED
  BY <1>1, <1>2, <1>3 DEF Known

\* Ids in copies were drawn, and name one chunk everywhere.
LEMMA IdentityStep ==
    ASSUME IInv, NEW p \in Procs, Effect(p), Observe, TypeOK'
    PROVE  UsedInv' /\ OneChunkPerId'
<1>1. PICK new \in SUBSET Chunk :
        /\ store' \subseteq store \cup new
        /\ used' = used \cup Ids(new)
        /\ Ids(new) \cap used = {}
        /\ \A c, d \in new : c.id = d.id => c = d
  BY DEF Effect, StoreEffect
<1>2. Known' \subseteq Known \cup new
  BY <1>1, KnownStep
<1>3. Ids(Known) \subseteq used
  BY DEF IInv, UsedInv
<1>4. Ids(Known')  \subseteq used'
  BY <1>1, <1>2, <1>3 DEF Ids
<1>5. OneChunkPerId'
  <2>1. ASSUME NEW c \in Known', NEW d \in Known', c.id = d.id
        PROVE  c = d
    <3>1. CASE c \in Known /\ d \in Known
      BY <2>1, <3>1 DEF IInv, OneChunkPerId
    <3>2. CASE c \in new /\ d \in new
      BY <1>1, <2>1, <3>2
    <3>3. CASE (c \in Known /\ d \in new) \/ (c \in new /\ d \in Known)
      BY <1>1, <1>3, <2>1, <3>3 DEF Ids
    <3> QED
      BY <1>2, <3>1, <3>2, <3>3
  <2> QED
    BY <2>1 DEF OneChunkPerId
<1>6. ASSUME NEW q \in Procs
      PROVE  acked'[q] \cup purged'[q] \cup batch'[q] \subseteq used'
  <2>1. acked[q] \cup purged[q] \cup batch[q] \subseteq used'
    BY <1>1 DEF IInv, UsedInv
  <2>2. CASE q # p
    BY <2>1, <2>2 DEF Effect, Frame
  <2>3. CASE q = p
    <3>1. acked'[p] \subseteq acked[p] \cup batch[p]
      <4>1. FinishBoot(p) => acked' = acked
        BY DEF FinishBoot, ledgerVars
      <4>2. FinishReindex(p) => acked'[p] \subseteq acked[p] \cup batch[p]
        BY DEF FinishReindex, IInv, TypeOK
      <4> QED
        BY <4>1, <4>2 DEF Effect, IndexEffect
    <3>2. purged'[p] \subseteq purged[p] \cup batch[p]
      BY DEF Effect, DeleteEffect, FinishReindex, IInv, TypeOK
    <3>3. batch'[p] \subseteq batch[p] \cup used'
      <4>1. CASE FindDoomed(p)
        <5>1. ScannedBy(p) \subseteq Known
          BY <4>1, ScanIsRegular DEF FindDoomed, Known
        <5>2. batch'[p] \subseteq Ids(ScannedBy(p))
          BY <4>1 DEF FindDoomed, Ids, IInv, TypeOK
        <5> QED
          BY <1>1, <1>3, <5>1, <5>2 DEF Ids
      <4>2. CASE ~ FindDoomed(p)
        BY <4>2 DEF Effect, BatchEffect
      <4> QED
        BY <4>1, <4>2
    <3> QED
      BY <2>1, <2>3, <3>1, <3>2, <3>3
  <2> QED
    BY <2>2, <2>3
<1> QED
  BY <1>4, <1>5, <1>6 DEF UsedInv

\* Every open scan stays regular.
LEMMA ScanStep ==
    ASSUME IInv, NEW p \in Procs, Effect(p), Observe, TypeOK'
    PROVE  ScanRegular'
<1> SUFFICES ASSUME NEW q \in Procs, pc'[q] \in Scanning
             PROVE  /\ acc'[q] \subseteq may'[q]
                    /\ \A c \in must'[q] : c.id < offset'[q] => c \in acc'[q]
  BY DEF ScanRegular
<1>1. CASE q # p
  <2>1. pc'[q] = pc[q] /\ acc'[q] = acc[q] /\ offset'[q] = offset[q]
    BY <1>1 DEF Effect, Frame
  <2>2. must'[q] \subseteq must[q] /\ may[q] \subseteq may'[q]
    BY <2>1 DEF Observe, Opens, Watching
  <2> QED
    BY <2>1, <2>2 DEF IInv, ScanRegular
<1>2. CASE q = p /\ pc'[p] # pc[p]
  <2>1. acc'[p] = {} /\ offset'[p] = 0
    BY <1>2 DEF Effect, ScanEffect
  <2>2. \A c \in must'[p] : c.id \in Nat
    BY ChunkIdNat DEF TypeOK
  <2> QED
    BY <1>2, <2>1, <2>2
<1>3. CASE q = p /\ ReadPage(p)
  <2>1. PICK next \in Ids(Beyond(store, offset[p])) :
          /\ \A i \in Ids(Beyond(store, offset[p])) : next <= i
          /\ offset' = [offset EXCEPT ![p] = next]
    BY <1>3 DEF ReadPage
  <2>2. /\ acc'[p] = acc[p] \cup Page(store, offset[p])
        /\ offset'[p] = next
        /\ store' = store /\ pc'[p] = pc[p]
    BY <1>3, <2>1 DEF ReadPage, IInv, TypeOK
  <2>3. must'[p] \subseteq must[p] /\ may'[p] = may[p] \cup store
    BY <1>3, <2>2 DEF Observe, Opens, Watching
  <2>4. acc[p] \subseteq may[p] /\ must[p] \subseteq store
    BY <1>3, <2>2 DEF IInv, ScanRegular, HistoryInv, Watching
  <2>5. acc'[p] \subseteq may'[p]
    BY <2>2, <2>3, <2>4, PageSubset
  <2>6. ASSUME NEW c \in must[p], c.id < next
        PROVE  c \in acc'[p]
    <3>1. c.id \in Nat /\ offset[p] \in Nat
      BY ChunkIdNat DEF IInv, TypeOK
    <3>2. CASE c.id < offset[p]
      BY <1>3, <2>2, <3>2 DEF IInv, ScanRegular
    <3>3. CASE offset[p] <= c.id
      <4>1. c \in Remaining(store, offset[p])
        BY <2>4, <3>3 DEF Remaining
      <4>2. next \in Nat
        BY <2>2 DEF TypeOK
      <4>3. c \notin Beyond(store, offset[p])
        BY <2>1, <2>6, <3>1, <4>2 DEF Ids
      <4> QED
        BY <2>2, <4>1, <4>3 DEF Beyond
    <3> QED
      BY <3>1, <3>2, <3>3
  <2> QED
    BY <1>3, <2>2, <2>3, <2>5, <2>6
<1> QED
  BY <1>1, <1>2, <1>3 DEF Effect, ScanEffect

\* What one step may leave in the bracket of a scan that stays open.
LEMMA BracketStep ==
    ASSUME IInv, NEW p \in Procs, Effect(p), Observe, NEW q \in Procs,
           pc'[q] \in Scanning
    PROVE  \/ must'[q] = store' /\ may'[q] = store' /\ pc'[q] # pc[q] /\ q = p
           \/ must'[q] = must[q] \cap store' /\ may'[q] = may[q] \cup store'
              /\ pc'[q] = pc[q]
BY DEF Observe, Opens, Watching, Effect, Frame

\* What is confirmed and still stored has been stored throughout the scan.
LEMMA ConfirmedStep ==
    ASSUME IInv, NEW p \in Procs, Effect(p), Observe, TypeOK'
    PROVE  ConfirmedStays'
<1> SUFFICES ASSUME NEW q \in Procs, pc'[q] \in Scanning, NEW c \in store',
                    c.id \in acked'[q] \cup batch'[q]
             PROVE  c \in must'[q]
  BY DEF ConfirmedStays
<1>1. CASE must'[q] = store'
  BY <1>1
<1>2. CASE must'[q] = must[q] \cap store' /\ pc'[q] = pc[q]
  <2>1. acked'[q] \subseteq acked[q] /\ batch'[q] = batch[q]
    <3>1. CASE q # p
      BY <3>1 DEF Effect, Frame
    <3>2. CASE q = p
      <4>1. ReadPage(p)
        BY <1>2, <3>2 DEF Effect, ScanEffect
      <4> QED
        BY <3>2, <4>1 DEF ReadPage, ledgerVars
    <3> QED
      BY <3>1, <3>2
  <2>2. c.id \in used
    BY <2>1 DEF IInv, UsedInv
  <2>3. c \in store
    BY <2>2 DEF Effect, StoreEffect, Ids
  <2> QED
    BY <1>2, <2>1, <2>3 DEF IInv, ConfirmedStays
<1> QED
  BY <1>1, <1>2, BracketStep

\* The ids to delete include what of the document stayed stored.
LEMMA DoomedStep ==
    ASSUME IInv, NEW p \in Procs, Effect(p), Observe, TypeOK'
    PROVE  DoomedInv'
<1> SUFFICES ASSUME NEW q \in Procs, pc'[q] = "erase", NEW c \in must'[q],
                    c.doc \in target'[q]
             PROVE  c.id \in batch'[q]
  BY DEF DoomedInv
<1>0. must'[q] \subseteq must[q]
  BY DEF Observe, Opens, Watching, Scanning
<1>1. CASE q # p
  BY <1>0, <1>1 DEF Effect, Frame, IInv, DoomedInv
<1>2. CASE q = p
  <2>1. FindDoomed(p)
    BY <1>2 DEF Effect, DeleteEffect
  <2>2. c \in ScannedBy(p)
    BY <1>0, <1>2, <2>1, ScanIsRegular DEF FindDoomed
  <2>3. batch'[p] = Ids({e \in ScannedBy(p) : e.doc \in target[p]}) /\ target' = target
    BY <2>1 DEF FindDoomed, IInv, TypeOK
  <2> QED
    BY <1>2, <2>2, <2>3 DEF Ids
<1> QED
  BY <1>1, <1>2

\* A process's ledger of deletions grows when it confirms one.
LEMMA PurgedStep ==
    ASSUME IInv, NEW p \in Procs, Effect(p), NEW q \in Procs
    PROVE  \/ purged'[q] = purged[q]
           \/ q = p /\ FinishReindex(p) /\ op[p] = "delete"
              /\ purged'[p] = purged[p] \cup batch[p]
<1>1. CASE q # p
  BY <1>1 DEF Effect, Frame
<1>2. CASE q = p /\ FinishReindex(p) /\ op[p] = "delete"
  BY <1>2 DEF FinishReindex, IInv, TypeOK
<1>3. CASE q = p /\ ~ (FinishReindex(p) /\ op[p] = "delete")
  BY <1>3 DEF Effect, DeleteEffect
<1> QED
  BY <1>1, <1>2, <1>3

\* Deleted ids stay out of every copy to come.
LEMMA ErasedStep ==
    ASSUME IInv, NEW p \in Procs, Effect(p), Observe, TypeOK'
    PROVE  ErasedInv' /\ ConfirmedDeleteFinal'
<1>1. ASSUME NEW q \in Procs, NEW ids \in SUBSET used, ids \cap Ids(store) = {}
      PROVE  ids \cap Ids(store') = {}
  BY <1>1 DEF Effect, StoreEffect, Ids
<1>2. ASSUME NEW q \in Procs
      PROVE  purged'[q] \cap Ids(store') = {} /\ purged'[q] \cap Ids(may'[q]) = {}
  <2>1. CASE purged'[q] = purged[q]
    <3>1. purged[q] \in SUBSET used /\ purged[q] \cap Ids(store) = {}
          /\ purged[q] \cap Ids(may[q]) = {}
      BY DEF IInv, UsedInv, ConfirmedDeleteFinal, ErasedInv
    <3>2. purged[q] \cap Ids(store') = {}
      BY <1>1, <3>1
    <3>3. may'[q] \subseteq may[q] \cup store'
      BY DEF Observe
    <3> QED
      BY <2>1, <3>1, <3>2, <3>3 DEF Ids
  <2>2. CASE q = p /\ FinishReindex(p) /\ op[p] = "delete"
             /\ purged'[p] = purged[p] \cup batch[p]
    <3>1. pc[p] = "reindex" /\ store' = store /\ pc'[p] \in {"idle", "down"}
      BY <2>2 DEF FinishReindex, LastPage, Finish, Goto, IInv, TypeOK
    <3>2. purged[p] \cap Ids(may[p]) = {} /\ batch[p] \cap Ids(may[p]) = {}
      BY <2>2, <3>1 DEF IInv, ErasedInv
    <3>3. store \subseteq may[p]
      BY <3>1 DEF IInv, HistoryInv, Watching, Scanning
    <3>4. may'[p] = {}
      BY <3>1 DEF Observe, Opens, Watching, Scanning
    <3> QED
      BY <2>2, <3>1, <3>2, <3>3, <3>4 DEF Ids
  <2> QED
    BY <2>1, <2>2, PurgedStep
<1>3. ASSUME NEW q \in Procs, pc'[q] = "reindex", op'[q] = "delete"
      PROVE  batch'[q] \cap Ids(may'[q]) = {}
  <2>0. batch[q] \in SUBSET used
    BY DEF IInv, UsedInv
  <2>1. CASE pc'[q] = pc[q] /\ may'[q] = may[q] \cup store'
             /\ op[q] = "delete" /\ batch'[q] = batch[q]
    <3>1. batch[q] \cap Ids(may[q]) = {}
      BY <1>3, <2>1 DEF IInv, ErasedInv
    <3>2. batch[q] \cap Ids(store) = {}
      BY <1>3, <2>1, <3>1 DEF IInv, HistoryInv, Watching, Scanning, Ids
    <3>3. batch[q] \cap Ids(store') = {}
      BY <1>1, <2>0, <3>2
    <3> QED
      BY <2>1, <3>1, <3>3 DEF Ids
  <2>2. CASE may'[q] = store' /\ batch'[q] = batch[q] /\ store' = Erased(store, batch[q])
    BY <2>2 DEF Erased, Ids
  <2>3. CASE q # p
    BY <1>3, <2>1, <2>3, BracketStep DEF Effect, Frame, Scanning
  <2>4. CASE q = p /\ ReadPage(p)
    <3>1. pc'[q] = pc[q] /\ op[q] = "delete" /\ batch'[q] = batch[q]
      BY <1>3, <2>4 DEF ReadPage
    <3> QED
      BY <1>3, <2>1, <3>1, BracketStep DEF Scanning
  <2>5. CASE q = p /\ ~ ReadPage(p)
    <3>1. pc[p] = "erase" /\ batch'[p] = batch[p] /\ store' = Erased(store, batch[p])
      BY <1>3, <2>5 DEF Effect, DeleteEffect
    <3>2. may'[q] = store'
      BY <1>3, <2>5, <3>1, BracketStep DEF Scanning
    <3> QED
      BY <2>2, <2>5, <3>1, <3>2
  <2> QED
    BY <2>3, <2>4, <2>5
<1>4. ASSUME NEW q \in Procs
      PROVE  purged'[q] \cap Ids(sparse'[q]) = {}
  <2>1. CASE purged'[q] = purged[q]
    <3>1. sparse'[q] \subseteq sparse[q] \cup may[q]
      <4>1. FinishBoot(p) \/ FinishReindex(p) => sparse'[p] \subseteq may[p]
        BY ScanIsRegular DEF FinishBoot, FinishReindex, IInv, TypeOK
      <4> QED
        BY <4>1 DEF Effect, Frame, IndexEffect
    <3>2. purged[q] \cap Ids(may[q]) = {} /\ purged[q] \cap Ids(sparse[q]) = {}
      BY DEF IInv, ErasedInv, ConfirmedDeleteFinal, Ids
    <3> QED
      BY <2>1, <3>1, <3>2 DEF Ids
  <2>2. CASE q = p /\ FinishReindex(p) /\ op[p] = "delete"
             /\ purged'[p] = purged[p] \cup batch[p]
    <3>1. sparse'[p] \subseteq may[p] /\ pc[p] = "reindex"
      BY <2>2, ScanIsRegular DEF FinishReindex, IInv, TypeOK
    <3>2. purged[p] \cap Ids(may[p]) = {} /\ batch[p] \cap Ids(may[p]) = {}
      BY <2>2, <3>1 DEF IInv, ErasedInv
    <3> QED
      BY <2>2, <3>1, <3>2 DEF Ids
  <2> QED
    BY <2>1, <2>2, PurgedStep
<1>5. ErasedInv'
  BY <1>2, <1>3 DEF ErasedInv
<1>6. ConfirmedDeleteFinal'
  BY <1>2, <1>4 DEF ConfirmedDeleteFinal, Ids
<1> QED
  BY <1>5, <1>6

\* What is confirmed and still stored is in the index.
LEMMA IngestStep ==
    ASSUME IInv, NEW p \in Procs, Effect(p), Observe, TypeOK'
    PROVE  ConfirmedIngestIndexed'
<1> SUFFICES ASSUME NEW q \in Procs, NEW c \in store', c.id \in acked'[q]
             PROVE  c.id \in Ids(sparse'[q])
  BY DEF ConfirmedIngestIndexed, Ids
<1>1. ASSUME c.id \in acked[q], sparse'[q] = sparse[q]
      PROVE  c.id \in Ids(sparse'[q])
  <2>1. c.id \in used
    BY <1>1 DEF IInv, UsedInv
  <2>2. c \in store
    BY <2>1 DEF Effect, StoreEffect, Ids
  <2> QED
    BY <1>1, <2>2 DEF IInv, ConfirmedIngestIndexed, Ids
<1>2. ASSUME LastPage(p), c.id \in acked[p] \cup batch[p], sparse'[p] = ScannedBy(p)
      PROVE  c.id \in Ids(sparse'[p])
  <2>1. c \in store /\ pc[p] \in Scanning
    BY <1>2 DEF LastPage
  <2>2. c \in must[p]
    BY <1>2, <2>1 DEF IInv, ConfirmedStays
  <2> QED
    BY <1>2, <2>2, ScanIsRegular DEF Ids
<1>3. CASE q # p \/ (sparse'[p] = sparse[p] /\ acked'[p] = acked[p])
  BY <1>1, <1>3 DEF Effect, Frame
<1>4. CASE q = p /\ FinishBoot(p)
  <2>1. LastPage(p) /\ sparse'[p] = ScannedBy(p) /\ acked' = acked
    BY <1>4 DEF FinishBoot, ledgerVars, IInv, TypeOK
  <2> QED
    BY <1>2, <1>4, <2>1
<1>5. CASE q = p /\ FinishReindex(p)
  <2>1. LastPage(p) /\ sparse'[p] = ScannedBy(p)
        /\ acked'[p] \subseteq acked[p] \cup batch[p]
    BY <1>5 DEF FinishReindex, IInv, TypeOK
  <2> QED
    BY <1>2, <1>5, <2>1
<1>6. CASE q = p /\ acked'[p] = {}
  BY <1>6
<1> QED
  BY <1>3, <1>4, <1>5, <1>6 DEF Effect, IndexEffect

\* The invariant is inductive.
LEMMA InvariantHolds == Spec => []IInv
<1>1. Init => IInv
  <2> SUFFICES ASSUME Init PROVE IInv
    OBVIOUS
  <2>1. TypeOK
    BY DEF Init, TypeOK, States, Callers
  <2>2. Known = {}
    BY DEF Init, Known
  <2>3. UsedInv /\ OneChunkPerId
    BY <2>2 DEF Init, UsedInv, OneChunkPerId, Ids
  <2> QED
    BY <2>1, <2>3 DEF Init, IInv, ControlInv, HistoryInv, ScanRegular,
        ConfirmedStays, DoomedInv, ErasedInv, ConfirmedIngestIndexed,
        ConfirmedDeleteFinal, Watching, Scanning
<1>2. IInv /\ TypeOK' /\ [Next]_vars => IInv'
  <2> SUFFICES ASSUME IInv, TypeOK', [Next]_vars PROVE IInv'
    OBVIOUS
  <2>1. CASE UNCHANGED vars
    BY <2>1 DEF vars, IInv, ControlInv, HistoryInv, UsedInv, Known, OneChunkPerId,
        ScanRegular, ConfirmedStays, DoomedInv, ErasedInv, ConfirmedIngestIndexed,
        ConfirmedDeleteFinal
  <2>2. CASE Next
    <3>1. Observe
      BY <2>2 DEF Next
    <3>2. PICK p \in Procs : Serve(p) \/ Arrive(p) \/ Crash(p)
      BY <2>2 DEF Next
    <3>3. Effect(p)
      BY <3>2, ServeEffect, ArriveEffect DEF IInv
    <3>4. ControlInv'
      BY <3>2, ControlStep DEF IInv
    <3> QED
      BY <3>1, <3>3, <3>4, HistoryStep, IdentityStep, ScanStep, ConfirmedStep,
         DoomedStep, ErasedStep, IngestStep DEF IInv
  <2> QED
    BY <2>1, <2>2
<1> QED
  BY <1>1, <1>2, TypeCorrect, PTL DEF Spec

\* Paged scans lose nothing that stays and invent nothing.
THEOREM ScansAreRegular == Spec => []ScanRegular
<1>1. IInv => ScanRegular
  BY DEF IInv
<1> QED
  BY <1>1, InvariantHolds, PTL

\* A confirmed ingest stays in the index of the process that confirmed it.
THEOREM IngestIndexed == Spec => []ConfirmedIngestIndexed
<1>1. IInv => ConfirmedIngestIndexed
  BY DEF IInv
<1> QED
  BY <1>1, InvariantHolds, PTL

\* A confirmed delete is final.
THEOREM DeleteFinal == Spec => []ConfirmedDeleteFinal
<1>1. IInv => ConfirmedDeleteFinal
  BY DEF IInv
<1> QED
  BY <1>1, InvariantHolds, PTL

\* Copies of a chunk in any index or query result equal the stored one.
THEOREM CopiesNeverDiverge == Spec => []CopiesAgree
<1>1. IInv => CopiesAgree
  BY DEF IInv, OneChunkPerId, CopiesAgree, Known
<1> QED
  BY <1>1, InvariantHolds, PTL

-----------------------------------------------------------------------------
(* Deletion, queries and the abstract index.                               *)

\* A successful DELETE leaves nothing of what it set out to remove.
THEOREM DeleteIsComplete == Spec => DeleteTakesAll
<1>1. IInv /\ [Next]_vars =>
        [\A p \in Procs : pc[p] = "erase" /\ pc'[p] = "reindex" =>
            \A c \in must[p] : c.doc \in target[p] => c \notin store']_vars
  <2> SUFFICES ASSUME IInv, Next, NEW q \in Procs,
                      pc[q] = "erase", pc'[q] = "reindex",
                      NEW c \in must[q], c.doc \in target[q]
               PROVE  c \notin store'
    BY DEF vars
  <2>1. PICK p \in Procs : Serve(p) \/ Arrive(p) \/ Crash(p)
    BY DEF Next
  <2>2. Effect(p) /\ ControlInv'
    BY <2>1, ServeEffect, ArriveEffect, ControlStep DEF IInv
  <2>3. q = p
    BY <2>2 DEF Effect, Frame
  <2>4. op[p] = "delete" /\ c.id \in batch[p]
    BY <2>3 DEF IInv, ControlInv, DoomedInv
  <2>5. ~ Arrive(p) /\ ~ Crash(p)
    BY <2>3 DEF Arrive, Crash, Start, Ingest, Delete, List, QueryDense, Begin,
                Goto, IInv, TypeOK
  <2>6. Erase(p) \/ CallFails(p)
    BY <2>1, <2>3, <2>5 DEF Serve, Progress, Refused, CollectionExists, CreateCollection,
        CreatePayloadIndex, Upsert, Reindex, ReadPage, FinishBoot, FinishList,
        FindDoomed, FinishReindex, QueryHybrid, LastPage, Scanning
  <2>7. ~ Raise(p)
    BY <2>3 DEF Raise, Finish, Goto, IInv, TypeOK
  <2>8. store' = Erased(store, batch[p])
    BY <2>6, <2>7 DEF Erase, CallFails
  <2> QED
    BY <2>4, <2>8 DEF Erased
<1> QED
  BY <1>1, InvariantHolds, PTL DEF Spec, DeleteTakesAll

\* What a process last retrieved, its caller may see.
HitsAllowed ==
    \A p \in Procs : \A c \in hits[p] : AclAllows(c.acl, caller[p])

\* No ACL keeps anything from an unrestricted caller.
LEMMA AdminSeesAll == \A S : AclAllows(S, Admin)
BY DEF AclAllows, Admin

\* No step shows a caller what the chunk's ACL withholds.
LEMMA HitsStep ==
    ASSUME IInv, HitsAllowed, NEW p \in Procs,
           Serve(p) \/ Arrive(p) \/ Crash(p), Effect(p)
    PROVE  HitsAllowed'
<1> SUFFICES ASSUME NEW q \in Procs, NEW c \in hits'[q]
             PROVE  AclAllows(c.acl, caller'[q])
  BY DEF HitsAllowed
<1>1. CASE q # p
  BY <1>1 DEF HitsAllowed, Effect, Frame
<1>2. CASE q = p /\ hits' = hits /\ caller' = caller
  BY <1>2 DEF HitsAllowed
<1>3. CASE q = p /\ hits'[p] = {}
  BY <1>3
<1>4. CASE q = p /\ QueryDense(p)
  <2>1. PICK who \in Users : \E found \in TopK(Visible(store, who)) :
            /\ caller' = [caller EXCEPT ![p] = who]
            /\ hits' = [hits EXCEPT ![p] = found]
    BY <1>4 DEF QueryDense
  <2>2. hits'[p] \subseteq Visible(store, who) /\ caller'[p] = who
    BY <2>1 DEF TopK, IInv, TypeOK
  <2> QED
    BY <1>4, <2>2 DEF Visible
<1>5. CASE q = p /\ QueryHybrid(p)
  <2>1. PICK found \in TopK(Visible(sparse[p], caller[p])) :
          \E fused \in TopK(hits[p] \cup {e \in found : e.id \notin Ids(hits[p])}) :
            hits' = [hits EXCEPT ![p] = fused]
    BY <1>5 DEF QueryHybrid
  <2>2. hits'[p] \subseteq hits[p] \cup Visible(sparse[p], caller[p])
    BY <2>1 DEF TopK, IInv, TypeOK
  <2>3. caller' = caller
    BY <1>5 DEF QueryHybrid
  <2> QED
    BY <1>5, <2>2, <2>3 DEF Visible, HitsAllowed
<1>6. CASE Start(p) \/ Ingest(p) \/ Delete(p) \/ List(p) \/ Crash(p)
  <2>1. hits'[p] = {}
    BY <1>6 DEF Start, Ingest, Delete, List, Crash, Begin, IInv, TypeOK
  <2> QED
    BY <1>1, <1>3, <2>1
<1>7. CASE Serve(p) /\ ~ QueryHybrid(p)
  <2>1. hits' = hits /\ caller' = caller
    BY <1>7 DEF Serve, Progress, Refused, CollectionExists, CreateCollection, CreatePayloadIndex,
        Upsert, Reindex, Erase, ReadPage, FinishBoot, FinishList, FindDoomed,
        FinishReindex, CallFails, LastPage, Raise, queryVars
  <2> QED
    BY <1>1, <1>2, <2>1
<1> QED
  BY <1>1, <1>4, <1>5, <1>6, <1>7 DEF Arrive

\* A query returns nothing its caller may not see, however stale the index.
THEOREM Confinement == Spec => []QueriesConfined
<1>1. Init => HitsAllowed
  BY DEF Init, HitsAllowed
<1>2. IInv /\ HitsAllowed /\ [Next]_vars => HitsAllowed'
  <2> SUFFICES ASSUME IInv, HitsAllowed, [Next]_vars PROVE HitsAllowed'
    OBVIOUS
  <2>1. CASE UNCHANGED vars
    BY <2>1 DEF vars, HitsAllowed
  <2>2. CASE Next
    <3>1. PICK p \in Procs : Serve(p) \/ Arrive(p) \/ Crash(p)
      BY <2>2 DEF Next
    <3> QED
      BY <3>1, HitsStep, ServeEffect, ArriveEffect DEF IInv
  <2> QED
    BY <2>1, <2>2
<1>3. IInv /\ HitsAllowed => QueriesConfined
  <2> SUFFICES ASSUME IInv, HitsAllowed, NEW p \in Procs, NEW c \in hits[p],
                      NEW d \in store, c.id = d.id
               PROVE  AclAllows(d.acl, caller[p])
    BY DEF QueriesConfined, HitsAllowed
  <2>1. c = d
    BY DEF IInv, OneChunkPerId, Known
  <2> QED
    BY <2>1 DEF HitsAllowed
<1> QED
  BY <1>1, <1>2, <1>3, InvariantHolds, PTL DEF Spec

\* The index of every process implements RegularIndex: whatever the paging,
\* it is empty or one regular read of the shared store.
THEOREM ImplementsRegularIndex == Spec => IndexIsRegular
<1>1. Init => Index!Init
  BY DEF Init, Index!Init
<1>2. IInv /\ TypeOK' /\ [Next]_vars => [Index!Next]_(Index!vars)
  <2> SUFFICES ASSUME IInv, TypeOK', Next
               PROVE  Index!Next
    BY DEF vars, Index!vars
  <2>1. PICK p \in Procs : Serve(p) \/ Arrive(p) \/ Crash(p)
    BY DEF Next
  <2>2. Effect(p) /\ Observe
    BY <2>1, ServeEffect, ArriveEffect DEF IInv, Next
  <2>3. store' \subseteq Chunk
    BY DEF TypeOK
  <2>4. ASSUME NEW q \in Procs
        PROVE  Index!Reading(q)
    BY <2>2 DEF Index!Reading, Observe
  <2>5. ASSUME NEW q \in Procs
        PROVE  sparse'[q] = sparse[q] \/ Index!Publish(q) \/ Index!Forget(q)
    <3>1. CASE q = p /\ (FinishBoot(p) \/ FinishReindex(p))
      <4>1. LastPage(p) /\ sparse'[p] = ScannedBy(p) /\ store' = store
        BY <3>1 DEF FinishBoot, FinishReindex, LastPage, IInv, TypeOK
      <4> QED
        BY <3>1, <4>1, ScanIsRegular DEF Index!Publish
    <3>2. CASE q = p /\ ~ (FinishBoot(p) \/ FinishReindex(p))
      BY <2>2, <3>2 DEF Effect, IndexEffect, Index!Forget
    <3>3. CASE q # p
      BY <2>2, <3>3 DEF Effect, Frame
    <3> QED
      BY <3>1, <3>2, <3>3
  <2> QED
    BY <2>3, <2>4, <2>5 DEF Index!Next
<1> QED
  BY <1>1, <1>2, InvariantHolds, TypeCorrect, PTL DEF Spec, IndexIsRegular, Index!Spec
=============================================================================
