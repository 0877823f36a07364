------------------------------ MODULE Metrics ------------------------------
(***************************************************************************)
(* utils/metrics.py: the registry behind GET /v1/metrics, "thread-safe" by *)
(* a lock held for one counter at a time.  record_request takes the lock   *)
(* twice and observe_latency a third time, so others see a request half    *)
(* recorded.  Each request and each reader is a thread; inside the lock a  *)
(* thread reads and then writes.                                           *)
(***************************************************************************)
EXTENDS Naturals, FiniteSets

CONSTANTS
    Requests,     \* queries, each handled by a thread of its own
    Readers       \* threads that ask for snapshots

ASSUME RequestsAssumption == IsFiniteSet(Requests)
ASSUME ThreadsAssumption == Requests \cap Readers = {}

Threads == Requests \cup Readers
Counters == {"requests_total", "requests_success", "requests_error", "query"}
Outcomes == {"requests_success", "requests_error"}

VARIABLES
    inside,       \* the threads inside a `with self._lock` block
    counters,     \* _counters, and the count of the "query" latency
    pc,           \* per request: the counter to update next
    outcome,      \* how the request ended
    seen,         \* the value a thread has read inside the lock
    snap          \* per reader: the last snapshot

vars == <<inside, counters, pc, outcome, seen, snap>>

Empty == [total |-> 0, success |-> 0, errors |-> 0, timed |-> 0]

Init ==
    /\ inside = {}
    /\ counters = [n \in Counters |-> 0]
    /\ pc = [r \in Requests |-> "serving"]
    /\ outcome = [r \in Requests |-> "none"]
    /\ seen = [t \in Threads |-> 0]
    /\ snap = [q \in Readers |-> Empty]

\* The query handler has its result; a 400 is answered without being counted.
Answer(r) ==
    /\ pc[r] = "serving"
    /\ \/ /\ \E o \in Outcomes : outcome' = [outcome EXCEPT ![r] = o]
          /\ pc' = [pc EXCEPT ![r] = "requests_total"]
       \/ /\ pc' = [pc EXCEPT ![r] = "done"]
          /\ UNCHANGED outcome
    /\ UNCHANGED <<inside, counters, seen, snap>>

\* Mutant: the blocks are not guarded by one lock.
FreeAnyway == TRUE
\* The lock is free.
Free == inside = {}

\* Mutant: increment without the lock.
ReadUnlocked(r) ==
    /\ pc[r] \in Counters /\ r \notin inside
    /\ inside' = inside \cup {r}
    /\ seen' = [seen EXCEPT ![r] = counters[pc[r]]]
    /\ UNCHANGED <<counters, pc, outcome, snap>>
\* increment takes the lock and reads the counter.
Read(r) ==
    /\ pc[r] \in Counters /\ Free
    /\ inside' = inside \cup {r}
    /\ seen' = [seen EXCEPT ![r] = counters[pc[r]]]
    /\ UNCHANGED <<counters, pc, outcome, snap>>

\* Mutant: an error is counted under a name snapshot does not read.
FollowMisnamed(r) ==
    [requests_total   |-> IF outcome[r] = "requests_error"
                          THEN "requests_failed" ELSE outcome[r],
     requests_success |-> "query",
     requests_error   |-> "done",
     query            |-> "done"][pc[r]]
\* record_request counts the total, then the outcome; the handler then
\* observes the latency of a query that succeeded.
Follow(r) ==
    [requests_total   |-> outcome[r],
     requests_success |-> "query",
     requests_error   |-> "done",
     query            |-> "done"][pc[r]]

\* increment writes the counter and leaves the lock.
Write(r) ==
    /\ r \in inside /\ pc[r] \in Counters
    /\ counters' = [counters EXCEPT ![pc[r]] = seen[r] + 1]
    /\ inside' = inside \ {r}
    /\ pc' = [pc EXCEPT ![r] = Follow(r)]
    /\ UNCHANGED <<outcome, seen, snap>>

\* snapshot takes the lock and reads the total ...
Open(q) ==
    /\ Free
    /\ inside' = inside \cup {q}
    /\ seen' = [seen EXCEPT ![q] = counters["requests_total"]]
    /\ UNCHANGED <<counters, pc, outcome, snap>>

\* Mutant: a snapshot starts the counters afresh.
CloseDraining(q) ==
    /\ q \in inside
    /\ inside' = inside \ {q}
    /\ snap' = [snap EXCEPT ![q] = [total   |-> seen[q],
                                    success |-> counters["requests_success"],
                                    errors  |-> counters["requests_error"],
                                    timed   |-> counters["query"]]]
    /\ counters' = [n \in Counters |-> 0]
    /\ UNCHANGED <<pc, outcome, seen>>
\* ... then the other counters, from which it computes the rates.
Close(q) ==
    /\ q \in inside
    /\ inside' = inside \ {q}
    /\ snap' = [snap EXCEPT ![q] = [total   |-> seen[q],
                                    success |-> counters["requests_success"],
                                    errors  |-> counters["requests_error"],
                                    timed   |-> counters["query"]]]
    /\ UNCHANGED <<counters, pc, outcome, seen>>

Next ==
    \/ \E r \in Requests : Answer(r) \/ Read(r) \/ Write(r)
    \/ \E q \in Readers : Open(q) \/ Close(q)

Spec == Init /\ [][Next]_vars

-----------------------------------------------------------------------------
(* Correctness.                                                            *)

TypeOK ==
    /\ inside \in SUBSET Threads
    /\ counters \in [Counters -> Nat]
    /\ pc \in [Requests -> Counters \cup {"serving", "done"}]
    /\ outcome \in [Requests -> Outcomes \cup {"none"}]
    /\ seen \in [Threads -> Nat]
    /\ snap \in [Readers -> [total : Nat, success : Nat, errors : Nat, timed : Nat]]

\* A snapshot taken while requests are half recorded is consistent: success
\* and error rate add up to at most one, and no query has a latency before it
\* is counted as a success (snapshot, record_request, the query handler).
SnapshotConsistent ==
    \A q \in Readers :
        /\ snap[q].success + snap[q].errors <= snap[q].total
        /\ snap[q].timed <= snap[q].success

\* The requests that have been counted, counted as o, and timed.
Counted == {r \in Requests : outcome[r] # "none" /\ pc[r] # "requests_total"}
CountedAs(o) == {r \in Counted : outcome[r] = o /\ pc[r] # o}
Timed == {r \in CountedAs("requests_success") : pc[r] # "query"}

\* No update is lost, whichever threads record at the same time: each counter
\* is the number of requests that have passed it (increment, observe_latency).
NothingLost ==
    /\ counters["requests_total"] = Cardinality(Counted)
    /\ \A o \in Outcomes : counters[o] = Cardinality(CountedAs(o))
    /\ counters["query"] = Cardinality(Timed)

\* A later snapshot of the same reader never shows less than an earlier one
\* (the panel polls GET /v1/metrics).
SnapshotsGrow ==
    [][\A q \in Readers :
        /\ snap[q].total <= snap'[q].total
        /\ snap[q].success <= snap'[q].success
        /\ snap[q].errors <= snap'[q].errors
        /\ snap[q].timed <= snap'[q].timed]_vars
=============================================================================
