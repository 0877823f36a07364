--------------------------- MODULE MetricsProofs ---------------------------
(* Theorems about Metrics, for every set of requests and readers. *)
EXTENDS Metrics, FiniteSetTheorems, TLAPS

\* Where a request stands, and how it ended.
ControlInv ==
    \A r \in Requests :
        /\ pc[r] = "serving" => outcome[r] = "none"
        /\ pc[r] \in Counters => outcome[r] \in Outcomes
        /\ pc[r] \in Outcomes => pc[r] = outcome[r]
        /\ pc[r] = "query" => outcome[r] = "requests_success"

\* The lock: one thread is inside, and what it has read is still true.
LockInv ==
    /\ \A t, u \in inside : t = u
    /\ \A r \in inside \cap Requests :
          pc[r] \in Counters /\ seen[r] = counters[pc[r]]
    /\ \A q \in inside \cap Readers : seen[q] = counters["requests_total"]

\* The counters never fall behind a snapshot.
SnapBelow ==
    \A q \in Readers :
        /\ snap[q].total <= counters["requests_total"]
        /\ snap[q].success <= counters["requests_success"]
        /\ snap[q].errors <= counters["requests_error"]
        /\ snap[q].timed <= counters["query"]

IInv ==
    /\ TypeOK
    /\ ControlInv
    /\ LockInv
    /\ NothingLost
    /\ SnapBelow
    /\ SnapshotConsistent

\* The counters themselves satisfy what a snapshot of them must.
LEMMA CountersConsistent ==
    ASSUME TypeOK, NothingLost
    PROVE  /\ counters["requests_success"] + counters["requests_error"]
                <= counters["requests_total"]
           /\ counters["query"] <= counters["requests_success"]
<1> DEFINE S == CountedAs("requests_success")
           E == CountedAs("requests_error")
<1>1. IsFiniteSet(Counted)
  BY RequestsAssumption, FS_Subset DEF Counted
<1>2. S \subseteq Counted /\ E \subseteq Counted /\ Timed \subseteq S
  BY DEF CountedAs, Timed
<1>3. S \cap E = {}
  BY DEF CountedAs
<1>4. IsFiniteSet(S) /\ IsFiniteSet(E)
  BY <1>1, <1>2, FS_Subset
<1>5. Cardinality(Timed) <= Cardinality(S)
  BY <1>2, <1>4, FS_Subset
<1>6. S \cup E \in SUBSET Counted
  BY <1>2
<1>7. Cardinality(S \cup E) <= Cardinality(Counted)
  BY <1>1, <1>6, FS_Subset
<1> HIDE DEF S, E
<1>8. Cardinality(S \cup E) = Cardinality(S) + Cardinality(E)
  <2>1. Cardinality(S \cup E)
          = Cardinality(S) + Cardinality(E) - Cardinality(S \cap E)
    BY <1>4, FS_Union
  <2>2. Cardinality(S \cap E) = 0
    BY <1>3, FS_EmptySet
  <2>3. Cardinality(S) \in Nat /\ Cardinality(E) \in Nat
    BY <1>4, FS_CardinalityType
  <2> QED
    BY <2>1, <2>2, <2>3
<1>9. /\ counters["requests_total"] = Cardinality(Counted)
      /\ counters["requests_success"] = Cardinality(S)
      /\ counters["requests_error"] = Cardinality(E)
      /\ counters["query"] = Cardinality(Timed)
  BY DEF NothingLost, Outcomes, S, E
<1> QED
  BY <1>5, <1>7, <1>8, <1>9

\* The invariant holds before the first request.
LEMMA InitInv == Init => IInv
<1> SUFFICES ASSUME Init PROVE IInv
  OBVIOUS
<1>1. TypeOK /\ ControlInv /\ LockInv
  BY DEF Init, TypeOK, ControlInv, LockInv, Counters, Outcomes, Empty
<1>2. Counted = {} /\ Timed = {} /\ \A o : CountedAs(o) = {}
  BY DEF Init, Counted, CountedAs, Timed
<1>3. NothingLost
  BY <1>2, FS_EmptySet DEF Init, NothingLost, Counters, Outcomes
<1>4. SnapBelow /\ SnapshotConsistent
  BY DEF Init, SnapBelow, SnapshotConsistent, Counters, Empty
<1> QED
  BY <1>1, <1>3, <1>4 DEF IInv

\* A step that leaves the counters and the recorded requests alone.
LEMMA Unrecorded ==
    ASSUME NothingLost, counters' = counters, Counted' = Counted,
           \A o \in Outcomes : CountedAs(o)' = CountedAs(o), Timed' = Timed
    PROVE  NothingLost'
BY DEF NothingLost

\* One request passes one counter.
LEMMA OneMore ==
    ASSUME NEW S, NEW T, NEW r, S \subseteq Requests, T = S \cup {r}, r \notin S
    PROVE  Cardinality(T) = Cardinality(S) + 1
<1>1. IsFiniteSet(S)
  BY RequestsAssumption, FS_Subset
<1> QED
  BY <1>1, FS_AddElement

\* A write back leaves each counter at the requests that have passed it.
LEMMA WriteRecords ==
    ASSUME IInv, NEW r \in Requests, Write(r)
    PROVE  NothingLost'
<1>1. /\ pc[r] \in Counters /\ outcome' = outcome
      /\ pc' = [pc EXCEPT ![r] = Follow(r)]
      /\ counters' = [counters EXCEPT ![pc[r]] = counters[pc[r]] + 1]
  BY DEF Write, IInv, LockInv
<1>2. /\ outcome[r] \in Outcomes /\ (pc[r] \in Outcomes => pc[r] = outcome[r])
      /\ pc[r] = "query" => outcome[r] = "requests_success"
      /\ pc \in [Requests -> Counters \cup {"serving", "done"}]
      /\ counters \in [Counters -> Nat]
  BY <1>1 DEF IInv, ControlInv, TypeOK
<1>3. /\ Counted \subseteq Requests /\ Timed \subseteq Requests
      /\ \A o : CountedAs(o) \subseteq Requests
  BY DEF Counted, CountedAs, Timed
<1>4. CASE pc[r] = "requests_total"
  <2>1. pc'[r] = outcome[r] /\ \A s \in Requests \ {r} : pc'[s] = pc[s]
    BY <1>1, <1>2, <1>4 DEF Follow
  <2>2. Counted' = Counted \cup {r} /\ r \notin Counted
    BY <1>1, <1>2, <1>4, <2>1 DEF Counted, Outcomes
  <2>3. \A o \in Outcomes : CountedAs(o)' = CountedAs(o)
    BY <1>1, <1>2, <1>4, <2>1, <2>2 DEF CountedAs, Counted, Outcomes
  <2>4. Timed' = Timed
    BY <1>1, <1>2, <1>4, <2>1, <2>3 DEF Timed, CountedAs, Counted, Outcomes
  <2>5. Cardinality(Counted') = Cardinality(Counted) + 1
    BY <1>3, <2>2, OneMore
  <2> QED
    BY <1>1, <1>2, <1>4, <2>3, <2>4, <2>5
    DEF IInv, NothingLost, Outcomes, Counters
<1>5. CASE pc[r] \in Outcomes
  <2>1. /\ pc'[r] = IF outcome[r] = "requests_success" THEN "query" ELSE "done"
        /\ \A s \in Requests \ {r} : pc'[s] = pc[s]
    BY <1>1, <1>2, <1>5 DEF Follow, Outcomes
  <2>2. Counted' = Counted /\ r \in Counted
    BY <1>1, <1>2, <1>5, <2>1 DEF Counted, Outcomes
  <2>3. /\ CountedAs(outcome[r])' = CountedAs(outcome[r]) \cup {r}
        /\ r \notin CountedAs(outcome[r])
        /\ \A o \in Outcomes \ {outcome[r]} : CountedAs(o)' = CountedAs(o)
    BY <1>1, <1>2, <1>5, <2>1, <2>2 DEF CountedAs, Outcomes
  <2>4. Timed' = Timed
    BY <1>1, <1>2, <1>5, <2>1, <2>2 DEF Timed, CountedAs, Outcomes
  <2>5. Cardinality(CountedAs(outcome[r])') = Cardinality(CountedAs(outcome[r])) + 1
    BY <1>3, <2>3, OneMore
  <2> QED
    BY <1>1, <1>2, <1>5, <2>2, <2>3, <2>4, <2>5
    DEF IInv, NothingLost, Outcomes, Counters
<1>6. CASE pc[r] = "query"
  <2>1. pc'[r] = "done" /\ \A s \in Requests \ {r} : pc'[s] = pc[s]
    BY <1>1, <1>2, <1>6 DEF Follow
  <2>2. Counted' = Counted /\ r \in Counted
    BY <1>1, <1>2, <1>6, <2>1 DEF Counted, Outcomes
  <2>3. \A o \in Outcomes : CountedAs(o)' = CountedAs(o)
    BY <1>1, <1>2, <1>6, <2>1, <2>2 DEF CountedAs, Outcomes
  <2>4. Timed' = Timed \cup {r} /\ r \notin Timed
    BY <1>1, <1>2, <1>6, <2>1, <2>2 DEF Timed, CountedAs, Outcomes
  <2>5. Cardinality(Timed') = Cardinality(Timed) + 1
    BY <1>3, <2>4, OneMore
  <2> QED
    BY <1>1, <1>2, <1>6, <2>2, <2>3, <2>5
    DEF IInv, NothingLost, Outcomes, Counters
<1> QED
  BY <1>1, <1>4, <1>5, <1>6 DEF Counters, Outcomes

\* Every step keeps the invariant.
LEMMA Step == IInv /\ [Next]_vars => IInv'
<1> SUFFICES ASSUME IInv, [Next]_vars PROVE IInv'
  OBVIOUS
<1> USE DEF IInv
<1>1. ASSUME NEW r \in Requests, Answer(r)
      PROVE  IInv'
  <2>1. TypeOK' /\ ControlInv'
    BY <1>1 DEF Answer, TypeOK, ControlInv, Counters, Outcomes
  <2>2. LockInv'
    BY <1>1 DEF Answer, LockInv, TypeOK, Counters
  <2>3. outcome[r] = "none" /\ outcome'[r] # "none" => pc'[r] = "requests_total"
    BY <1>1 DEF Answer, ControlInv, TypeOK
  <2>4. \A s \in Requests \ {r} : outcome'[s] = outcome[s] /\ pc'[s] = pc[s]
    BY <1>1 DEF Answer, TypeOK
  <2>5. outcome[r] = "none"
    BY <1>1 DEF Answer, ControlInv
  <2>6. Counted' = Counted
    BY <2>3, <2>4, <2>5 DEF Counted
  <2>7. \A o \in Outcomes : CountedAs(o)' = CountedAs(o)
    BY <2>3, <2>4, <2>5, <2>6 DEF CountedAs, Counted
  <2>8. Timed' = Timed
    BY <2>3, <2>4, <2>5, <2>7 DEF Timed, CountedAs, Counted, Outcomes
  <2>9. NothingLost'
    BY <1>1, <2>6, <2>7, <2>8, Unrecorded DEF Answer
  <2>10. SnapBelow' /\ SnapshotConsistent'
    BY <1>1 DEF Answer, SnapBelow, SnapshotConsistent
  <2> QED
    BY <2>1, <2>2, <2>9, <2>10
<1>2. ASSUME NEW r \in Requests, Read(r)
      PROVE  IInv'
  <2>1. TypeOK' /\ ControlInv'
    BY <1>2 DEF Read, TypeOK, ControlInv, Threads
  <2>2. LockInv'
    BY <1>2, ThreadsAssumption DEF Read, Free, LockInv, TypeOK, Threads
  <2>3. NothingLost'
    BY <1>2, Unrecorded DEF Read, Counted, CountedAs, Timed
  <2>4. SnapBelow' /\ SnapshotConsistent'
    BY <1>2 DEF Read, SnapBelow, SnapshotConsistent
  <2> QED
    BY <2>1, <2>2, <2>3, <2>4
<1>3. ASSUME NEW r \in Requests, Write(r)
      PROVE  IInv'
  <2>1. pc[r] \in Counters /\ seen[r] = counters[pc[r]] /\ inside = {r}
    BY <1>3 DEF Write, LockInv
  <2>2. /\ outcome[r] \in Outcomes /\ (pc[r] \in Outcomes => pc[r] = outcome[r])
        /\ pc[r] = "query" => outcome[r] = "requests_success"
    BY <2>1 DEF ControlInv
  <2>3. /\ pc[r] = "requests_total" => Follow(r) = outcome[r]
        /\ pc[r] = "requests_success" => Follow(r) = "query"
        /\ pc[r] \in {"requests_error", "query"} => Follow(r) = "done"
    BY DEF Follow
  <2>4. TypeOK'
    <3>1. Follow(r) \in Counters \cup {"serving", "done"}
      BY <2>1, <2>2, <2>3 DEF Counters, Outcomes
    <3> QED
      BY <1>3, <2>1, <3>1 DEF Write, TypeOK
  <2>5. ControlInv'
    BY <1>3, <2>1, <2>2, <2>3 DEF Write, ControlInv, TypeOK, Counters, Outcomes
  <2>6. LockInv'
    BY <1>3, <2>1 DEF Write, LockInv
  <2>7. SnapBelow' /\ SnapshotConsistent'
    <3>1. \A n \in Counters : counters[n] <= counters'[n] /\ counters'[n] \in Nat
      BY <1>3, <2>1 DEF Write, TypeOK
    <3>2. snap' = snap
      BY <1>3 DEF Write
    <3> QED
      BY <3>1, <3>2 DEF SnapBelow, SnapshotConsistent, TypeOK, Counters
  <2> QED
    BY <1>3, <2>4, <2>5, <2>6, <2>7, WriteRecords
<1>4. ASSUME NEW q \in Readers, Open(q)
      PROVE  IInv'
  <2>1. TypeOK' /\ ControlInv'
    BY <1>4 DEF Open, TypeOK, ControlInv, Threads, Counters
  <2>2. LockInv'
    BY <1>4, ThreadsAssumption DEF Open, Free, LockInv, TypeOK, Threads
  <2>3. NothingLost'
    BY <1>4, Unrecorded DEF Open, Counted, CountedAs, Timed
  <2>4. SnapBelow' /\ SnapshotConsistent'
    BY <1>4 DEF Open, SnapBelow, SnapshotConsistent
  <2> QED
    BY <2>1, <2>2, <2>3, <2>4
<1>5. ASSUME NEW q \in Readers, Close(q)
      PROVE  IInv'
  <2>1. seen[q] = counters["requests_total"] /\ inside = {q}
    BY <1>5 DEF Close, LockInv
  <2>2. TypeOK' /\ ControlInv'
    BY <1>5, <2>1 DEF Close, TypeOK, ControlInv, Counters
  <2>3. LockInv'
    BY <1>5, <2>1 DEF Close, LockInv
  <2>4. NothingLost'
    BY <1>5, Unrecorded DEF Close, Counted, CountedAs, Timed
  <2>5. SnapBelow' /\ SnapshotConsistent'
    BY <1>5, <2>1, CountersConsistent
    DEF Close, SnapBelow, SnapshotConsistent, TypeOK, Counters
  <2> QED
    BY <2>2, <2>3, <2>4, <2>5
<1>6. CASE UNCHANGED vars
  <2>1. NothingLost'
    BY <1>6, Unrecorded DEF vars, Counted, CountedAs, Timed
  <2>2. TypeOK' /\ ControlInv' /\ LockInv' /\ SnapBelow' /\ SnapshotConsistent'
    BY <1>6 DEF vars, TypeOK, ControlInv, LockInv, SnapBelow, SnapshotConsistent
  <2> QED
    BY <2>1, <2>2
<1> HIDE DEF IInv
<1> QED
  BY <1>1, <1>2, <1>3, <1>4, <1>5, <1>6 DEF Next

\* No thread puts a value of a wrong type into the registry.
THEOREM TypeCorrect == Spec => []TypeOK
BY InitInv, Step, PTL DEF Spec, IInv

\* However many threads record, no increment is lost.
THEOREM CountersExact == Spec => []NothingLost
BY InitInv, Step, PTL DEF Spec, IInv

\* However requests are interleaved, every snapshot is consistent.
THEOREM SnapshotsConsistent == Spec => []SnapshotConsistent
BY InitInv, Step, PTL DEF Spec, IInv

\* Successive snapshots of a reader never decrease.
THEOREM SnapshotsNeverShrink == Spec => SnapshotsGrow
<1>1. IInv /\ [Next]_vars =>
        [\A q \in Readers :
            /\ snap[q].total <= snap'[q].total
            /\ snap[q].success <= snap'[q].success
            /\ snap[q].errors <= snap'[q].errors
            /\ snap[q].timed <= snap'[q].timed]_vars
  <2> SUFFICES ASSUME IInv, Next, NEW q \in Readers
               PROVE  /\ snap[q].total <= snap'[q].total
                      /\ snap[q].success <= snap'[q].success
                      /\ snap[q].errors <= snap'[q].errors
                      /\ snap[q].timed <= snap'[q].timed
    OBVIOUS
  <2>1. snap[q] \in [total : Nat, success : Nat, errors : Nat, timed : Nat]
    BY DEF IInv, TypeOK
  <2>2. CASE snap' = snap
    BY <2>1, <2>2
  <2>3. ASSUME NEW p \in Readers, Close(p)
        PROVE  /\ snap[q].total <= snap'[q].total
               /\ snap[q].success <= snap'[q].success
               /\ snap[q].errors <= snap'[q].errors
               /\ snap[q].timed <= snap'[q].timed
    <3>1. seen[p] = counters["requests_total"]
      BY <2>3 DEF Close, IInv, LockInv
    <3> QED
      BY <2>1, <2>3, <3>1 DEF Close, IInv, SnapBelow, TypeOK
  <2> QED
    BY <2>2, <2>3 DEF Next, Answer, Read, Write, Open
<1> QED
  BY <1>1, InitInv, Step, PTL DEF Spec, SnapshotsGrow
=============================================================================
