-------------------------- MODULE BoundedStaleness --------------------------
(***************************************************************************)
(* What a cached retriever may answer: the hits of the corpus as it was at *)
(* some moment of the last Bound time units, for the very search asked.    *)
(* Nothing is said of caches, keys or expiry.                              *)
(***************************************************************************)
EXTENDS Integers, Sequences

CONSTANTS
    Searches,     \* what may be asked
    Hits(_, _),   \* Hits(s, S): what search s finds in contents S
    Corpora,      \* the contents the store may have
    Updates,      \* the changes to it: pairs of contents
    Requests,     \* threads that retrieve
    MaxTime,      \* bound: how long the clock runs
    Bound         \* how old an answer may be

VARIABLES
    clock,
    store,        \* the corpus now
    past,         \* past[t]: the contents the store has had at time t
    answers       \* per request: the answers it has been given, in order

Init ==
    /\ clock = 0
    /\ store \in Corpora
    /\ past = [t \in 0 .. MaxTime |-> IF t = 0 THEN {store} ELSE {}]
    /\ answers = [r \in Requests |-> <<>>]

Change ==
    /\ \E u \in Updates : u[1] = store /\ store' = u[2]
    /\ past' = [past EXCEPT ![clock] = @ \cup {store'}]
    /\ UNCHANGED <<clock, answers>>

Tick ==
    /\ clock < MaxTime
    /\ clock' = clock + 1
    /\ past' = [past EXCEPT ![clock + 1] = {store}]
    /\ UNCHANGED <<store, answers>>

\* The contents an answer may be about.
Recent == UNION {past[t] : t \in {u \in 0 .. clock : clock <= u + Bound}}

Serve(r) ==
    /\ UNCHANGED <<clock, store, past>>
    /\ answers' # answers
    /\ \E S \in Recent, s \in Searches :
            answers' = [answers EXCEPT ![r] = Append(@, [search |-> s, hits |-> Hits(s, S)])]

Next == Change \/ Tick \/ \E r \in Requests : Serve(r)

Spec == Init /\ [][Next]_<<clock, store, past, answers>>
=============================================================================
