---------------------------- MODULE RegularIndex ----------------------------
(***************************************************************************)
(* What a process may rely on about its BM25 index, whatever scroll_all    *)
(* does page by page: the index is empty, or it is one regular read of the *)
(* store.  A regular read contains every chunk that was stored throughout  *)
(* the read and only chunks stored at some point of it; it need not be the *)
(* contents of the store at any single moment.                             *)
(***************************************************************************)
CONSTANTS
    Procs,   \* processes with an index
    Chunk    \* possible chunks

VARIABLES
    store,   \* the collection
    sparse,  \* sparse[p]: the index p answers from
    must,    \* must[p]: stored throughout the read p has open
    may      \* may[p]: stored at some point of it

vars == <<store, sparse, must, may>>

Init ==
    /\ store = {}
    /\ sparse = [p \in Procs |-> {}]
    /\ must = [p \in Procs |-> {}]
    /\ may = [p \in Procs |-> {}]

\* A read begins, goes on, or is over.
Reading(p) ==
    \/ must'[p] = store' /\ may'[p] = store'
    \/ must'[p] = must[p] \cap store' /\ may'[p] = may[p] \cup store'
    \/ must'[p] = {} /\ may'[p] = {}

\* The index becomes the result of the read, with nothing written meanwhile.
Publish(p) ==
    /\ must[p] \subseteq sparse'[p] /\ sparse'[p] \subseteq may[p]
    /\ store' = store

\* The process restarted, or came up without the store.
Forget(p) == sparse'[p] = {}

Next ==
    /\ store' \subseteq Chunk
    /\ \A p \in Procs :
        /\ Reading(p)
        /\ sparse'[p] = sparse[p] \/ Publish(p) \/ Forget(p)

Spec == Init /\ [][Next]_vars
=============================================================================
