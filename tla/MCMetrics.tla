----------------------------- MODULE MCMetrics -----------------------------
EXTENDS Metrics, TLC
CONSTANTS r1, r2, r3, q1, q2
MCRequests == {r1, r2, r3}
MCReaders == {q1, q2}
Symmetry == Permutations(MCRequests) \cup Permutations(MCReaders)
=============================================================================
