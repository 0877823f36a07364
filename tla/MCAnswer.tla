------------------------------ MODULE MCAnswer ------------------------------
(* Completions of up to two sentences over the markers [0] to [3].           *)
EXTENDS Answer, TLC

CONSTANTS c1, c2, c3, c4

MCScores == 0 .. 3
Markers == {{}, {0}, {1}, {2}, {1, 3}, {3}}
MCCompletions ==
    {[sentinel |-> FALSE, sentences |-> s] : s \in UNION {[1 .. n -> Markers] : n \in 0 .. 2}}
    \cup {[sentinel |-> TRUE, sentences |-> <<{1}>>]}
Symmetry == Permutations(Chunks)
=============================================================================
