----------------------------- MODULE Fractions -----------------------------
(***************************************************************************)
(* The scores of the evaluation, which are floats between 0 and 1 made by  *)
(* division: a score is a pair <<numerator, denominator>>, exact where the *)
(* program rounds.                                                         *)
(***************************************************************************)
EXTENDS Integers, FiniteSets, Functions

Zero == <<0, 1>>
One == <<1, 1>>

AtMost(p, q) == p[1] * q[2] <= q[1] * p[2]
Equal(p, q) == p[1] * q[2] = q[1] * p[2]
Plus(p, q) == IF p[2] = q[2] THEN <<p[1] + q[1], p[2]>> ELSE <<p[1] * q[2] + q[1] * p[2], p[2] * q[2]>>

IsScore(p) == p \in Int \X Int /\ p[2] > 0 /\ AtMost(Zero, p) /\ AtMost(p, One)

\* hits / total, or 0.0 when there is nothing to divide by.
Ratio(hits, total) == IF total <= 0 THEN Zero ELSE <<hits, total>>

\* scores is a function: the score of each example there is one of.
Sum(scores) == FoldFunction(Plus, Zero, scores)

\* _mean, of the evaluators and of the runner.
Mean(scores) ==
    IF DOMAIN scores = {} THEN Zero
    ELSE <<Sum(scores)[1], Sum(scores)[2] * Cardinality(DOMAIN scores)>>
=============================================================================
