-------------------------- MODULE MCRetrievalCache --------------------------
(* Two chunks, one of which an update of the corpus deletes while it gives   *)
(* the other an ACL; a caller in the group and one outside.                  *)
EXTENDS RetrievalCache, TLC

CONSTANTS r1, r2

MCRequests == {r1, r2}
Symmetry == Permutations(MCRequests)

Before == {[id |-> 1, acl |-> {}], [id |-> 2, acl |-> {"hr"}]}
After == {[id |-> 1, acl |-> {"hr"}]}
MCCorpora == {Before, After}
MCUpdates == {<<Before, After>>}

MCWords == {"how", "to", "deploy", "auth", "rollout", "login", "-"}
Dash == {"-"}
MCSynonyms ==
    [w \in MCWords |->
        CASE w = "deploy" -> << <<"deploy", "auth">>, <<"rollout">> >>
          [] w = "auth"   -> << <<"login">>, <<"rollout">> >>
          [] OTHER        -> <<>>]

\* Chunk 1 comes first for the rewritten "how to deploy auth" and "rollout".
MCTexts == {<<"deploy">>, <<"rollout">>, <<"login">>, <<"deploy", "auth">>, <<"how", "to", "-">>}
MCPlace ==
    [t \in MCTexts |-> IF t \in {<<"rollout">>, <<"deploy", "auth">>}
                       THEN [i \in 1 .. 2 |-> i - 1] ELSE [i \in 1 .. 2 |-> 2 - i]]

In == [unrestricted |-> FALSE, groups |-> {"hr"}]
Out == [unrestricted |-> FALSE, groups |-> {}]
Ask(query, k, who, multi) == [query |-> query, k |-> k, who |-> who, multi |-> multi]
MCAsks == {Ask(<<"deploy">>, 1, In, FALSE), Ask(<<"deploy">>, 1, Out, FALSE),
           Ask(<<"how", "to", "deploy", "auth">>, 2, In, TRUE),
           Ask(<<"how", "to", "-">>, 1, In, TRUE)}
=============================================================================
