----------------------------- MODULE Searching -----------------------------
(***************************************************************************)
(* What a retriever answers (retrieval/base.py): of the chunks the caller  *)
(* may see, the k that come first for the text asked (retrieval/access.py, *)
(* retrieval/dense/dense_retriever.py).                                    *)
(***************************************************************************)
EXTENDS Integers, FiniteSets

CONSTANTS
    Groups,       \* access groups
    Texts,        \* query texts
    Sizes,        \* how many chunks may be asked for
    ChunkIds,     \* chunk ids
    Corpora,      \* the contents the store may have: sets of chunks
    Updates,      \* the changes to it: pairs of contents
    Place         \* Place[t][i]: where chunk i ranks for text t, 0 first

Callers == [unrestricted : {TRUE}, groups : {{}}]
               \cup [unrestricted : {FALSE}, groups : SUBSET Groups]
Searches == [text : Texts, k : Sizes, who : Callers]

\* "*" stands for an unrestricted caller in the cache's keys.
ASSUME GroupsAssumption == "*" \notin Groups
ASSUME SizesAssumption == Sizes \subseteq Nat \ {0}
ASSUME CorporaAssumption == Corpora \subseteq SUBSET [id : ChunkIds, acl : SUBSET Groups]
ASSUME UpdatesAssumption == Updates \subseteq Corpora \X Corpora
ASSUME PlaceAssumption == Place \in [Texts -> [ChunkIds -> Nat]]

\* The store keeps one point per chunk id, and a ranking has one place for each.
ASSUME RankingAssumption ==
    /\ \A S \in Corpora : IsFiniteSet(S) /\ \A c, d \in S : c.id = d.id => c = d
    /\ \A t \in Texts : \A i, j \in ChunkIds : Place[t][i] = Place[t][j] => i = j

\* acl_allows: no ACL, or an identifier in common.
AclAllows(acl, who) ==
    who.unrestricted \/ acl = {} \/ acl \cap who.groups # {}

Visible(S, who) == {c \in S : AclAllows(c.acl, who)}

\* The search embeds the text; chunks are ranked by the vector it got.
Ranked(s, vector, S) ==
    LET seen == Visible(S, s.who)
    IN  {c \in seen :
            Cardinality({d \in seen : Place[vector][d.id] < Place[vector][c.id]}) < s.k}

Hits(s, S) == Ranked(s, s.text, S)
=============================================================================
