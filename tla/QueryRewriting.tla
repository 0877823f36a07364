--------------------------- MODULE QueryRewriting ---------------------------
(***************************************************************************)
(* services/query_rewriting/heuristic.py: the rule-based rewriter.  A      *)
(* query is its sequence of lower-case words, without the punctuation at   *)
(* its end; Unspoken are the words without a letter or digit of [a-z0-9].  *)
(***************************************************************************)
EXTENDS Integers, Sequences, SequencesExt, FiniteSetsExt

CONSTANTS
    Words,         \* the words queries are made of
    Unspoken,      \* those that are no token (another script, a dash)
    Synonyms,      \* per word: the expansions, a sequence of queries
    MaxVariants    \* max_variants of the rewriter

ASSUME WordsAssumption ==
    /\ Unspoken \subseteq Words /\ MaxVariants \in Nat
    /\ Synonyms \in [Words -> Seq(Seq(Words))]

LeadingPhrases ==
    << <<"how", "do", "we">>, <<"how", "do", "i">>, <<"how", "can", "i">>,
       <<"how", "to">>, <<"what", "is", "the">>, <<"what", "is">>,
       <<"what", "are">>, <<"where", "is">>, <<"where", "can", "i">>,
       <<"can", "you", "tell", "me">>, <<"please">>, <<"tell", "me">> >>

Stopwords == {"the", "a", "an", "do", "we", "i", "to", "of", "for", "is", "are", "how"}

\* The first leading phrase that something follows is taken off.
Stripped(query) ==
    LET leads == {i \in 1 .. Len(LeadingPhrases) : IsStrictPrefix(LeadingPhrases[i], query)}
    IN  IF leads = {} THEN query
        ELSE SubSeq(query, Len(LeadingPhrases[Min(leads)]) + 1, Len(query))

\* rewrite_query: the words that say something, or all when none does.
RewriteQuery(query) ==
    LET Keep(words, w) ==
            IF w \in Stopwords \cup Unspoken THEN words ELSE Append(words, w)
        said == FoldLeft(Keep, <<>>, Stripped(query))
    IN  IF said = <<>> THEN query ELSE said

\* An expansion is added unless it is there; then the limit is looked at.
Add(v, expansion) ==
    IF v.full THEN v
    ELSE LET list == IF expansion \in ToSet(v.list) THEN v.list ELSE Append(v.list, expansion)
         IN  [list |-> list, full |-> Len(list) >= MaxVariants]

\* expand_query: the rewritten query and the expansions of its words.
ExpandQuery(query) ==
    LET normalized == RewriteQuery(query)
        expansions == FlattenSeq([i \in 1 .. Len(normalized) |-> Synonyms[normalized[i]]])
    IN  FoldLeft(Add, [list |-> <<normalized>>, full |-> FALSE], expansions).list
=============================================================================
