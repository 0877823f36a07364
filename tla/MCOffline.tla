----------------------------- MODULE MCOffline -----------------------------
(* Every short file of each kind by itself, and command lines over files of   *)
(* every fate; golden sets of up to two questions, ranked in every way, and   *)
(* answered with and without citations.                                       *)
EXTENDS Offline

Heading(name) == [heading |-> TRUE, text |-> name]
Text(t) == [heading |-> FALSE, text |-> t]
AFile(kind, access, title, items) ==
    [kind |-> kind, access |-> access, title |-> title, items |-> items]

Upto(n, S) == UNION {[1 .. m -> S] : m \in 0 .. n}
Marks == {Heading("a"), Heading("b"), Heading(""), Text("t"), Text("")}
Single(f) == [files |-> "f" :> f, directories |-> <<>>, paths |-> <<"f">>]
SingleDisks ==
    {Single(AFile("markdown", "readable", None, items)) : items \in Upto(3, Marks)}
    \cup {Single(AFile("html", "readable", title, items)) :
             title \in {None, "page"}, items \in Upto(3, Marks)}
    \cup {Single(AFile(kind, "readable", None, items)) :
             kind \in {"text", "pdf"}, items \in Upto(3, {Text("t"), Text("")})}

Folder ==
    "md" :> AFile("markdown", "readable", None, <<Heading("a"), Text("t")>>)
    @@ "txt" :> AFile("text", "readable", None, <<Text("t")>>)
    @@ "csv" :> AFile("other", "readable", None, <<Text("t")>>)
    @@ "latin" :> AFile("text", "undecodable", None, <<Text("t")>>)
    @@ "gone" :> AFile("text", "missing", None, <<>>)
    @@ "empty" :> AFile("html", "readable", None, <<Heading(""), Text("")>>)
    @@ "locked" :> AFile("text", "denied", None, <<Text("t")>>)
    @@ "broken" :> AFile("pdf", "corrupt", None, <<>>)
FolderDisks ==
    {[files |-> Folder, directories |-> <<>>, paths |-> paths] :
        paths \in [1 .. 2 -> DOMAIN Folder]}
    \cup {[files |-> Folder, directories |-> "docs" :> files, paths |-> paths] :
             files \in {{}, {"md", "csv", "latin"}, {"md", "txt"}, {"txt", "gone", "broken"}},
             paths \in {<<"docs", "txt", "docs">>, <<"md", "docs", "empty">>, <<"docs", "locked">>}}

InitialDisks == SingleDisks \cup FolderDisks

-----------------------------------------------------------------------------
Word(w) == [word |-> w, cites |-> -1, plain |-> FALSE]
Marker(n) ==
    [word |-> CASE n = 0 -> "0" [] n = 1 -> "1" [] n = 2 -> "2", cites |-> n, plain |-> TRUE]
Padded == [word |-> "01", cites |-> 1, plain |-> FALSE]
Source(words) == [words |-> words]
Sources == {<<Source(<<"api", "async">>)>>, <<Source(<<"api", "async">>), Source(<<"limit", "1">>)>>}
Answers == {
    <<<<Word("the"), Word("api"), Marker(1)>>>>,
    <<<<Word("api"), Word("limit"), Marker(2)>>, <<Word("api"), Word("api")>>>>,
    <<<<Word("limit"), Marker(1), Marker(2)>>, <<Marker(0)>>>>,
    <<<<Word("api"), Padded>>, <<Word("the")>>>>,
    <<<<Word("the")>>>>}
Refusal == [refused |-> TRUE, answer |-> <<>>, sources |-> <<>>]
Responses == {Refusal} \cup [refused : {FALSE}, answer : Answers, sources : Sources]

AChunk(id, document, says) == [id |-> id, document |-> document, says |-> says]
RankedChunks == {AChunk("c1", "d1", {}), AChunk("c2", "d2", {"span"}), AChunk("c3", "d2", {}),
                 AChunk("c4", "d3", {})}
Rankings == {s \in Upto(3, RankedChunks) : IsInjective(s)}
Question(answerable, expected, chunks) ==
    [answerable |-> answerable, document |-> "d1", expected_documents |-> expected,
     answer_spans |-> {"span"}, expected_chunks |-> chunks, answer |-> <<"the", "api", "async">>]
Lookup == Question(TRUE, {}, {})
Narrow == Question(TRUE, {"d3"}, {"c3"})
Unanswerable == Question(FALSE, {}, {})

Alike(n, S) == [i \in 1 .. n |-> S]
Ranked(dataset, rankings, formats) ==
    [dataset |-> dataset, rankings |-> Alike(Len(dataset), rankings), generation |-> FALSE,
     responses |-> Alike(Len(dataset), {Refusal}), formats |-> formats]
Answered(dataset, given, formats) ==
    [dataset |-> dataset, rankings |-> Alike(Len(dataset), {<<>>}), generation |-> TRUE,
     responses |-> Alike(Len(dataset), given), formats |-> formats]
InitialSetups ==
    {Ranked(<<Lookup, Narrow>>, Rankings, {}), Ranked(<<Narrow>>, Rankings, {"md", "csv"}),
     Answered(<<>>, {}, Range(Formats)),
     Answered(<<Lookup>>, Responses, Range(Formats)),
     Answered(<<Lookup, Unanswerable>>, Responses, Range(Formats)),
     Answered(<<Unanswerable, Unanswerable>>, Responses, {"json"})}

Number(score) == [kind |-> "number", score |-> score]
JudgeReplies == {[kind |-> "raises", score |-> Zero], [kind |-> "unparseable", score |-> Zero],
                 [kind |-> "nan", score |-> Zero], Number(<<-1, 1>>), Number(<<3, 2>>)}

Gains == <<6, 4, 3>>
=============================================================================
