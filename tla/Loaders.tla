------------------------------ MODULE Loaders ------------------------------
(***************************************************************************)
(* What LoaderRegistry and the loaders make of a file                      *)
(* (ingestion/loaders): the segments it is cut into, each with the title   *)
(* or the page that its chunks will be cited with.                         *)
(*                                                                         *)
(* A file is [kind, access, title, items].  Its items are, in order, the   *)
(* lines of a Markdown or text file, the nodes of an HTML body, the pages  *)
(* of a PDF: [heading, text], the text "" being blank.  A text stands for  *)
(* the words of the item; only the order and the titles matter here.       *)
(***************************************************************************)
EXTENDS Integers, FiniteSets, Sequences, SequencesExt

None == "None"                        \* no section_title, no <title>
NoPage == 0

\* LoaderRegistry: the kinds of files there is a loader for.
Supported == {"text", "markdown", "html", "pdf"}

Positions(file) == DOMAIN file.items
WithText(file, S) == {i \in S : file.items[i].text # ""}

\* Segment: the items whose text it has, and where they come from.
Segment(items, title, page) == [items |-> items, section_title |-> title, page_number |-> page]

\* flush: the buffer becomes a segment, unless it is blank.
Flush(file, st) ==
    [st EXCEPT !.segments = IF WithText(file, st.buffer) = {} THEN @
                            ELSE Append(@, Segment(WithText(file, st.buffer), st.title, NoPage)),
               !.buffer = {}]

\* Mutant: the title is changed before the text above it is flushed.
MarkdownLineLate(file, st, i) ==
    IF file.items[i].heading
    THEN Flush(file, [st EXCEPT !.title = file.items[i].text])
    ELSE [st EXCEPT !.buffer = @ \cup {i}]

\* MarkdownLoader: a heading ends a segment and is in none itself.
MarkdownLine(file, st, i) ==
    IF file.items[i].heading
    THEN [Flush(file, st) EXCEPT !.title = file.items[i].text]
    ELSE [st EXCEPT !.buffer = @ \cup {i}]

\* HtmlLoader: a heading without text keeps the title; the strings under a
\* heading are descendants too, and are walked after it.
HtmlNode(file, st, i) ==
    IF file.items[i].heading
    THEN [Flush(file, st) EXCEPT
            !.title = IF file.items[i].text = "" THEN @ ELSE file.items[i].text,
            !.buffer = {i}]
    ELSE [st EXCEPT !.buffer = @ \cup {i}]

Opening(title) == [segments |-> <<>>, title |-> title, buffer |-> {}]

\* The loop of either loader, and its last flush.
Item(file, st, i) ==
    IF file.kind = "markdown" THEN MarkdownLine(file, st, i) ELSE HtmlNode(file, st, i)
Cut(file, title) ==
    LET Next(st, i) == Item(file, st, i)
    IN  Flush(file, FoldLeftDomain(Next, Opening(title), file.items)).segments

\* MarkdownLoader.load: a file of headings only is one segment.
Markdown(file) ==
    LET cut == Cut(file, None)
    IN  IF cut = <<>> THEN <<Segment(Positions(file), None, NoPage)>> ELSE cut

\* HtmlLoader.load: what is above the first heading has the page's title.
Html(file) == Cut(file, file.title)

\* PdfLoader.load: pages count from 1, blank ones too.
Pdf(file) ==
    LET pages == WithText(file, Positions(file))
        Page(j) == CHOOSE i \in pages : Cardinality({h \in pages : h <= i}) = j
    IN  [j \in 1 .. Cardinality(pages) |-> Segment({Page(j)}, None, Page(j))]

\* The segments attached to the document.
Segments(file) ==
    CASE file.kind = "markdown" -> Markdown(file)
      [] file.kind = "html" -> Html(file)
      [] file.kind = "pdf" -> Pdf(file)
      [] OTHER -> <<Segment(WithText(file, Positions(file)), None, NoPage)>>

\* Document.content is blank, or there is no text to extract: ValueError.  The
\* content of a Markdown file has its heading lines.
Blank(file) ==
    /\ WithText(file, Positions(file)) = {}
    /\ file.kind = "markdown" => \A i \in Positions(file) : ~file.items[i].heading

\* load raises ValueError or FileNotFoundError.  The extension is looked at
\* before the file; a text that is not UTF-8 is a ValueError.
Rejected(file) ==
    \/ file.kind \notin Supported
    \/ file.access \in {"missing", "undecodable"}
    \/ file.access = "readable" /\ Blank(file)

\* load raises something else: PermissionError, or what pypdf raises for a
\* broken file.
Breaks(file) == file.kind \in Supported /\ file.access \in {"denied", "corrupt"}

-----------------------------------------------------------------------------
(* Where a text comes from.                                                *)

\* The headings at or above position i that name a section.
Above(file, i) ==
    {h \in 1 .. i : file.items[h].heading /\ (file.kind = "html" => file.items[h].text # "")}

\* The title a reader would look for: of the nearest heading, or the page's.
NearestTitle(file, i) ==
    IF file.kind \notin {"markdown", "html"} THEN None
    ELSE IF Above(file, i) # {}
         THEN file.items[CHOOSE h \in Above(file, i) : \A g \in Above(file, i) : g <= h].text
         ELSE IF file.kind = "html" THEN file.title ELSE None

PageOf(file, i) == IF file.kind = "pdf" THEN i ELSE NoPage

\* The items whose text is for the chunkers: Markdown's titles are not.
Body(file) ==
    {i \in WithText(file, Positions(file)) : file.kind = "markdown" => ~file.items[i].heading}
=============================================================================
