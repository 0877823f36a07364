----------------------------- MODULE IngestRun -----------------------------
(***************************************************************************)
(* scripts/ingest.py and IngestionPipeline (ingestion/pipeline.py): the    *)
(* directories named on the command line are ingested one by one as they   *)
(* are met, the files all together at the end.  A file that cannot be      *)
(* loaded is skipped; any other failure ends the program, with what it has *)
(* stored so far left in the collection.                                   *)
(***************************************************************************)
EXTENDS Loaders

CONSTANTS
    Disks,        \* what the program may be given: [files, directories, paths]
    MaxParts      \* bound: the most chunks a segment is cut into

ASSUME PartsAssumption == MaxParts \in Nat \ {0}
ASSUME DisksAssumption ==
    \A d \in Disks :
        /\ \A p \in DOMAIN d.files :
               d.files[p].items \in Seq([heading : BOOLEAN, text : STRING])
        /\ d.paths \in Seq(DOMAIN d.files \cup DOMAIN d.directories)
        /\ \A name \in DOMAIN d.directories :
               IsFiniteSet(d.directories[name]) /\ d.directories[name] \subseteq DOMAIN d.files

VARIABLES
    disk,         \* the command line, and the files it leads to
    stage,        \* where main() is
    argument,     \* the next of args.paths
    expanded,     \* the files met so far
    queue,        \* ingest_paths: the paths still to ingest
    made,         \* ingest_document: the chunks to embed and to store
    tally,        \* ingest_paths: documents, total_chunks, skipped
    stored,       \* the chunks in the collection
    visits,       \* history: the documents ingested or skipped, in order
    passed,       \* history: which of the visits were skipped
    first,        \* history: the first visit of the batch
    reported      \* history: the reports logged, with the visits they are about

ingestVars ==
    <<disk, stage, argument, expanded, queue, made, tally, stored, visits, passed, first, reported>>

Paths == disk.paths
File(path) == disk.files[path]
IsDirectory(name) == name \in DOMAIN disk.directories

NoTally == [documents |-> 0, chunks |-> 0, skipped |-> <<>>]

IngestBegin ==
    /\ stage = "starting" /\ argument = 1 /\ expanded = <<>> /\ queue = <<>> /\ made = {}
    /\ tally = NoTally /\ stored = {} /\ visits = <<>> /\ passed = {} /\ first = 1
    /\ reported = <<>>

IngestInit == disk \in Disks /\ IngestBegin

\* The embedder is asked its dimension (which loads the model) and the
\* collection is created; either may raise.
Start ==
    /\ stage = "starting"
    /\ stage' \in {"arguments", "aborted"}
    /\ UNCHANGED <<disk, argument, expanded, queue, made, tally, stored, visits, passed, first,
                   reported>>

\* ingest_paths begins.
Batch(paths) ==
    /\ stage' = "batch" /\ queue' = paths /\ tally' = NoTally
    /\ first' = Len(visits) + 1 /\ argument' = argument + 1
    /\ UNCHANGED <<disk, expanded, made, stored, visits, passed, reported>>

\* ingest_directory: every supported file under it, in the order of glob.
TakeDirectory ==
    /\ stage = "arguments" /\ argument \in DOMAIN Paths
    /\ IsDirectory(Paths[argument])
    /\ \E candidates \in SetToSeqs({p \in disk.directories[Paths[argument]] :
                                        File(p).kind \in Supported}) :
           Batch(candidates)

TakeFile ==
    /\ stage = "arguments" /\ argument \in DOMAIN Paths
    /\ ~IsDirectory(Paths[argument])
    /\ expanded' = Append(expanded, Paths[argument]) /\ argument' = argument + 1
    /\ UNCHANGED <<disk, stage, queue, made, tally, stored, visits, passed, first,
                   reported>>

TakeFiles ==
    /\ stage = "arguments" /\ argument = Len(Paths) + 1 /\ expanded # <<>>
    /\ Batch(expanded)

Finish ==
    /\ stage = "arguments"
    /\ argument > Len(Paths) + (IF expanded = <<>> THEN 0 ELSE 1)
    /\ stage' = "done"
    /\ UNCHANGED <<disk, argument, expanded, queue, made, tally, stored, visits, passed, first,
                   reported>>

-----------------------------------------------------------------------------
(* IngestionPipeline.ingest_document, one document at a time.              *)

Loading == stage = "batch" /\ queue # <<>> /\ made = {}

\* ValueError, FileNotFoundError: the file is skipped.
Skip ==
    /\ Loading /\ Rejected(File(Head(queue)))
    /\ queue' = Tail(queue) /\ visits' = Append(visits, Head(queue))
    /\ tally' = [tally EXCEPT !.skipped = Append(@, Head(queue))]
    /\ passed' = passed \cup {Len(visits) + 1}
    /\ UNCHANGED <<disk, stage, argument, expanded, made, stored, first, reported>>

\* Any other exception goes through ingest_paths and main.
LoadBreaks ==
    /\ Loading /\ Breaks(File(Head(queue)))
    /\ stage' = "aborted"
    /\ UNCHANGED <<disk, argument, expanded, queue, made, tally, stored, visits, passed, first,
                   reported>>

\* make_chunk: a chunk has the provenance of its segment.  A document's id is
\* drawn anew on every visit, so the visit stands for it.
Chunks(visit, segments, parts) ==
    UNION {{[visit |-> visit, segment |-> s, part |-> p, items |-> segments[s].items,
             section_title |-> segments[s].section_title,
             page_number |-> segments[s].page_number] : p \in 1 .. parts[s]}
                : s \in DOMAIN segments}

\* The document is loaded and chunked.  Without chunks it is done.
Load ==
    /\ Loading /\ ~Rejected(File(Head(queue))) /\ ~Breaks(File(Head(queue)))
    /\ LET segments == Segments(File(Head(queue)))
       IN  \E parts \in [DOMAIN segments -> 0 .. MaxParts] :
               made' = Chunks(Len(visits) + 1, segments, parts)
    /\ tally' = IF made' = {} THEN [tally EXCEPT !.documents = @ + 1] ELSE tally
    /\ queue' = Tail(queue) /\ visits' = Append(visits, Head(queue))
    /\ UNCHANGED <<disk, stage, argument, expanded, stored, passed, first, reported>>

\* embed and upsert succeed.
Index ==
    /\ stage = "batch" /\ made # {}
    /\ stored' = stored \cup made /\ made' = {}
    /\ tally' = [tally EXCEPT !.documents = @ + 1, !.chunks = @ + Cardinality(made)]
    /\ UNCHANGED <<disk, stage, argument, expanded, queue, visits, passed, first, reported>>

\* What an upsert that raises leaves in the collection: nothing when it was not
\* sent, or any part of the points, up to all of them when only its reply is lost.
PartlyStored == \E part \in SUBSET made : stored' = stored \cup part

\* A ValueError: out of the model, of upsert when the vectors are not as many as
\* the chunks, or of the client when it cannot parse the reply to an upsert the
\* store has applied.  The document is skipped, like one that cannot be loaded.
IndexRejects ==
    /\ stage = "batch" /\ made # {}
    /\ PartlyStored
    /\ made' = {} /\ passed' = passed \cup {Len(visits)}
    /\ tally' = [tally EXCEPT !.skipped = Append(@, visits[Len(visits)])]
    /\ UNCHANGED <<disk, stage, argument, expanded, queue, visits, first, reported>>

\* Mutant: a failure of the store is logged, and the document counted.
IndexSwallows ==
    /\ stage = "batch" /\ made # {}
    /\ PartlyStored
    /\ made' = {}
    /\ tally' = [tally EXCEPT !.documents = @ + 1, !.chunks = @ + Cardinality(made)]
    /\ UNCHANGED <<disk, stage, argument, expanded, queue, visits, passed, first, reported>>

\* The model fails otherwise, or the store: what the Qdrant client raises when it
\* is refused or gets no reply is no ValueError.
IndexBreaks ==
    /\ stage = "batch" /\ made # {}
    /\ PartlyStored
    /\ stage' = "aborted"
    /\ UNCHANGED <<disk, argument, expanded, queue, made, tally, visits, passed, first, reported>>

\* ingest_paths returns its report, and main logs it.
EndBatch ==
    /\ stage = "batch" /\ queue = <<>> /\ made = {}
    /\ reported' = Append(reported, [tally |-> tally, from |-> first, to |-> Len(visits)])
    /\ stage' = "arguments"
    /\ UNCHANGED <<disk, argument, expanded, queue, made, tally, stored, visits, passed, first>>

IngestNext ==
    \/ Start \/ TakeDirectory \/ TakeFile \/ TakeFiles \/ Finish
    \/ Skip \/ LoadBreaks \/ Load \/ Index \/ IndexRejects \/ IndexBreaks \/ EndBatch

IngestSpec == IngestInit /\ [][IngestNext]_ingestVars

-----------------------------------------------------------------------------
(* What the program promises.                                              *)

Tallies == [documents : Nat, chunks : Nat, skipped : Seq(DOMAIN disk.files)]

\* The variables keep their types: main() is at one of its stages, and what is
\* queued, visited and skipped are files of the disk.
IngestTypeOK ==
    /\ disk \in Disks
    /\ stage \in {"starting", "arguments", "batch", "done", "aborted"}
    /\ argument \in Nat \ {0}
    /\ expanded \in Seq(DOMAIN disk.files) /\ queue \in Seq(DOMAIN disk.files)
    /\ visits \in Seq(DOMAIN disk.files) /\ passed \subseteq 1 .. Len(visits)
    /\ first \in 1 .. Len(visits) + 1
    /\ tally \in Tallies
    /\ reported \in Seq([tally : Tallies, from : Nat \ {0}, to : Nat])

\* The visits that are over: all but the one whose chunks are being indexed.
Over == IF made = {} THEN Len(visits) ELSE Len(visits) - 1

\* A report is exact about a range of visits: each was counted once, as a
\* document or as skipped; total_chunks is what the collection has of those
\* counted as documents; and the files named as skipped are those of the visits
\* that were.
Exact(report, from, to) ==
    /\ report.documents + Len(report.skipped) = to - from + 1
    /\ report.chunks = Cardinality({c \in stored : c.visit \in (from .. to) \ passed})
    /\ {report.skipped[i] : i \in DOMAIN report.skipped}
           = {visits[v] : v \in passed \cap (from .. to)}

\* Every report logged is exact, and the one under way is exact about the visits
\* that are over.  Besides the chunks of the documents counted, the collection has
\* at most some of a document that was skipped after it was loaded, and of the one
\* that was being indexed when the program ended: none of a file that cannot be
\* loaded, and none that is still to be indexed.
ReportAccurate ==
    /\ \A i \in DOMAIN reported : Exact(reported[i].tally, reported[i].from, reported[i].to)
    /\ stage \in {"batch", "aborted"} => Exact(tally, first, Over)
    /\ \A c \in stored : c.visit \in passed => ~Rejected(File(visits[c.visit]))
    /\ \A c \in stored : c.visit <= Over \/ (stage = "aborted" /\ c \in made)

\* A chunk is cited with where its text is in the file: the nearest title above
\* it, the page it is on; and no text of a file is in two segments or in none
\* (a Markdown file of headings only is one segment).
NearestProvenance ==
    /\ \A c \in made \cup stored : \A i \in c.items :
           LET file == File(visits[c.visit])
           IN  /\ Body(file) # {} => c.section_title = NearestTitle(file, i)
               /\ c.page_number = PageOf(file, i)
    /\ \A path \in DOMAIN disk.files :
           LET file == File(path)
           IN  ~Rejected(file) /\ ~Breaks(file) => \A i \in Body(file) :
                   Cardinality({s \in DOMAIN Segments(file) : i \in Segments(file)[s].items}) = 1
=============================================================================
