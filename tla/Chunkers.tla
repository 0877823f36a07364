------------------------------ MODULE Chunkers ------------------------------
(***************************************************************************)
(* The Chunker protocol (ingestion/base.py): a segment is given to one of  *)
(* the strategies of ChunkStrategy, which cuts it into chunks.  The        *)
(* strategies share nothing; the ones not chosen are at rest.              *)
(***************************************************************************)
EXTENDS RecursiveChunker

CONSTANTS
    MaxLength,       \* bound: the longest segment of FixedSizeChunker
    MaxTokens,       \* max_tokens of SemanticChunker
    Percent,         \* 100 - threshold_percentile
    SemanticInputs   \* segments of SemanticChunker

ASSUME BoundAssumption == MaxLength \in Nat

\* SemanticChunker.__init__ raises unless 0 <= threshold_percentile <= 100.
ASSUME PercentAssumption == MaxTokens \in Nat /\ Percent \in 0 .. 100

\* What split_sentences and _cosine deliver, for a segment with text.
ASSUME SemanticAssumption ==
    \A x \in SemanticInputs :
        /\ x.ends \in Seq(Nat) /\ x.sim \in Seq(Int)
        /\ x.ends # <<>> /\ Len(x.sim) = Len(x.ends) - 1

VARIABLES
    strategy,                                         \* ChunkStrategy
    length, unknown, pieces, start, running, windows, \* FixedSizeChunker
    segment, sentence, opening, done, topics          \* SemanticChunker

Fixed == INSTANCE FixedSizeChunker WITH chunks <- windows
Semantic == INSTANCE SemanticChunker WITH
    Inputs <- SemanticInputs, input <- segment, first <- opening, chunks <- topics

Nothing == length = 0 /\ unknown = {} /\ pieces = {}
OneSentence == segment = [ends |-> <<1>>, sim |-> <<>>]

\* One of the strategies is given a segment; the others are at rest.
ChunkersInit ==
    /\ Begin /\ Fixed!Begin /\ Semantic!Begin
    /\ \/ strategy = "recursive" /\ input \in Inputs /\ Nothing /\ OneSentence
       \/ strategy = "fixed" /\ input = BlankSegment /\ Fixed!Init /\ OneSentence
       \/ strategy = "semantic" /\ input = BlankSegment /\ Nothing /\ segment \in SemanticInputs

recursiveVars == vars
fixedVars == <<length, unknown, pieces, start, running, windows>>
semanticVars == <<segment, sentence, opening, done, topics>>
chunkersVars == <<strategy, recursiveVars, fixedVars, semanticVars>>

ChunkersNext ==
    /\ UNCHANGED strategy
    /\ \/ strategy = "recursive" /\ Next /\ UNCHANGED <<fixedVars, semanticVars>>
       \/ strategy = "fixed" /\ Fixed!Next /\ UNCHANGED <<recursiveVars, semanticVars>>
       \/ strategy = "semantic" /\ Semantic!Next /\ UNCHANGED <<recursiveVars, fixedVars>>

ChunkersSpec == ChunkersInit /\ [][ChunkersNext]_chunkersVars

-----------------------------------------------------------------------------
(* What each strategy promises.                                            *)

\* Every loop keeps the types of its variables.
TypesOK ==
    /\ strategy \in {"fixed", "recursive", "semantic"}
    /\ TypeOK
    /\ Fixed!TypeOK
    /\ Semantic!TypeOK

\* FixedSizeChunker: every token that has a text is in a window, no window is
\* part of another, and only the marker of a divided word exceeds the budget.
WindowsCover == Fixed!WindowsCover

\* SemanticChunker: every sentence is in one chunk, in order, and only one too
\* long by itself exceeds the budget.
SentencesChunked == Semantic!SentencesChunked

\* SemanticChunker: breaks are where the percentile or the budget asks.
BreaksAtShifts == Semantic!BreaksAtShifts
=============================================================================
