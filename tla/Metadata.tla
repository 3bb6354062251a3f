------------------------------- MODULE Metadata -------------------------------
(***************************************************************************)
(* The values of one metadata key (a release, say) on documents and their  *)
(* chunks: segmentation gives a chunk the values its document carries, or  *)
(* those its text names, or those Jev says it applies to, and merges them  *)
(* into the chunks the document reuses (pipeline/s2_segment.py); a refresh *)
(* computes them again without Jev (pipeline/refresh_meta.py).             *)
(*                                                                         *)
(* Documents are segmented as concurrent tasks that read, then commit.  A  *)
(* refresh reads everything, then writes in one transaction.  A list of    *)
(* values is a set: their order is no change to either.                    *)
(***************************************************************************)
EXTENDS Integers, FiniteSets

CONSTANTS
    Pages,      \* documents
    Passages,   \* chunks
    Owner,      \* Owner[c]: the document whose chunk it is
    Reuses,     \* Reuses[d]: the chunks of other documents that document d repeats
    Values,     \* values of the key, known to the corpus or not
    Extends,    \* <<specific, broader>>: "9.1.1" extends "9.1"
    Tokens,     \* Tokens[d]: the values in the text of document d
    FileValues, \* values a parser may read in a file; {}: none
    MaxReads    \* bound on parsers that come to read more

MetadataAssumption ==
    /\ Owner \in [Passages -> Pages] /\ Reuses \in [Pages -> SUBSET Passages]
    /\ \A d \in Pages : \A c \in Reuses[d] : Owner[c] # d
    /\ Tokens \in [Pages -> SUBSET Values] /\ FileValues \subseteq SUBSET Values
    /\ Extends \subseteq Values \X Values
    /\ MaxReads \in Nat

VARIABLES
    file,       \* file[d]: the values the present parser reads in the file
    docMeta,    \* docMeta[d]: documents.meta
    chunkMeta,  \* chunkMeta[c]: chunks.meta
    cut,        \* documents segmented
    settled,    \* those of a finished segmentation run
    deriving,   \* deriving[d]: what the segmentation task has read, or {}
    derivable,  \* Jev: the values are categories a text can name
    applied,    \* applied[d]: Jev: the values the text applies to
    refresh,    \* what the running refresh will write, or {}
    reads,
    clean       \* history: a refresh was applied, and nothing happened since it read

Init ==
    /\ file \in [Pages -> FileValues]
    /\ docMeta = file
    /\ chunkMeta = [c \in Passages |-> {}]
    /\ cut = {}
    /\ settled = {}
    /\ deriving = [d \in Pages |-> {}]
    /\ derivable \in BOOLEAN
    /\ applied = [d \in Pages |-> {}]
    /\ refresh = {}
    /\ reads = 0
    /\ clean = FALSE

Own(d) == {c \in Passages : Owner[c] = d}
Carriers(c) == {Owner[c]} \cup {d \in Pages : c \in Reuses[d]}
Known(metas) == UNION {metas[d] : d \in Pages}

TypeOK ==
    /\ file \in [Pages -> FileValues] /\ docMeta \in [Pages -> FileValues]
    /\ chunkMeta \in [Passages -> SUBSET Values]
    /\ settled \subseteq cut /\ cut \subseteq Pages
    /\ \A c \in Passages : chunkMeta[c] # {} => Owner[c] \in cut
    /\ \A d \in Pages : deriving[d] # {} => d \notin cut
    /\ applied \in [Pages -> SUBSET Values]
    /\ reads \in 0..MaxReads

-----------------------------------------------------------------------------
(* A value the corpus does not know names the most specific one it extends. *)
Nearest(v, known) ==
    {w \in known : <<v, w>> \in Extends /\ \A x \in known : <<v, x>> \in Extends => x = w \/ <<w, x>> \in Extends}

NamedValues(d, known) == (Tokens[d] \cap known) \cup UNION {Nearest(v, known) : v \in Tokens[d] \ known}

WithParents(given, known) == given \cup {w \in known : \E v \in given : <<v, w>> \in Extends}

(* Documents are segmented once the chunks they repeat are of a finished run; *)
(* a key the document lacks is derived if Jev says it can be.                 *)
ReadPage(d) ==
    /\ d \notin cut /\ deriving[d] = {}
    /\ \A c \in Reuses[d] : Owner[c] \in settled
    /\ \E says \in SUBSET Known(docMeta) :
         LET known == Known(docMeta)
             named == NamedValues(d, known)
             asked == docMeta[d] = {} /\ derivable /\ named = {}
             given == IF docMeta[d] # {} THEN docMeta[d]
                      ELSE IF ~derivable THEN {} ELSE IF asked THEN says ELSE named
         IN  /\ ~asked => says = {}
             /\ applied' = [applied EXCEPT ![d] = says]
             /\ deriving' = [deriving EXCEPT ![d] =
                    {[meta |-> WithParents(given, known), prior |-> [c \in Reuses[d] |-> chunkMeta[c]]]}]
    /\ UNCHANGED <<file, docMeta, chunkMeta, cut, settled, derivable, refresh, reads, clean>>

(* The writer: own chunks, and the reused ones as they were when it read them. *)
CommitPage(d) ==
    \E r \in deriving[d] :
        /\ chunkMeta' = [c \in Passages |->
                IF c \in Own(d) THEN r.meta
                ELSE IF c \in Reuses[d] /\ ~(r.meta \subseteq r.prior[c]) THEN r.prior[c] \cup r.meta
                ELSE chunkMeta[c]]
        /\ cut' = cut \cup {d}
        /\ deriving' = [deriving EXCEPT ![d] = {}]
        /\ clean' = FALSE
        /\ UNCHANGED <<file, docMeta, settled, derivable, applied, refresh, reads>>

FinishRun ==
    /\ settled # cut /\ \A d \in Pages : deriving[d] = {}
    /\ settled' = cut
    /\ UNCHANGED <<file, docMeta, chunkMeta, cut, deriving, derivable, applied, refresh, reads, clean>>

(* A parser that now reads more. *)
ReadMore(d) ==
    /\ reads < MaxReads
    /\ reads' = reads + 1
    /\ \E vs \in FileValues : file[d] \subseteq vs /\ vs # file[d] /\ file' = [file EXCEPT ![d] = vs]
    /\ clean' = FALSE
    /\ UNCHANGED <<docMeta, chunkMeta, cut, settled, deriving, derivable, applied, refresh>>

-----------------------------------------------------------------------------
(* Regression: derived values are only what the text names. *)
HadNothing(d, c) == {}

(* The values already there: those of whichever of its chunks comes first. *)
Had(d, c) == IF c \in Own(d) THEN chunkMeta[c] ELSE {}

(* What the refresh finds for a document whose first chunk is c. *)
Refreshed(d, c) ==
    LET known == Known(file)
        missing == \E x \in Passages : chunkMeta[x] # {} /\ docMeta[Owner[x]] = {}
    IN  IF file[d] # {} THEN WithParents(file[d], known)
        ELSE IF missing THEN WithParents(Had(d, c) \cup NamedValues(d, known), known) ELSE {}

(* Regression: a chunk has the values of its own document. *)
MergedOwn(c, metas) == metas[Owner[c]]

(* merge_meta over the documents that carry the chunk. *)
Merged(c, metas) == UNION {metas[d] : d \in Carriers(c) \cap (cut \cup {Owner[c]})}

Refresh ==
    /\ refresh = {}
    /\ \E first \in [Pages -> Passages] :
         /\ \A d \in Pages : Own(d) # {} => Owner[first[d]] = d
         /\ LET metas == [d \in Pages |-> Refreshed(d, first[d])]
                made == {c \in Passages : Owner[c] \in cut}
            IN  refresh' = {[docs |-> file,
                             chunks |-> [c \in {x \in made : Merged(x, metas) # chunkMeta[x]} |-> Merged(c, metas)]]}
    /\ clean' = TRUE
    /\ UNCHANGED <<file, docMeta, chunkMeta, cut, settled, deriving, derivable, applied, reads>>

Apply ==
    \E w \in refresh :
        /\ docMeta' = w.docs
        /\ chunkMeta' = [c \in Passages |-> IF c \in DOMAIN w.chunks THEN w.chunks[c] ELSE chunkMeta[c]]
        /\ refresh' = {}
        /\ UNCHANGED <<file, cut, settled, deriving, derivable, applied, reads, clean>>

Next ==
    \/ \E d \in Pages : ReadPage(d) \/ CommitPage(d) \/ ReadMore(d)
    \/ FinishRun \/ Refresh \/ Apply

-----------------------------------------------------------------------------
(* refresh_meta.py "an earlier Jev decision is kept, never re-asked": what Jev *)
(* said a document applies to is on each of its own chunks for as long as the  *)
(* document carries no values of its own, whatever is refreshed beside it.     *)
JevDecisionsStay ==
    /\ TypeOK
    /\ \A d \in cut : docMeta[d] = {} => \A c \in Own(d) : applied[d] \subseteq chunkMeta[c]

(* "A chunk reused by several documents carries the metadata of each": once a  *)
(* refresh nothing interfered with was applied - also when the documents were  *)
(* segmented at once and overwrote each other's values.                        *)
ChunksCarryEach ==
    clean /\ refresh = {} =>
        \A c \in Passages : Owner[c] \in cut =>
            \A d \in Carriers(c) \cap cut : docMeta[d] \subseteq chunkMeta[c]

=============================================================================
