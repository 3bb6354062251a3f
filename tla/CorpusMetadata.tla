--------------------------- MODULE CorpusMetadata ---------------------------
(***************************************************************************)
(* The two sides of ingest and segmentation: which chunks a document has   *)
(* (Corpus), and which metadata they carry (Metadata).  Neither reads what *)
(* the other writes, so an instance runs one of them.                      *)
(***************************************************************************)
EXTENDS Corpus

CONSTANTS Pages, Passages, Owner, Reuses, Values, Extends, Tokens, FileValues, MaxReads

VARIABLES
    side,   \* the side that runs
    file, docMeta, chunkMeta, cut, settled, deriving, derivable, applied, refresh, reads, clean

Meta == INSTANCE Metadata

ASSUME MetadataAssumption == Meta!MetadataAssumption

metaVars == <<file, docMeta, chunkMeta, cut, settled, deriving, derivable, applied, refresh, reads, clean>>
sideVars == <<vars, side, metaVars>>

InitSides ==
    /\ side \in {"chunks", "metadata"}
    /\ Init /\ Meta!Init
    /\ side = "chunks" => file = [d \in Pages |-> {}] /\ ~derivable

NextChunks == side = "chunks" /\ Next /\ UNCHANGED <<side, metaVars>>
NextMetadata == side = "metadata" /\ Meta!Next /\ UNCHANGED <<side, vars>>

SidesSpec ==
    /\ InitSides
    /\ [][NextChunks \/ NextMetadata]_sideVars
    /\ WF_sideVars(side = "chunks" /\ StageStep /\ UNCHANGED <<side, metaVars>>)
    /\ SF_sideVars(side = "chunks" /\ StartIngest(Files) /\ UNCHANGED <<side, metaVars>>)

-----------------------------------------------------------------------------
(* refresh_meta.py, s2_segment.py: see Metadata. *)
JevDecisionsStay == Meta!JevDecisionsStay
ChunksCarryEach == Meta!ChunksCarryEach

(* README "When a source document changes": builds that are run again bring    *)
(* the graph up to date with the files (Corpus).                               *)
BuildsCatchUp == side = "chunks" => GraphCatchesUp
=============================================================================
