------------------------------- MODULE Corpus -------------------------------
(***************************************************************************)
(* Ingest and segmentation of documents that change (pipeline/s1_ingest.py,*)
(* s2_segment.py, store/repo.py).  A file's text under its URI is a        *)
(* document; a changed file is a new document and the old one is           *)
(* superseded.  A document is cut into chunks; a chunk whose exact text an *)
(* accepted chunk of another document already has is not made: the         *)
(* document occurs in that chunk, once for each place it has the text in.  *)
(* Chunks a document no longer carries move to a document that occurs in   *)
(* them, or are superseded.                                                *)
(*                                                                         *)
(* One `build` or `update` runs at a time: ingest, then segment, each with *)
(* its items as concurrent tasks that first read and later commit (one     *)
(* transaction, taken as serial).  Files change at any time.  Claims,      *)
(* attempts and leases are in Ledger; an item here is done or is not.      *)
(***************************************************************************)
EXTENDS Integers, FiniteSets, Sequences

CONSTANTS
    Files,       \* source URIs
    Versions,    \* Versions[f]: the texts file f goes through, in order
    Parts,       \* the places of a text that become chunks
    Wording,     \* Wording[x]: what part x says
    Sections,    \* Sections[v][t]: the parts text t is cut into under Registry version v
    IngestDeps,  \* IngestDeps[v]: the hash of what ingest depends on in version v
    SegmentDeps, \* the same for segmentation
    Workers,     \* Workers[v]: run.concurrency.segment in version v
    OutOfScope,  \* texts that triage parks
    Injected,    \* parts whose chunk check finds an injection
    Faults,      \* the kinds of fault this instance allows
    MaxFaults,   \* bound on their number
    NoText,      \* the file does not exist (yet)
    NoChunk,
    Idle         \* the task has read nothing yet

TextsOf(f) == {Versions[f][n] : n \in DOMAIN Versions[f]} \ {NoText}
Texts == UNION {TextsOf(f) : f \in Files}
Docs == UNION {{f} \X TextsOf(f) : f \in Files}  \* doc_id is a hash of the text and the URI
Chunks == Docs \X Parts    \* chunk_id is a hash of the document, the units and their text

ASSUME CorpusAssumption ==
    /\ \A f \in Files : Versions[f] \in Seq(Texts \cup {NoText}) /\ Versions[f] # <<>>
    /\ Sections \in Seq([Texts -> SUBSET Parts]) /\ Sections # <<>>
    /\ \A deps \in {IngestDeps, SegmentDeps, Workers} : deps \in [DOMAIN Sections -> Nat \ {0}]
    /\ \A v, w \in DOMAIN Sections : SegmentDeps[v] = SegmentDeps[w] => Sections[v] = Sections[w]
    /\ Wording = [x \in Parts |-> Wording[x]]
    /\ OutOfScope \subseteq Texts /\ Injected \subseteq Parts
    /\ Faults \subseteq {"fail", "crash"} /\ MaxFaults \in Nat
    /\ NoChunk \notin Chunks

VARIABLES
    at,        \* at[f]: the version of file f on disk
    registry,  \* the active Registry version
    doc,       \* doc[d]: status of the documents row
    chunk,     \* chunk[c]: the chunks row
    uses,      \* uses[d][x]: the chunk_occurrences row for part x of document d
    ingested,  \* ingested[f]: the input hash for which file f's ledger item is done, if it is
    segmented, \* segmented[d]: the same for document d and segmentation, or 0
    phase,     \* the stage the build is in
    todo,      \* its unfinished items: <<file, text enumerated>>, or documents
    reading,   \* reading[f]: what the ingest task of file f has read, and if it has a duplicate
    reusing,   \* reusing[d]: the chunks the segmentation task of document d has found
    failed,    \* an item of this stage run failed
    faults     \* faults so far

ledger == <<ingested, segmented>>
graph == <<doc, chunk, uses>>
build == <<phase, todo, reading, reusing, failed>>
vars == <<at, registry, graph, ledger, build, faults>>

Reads == [text : Texts, dup : {"not asked", "no", "yes"}]
Occurrences == [Parts -> Chunks \cup {NoChunk}]
Rows == [status : {"absent", "accepted", "rejected", "superseded"}, owner : Docs, settled : BOOLEAN]

TypeOK ==
    /\ \A f \in Files : at[f] \in DOMAIN Versions[f]
    /\ registry \in DOMAIN Sections
    /\ doc \in [Docs -> {"absent", "accepted", "duplicate", "parked", "superseded"}]
    /\ chunk \in [Chunks -> Rows]
    /\ \A d \in Docs : uses[d] \in Occurrences
    /\ \A f \in Files : ingested[f] \in (Texts \cup {NoText}) \X Nat
    /\ segmented \in [Docs -> Nat]
    /\ phase \in {"idle", "ingest", "segment"}
    /\ todo \subseteq Docs
    /\ reading \in [Files -> Reads \cup {Idle}]
    /\ \A d \in Docs : reusing[d] = Idle \/ reusing[d] \in Occurrences
    /\ failed \in BOOLEAN
    /\ faults \in 0..MaxFaults

NotDone == <<NoText, 0>>
AllIdle == reading = [f \in Files |-> Idle] /\ reusing = [d \in Docs |-> Idle]

Init ==
    /\ at = [f \in Files |-> 1]
    /\ registry = 1
    /\ doc = [d \in Docs |-> "absent"]
    /\ chunk = [c \in Chunks |-> [status |-> "absent", owner |-> c[1], settled |-> FALSE]]
    /\ uses = [d \in Docs |-> [x \in Parts |-> NoChunk]]
    /\ ingested = [f \in Files |-> NotDone]
    /\ segmented = [d \in Docs |-> 0]
    /\ phase = "idle"
    /\ todo = {}
    /\ AllIdle
    /\ failed = FALSE
    /\ faults = 0

-----------------------------------------------------------------------------
Text(f) == Versions[f][at[f]]
SectionsOf(d) == Sections[registry][d[2]]
Live(c) == chunk[c].status \in {"accepted", "rejected"}
LiveChunksOf(docs) == {c \in Chunks : Live(c) /\ chunk[c].owner \in docs}
Says(c, x) == Wording[c[2]] = Wording[x]

(* A document with the same text under another URI; it need not be accepted.  *)
HasDuplicate(d) ==
    \E e \in Docs : e # d /\ e[2] = d[2] /\ doc[e] \notin {"absent", "superseded"}

(* _reusable: accepted chunks with the text of part x, of other accepted      *)
(* documents and of a finished segmentation.                                  *)
Reusable(d, x) ==
    {c \in Chunks :
        /\ Says(c, x) /\ chunk[c].status = "accepted" /\ chunk[c].settled
        /\ chunk[c].owner # d /\ doc[chunk[c].owner] = "accepted"}

(* What segmentation of document d finds: for one text the first of them by   *)
(* ID, if any, in all places that have the text.                              *)
Found(d) ==
    [x \in Parts |-> IF x \in SectionsOf(d) /\ Reusable(d, x) # {}
                     THEN CHOOSE c \in Reusable(d, x) : TRUE ELSE NoChunk]

(* Regressions of the rules below: retired chunks move to documents that are  *)
(* no longer accepted; or never move.                                         *)
HeirsOfAnyStatus(c, docs) == {e \in Docs : \E x \in Parts : uses[e][x] = c}
MovedNever(gone, docs) == {}

(* retire_chunks(gone), where the documents have the statuses docs: a chunk   *)
(* moves to the first accepted document that occurs in it, and to its first   *)
(* place there, which no longer needs the occurrence; further places of the   *)
(* same text keep theirs.  The others are superseded.                         *)
Heirs(c, docs) == {e \in Docs : docs[e] = "accepted" /\ \E x \in Parts : uses[e][x] = c}
Heir(c, docs) == CHOOSE e \in Heirs(c, docs) : TRUE
PlaceIn(e, c) == CHOOSE x \in Parts : uses[e][x] = c
Moved(gone, docs) == {c \in gone : Heirs(c, docs) # {}}

RetiredChunks(gone, docs) ==
    [c \in Chunks |->
        IF c \notin gone THEN chunk[c]
        ELSE IF c \in Moved(gone, docs) THEN [chunk[c] EXCEPT !.owner = Heir(c, docs)]
        ELSE [chunk[c] EXCEPT !.status = "superseded"]]

RetiredUses(gone, docs) ==
    [e \in Docs |-> [x \in Parts |->
        IF \E c \in Moved(gone, docs) : e = Heir(c, docs) /\ x = PlaceIn(e, c)
        THEN NoChunk ELSE uses[e][x]]]

-----------------------------------------------------------------------------
(* The file is written, replaced or removed. *)
Edit(f) ==
    /\ at[f] < Len(Versions[f])
    /\ at' = [at EXCEPT ![f] = @ + 1]
    /\ UNCHANGED <<registry, graph, ledger, build, faults>>

(* Another Registry version is activated; a build runs with the one it loaded. *)
ChangeRegistry ==
    /\ phase = "idle"
    /\ registry + 1 \in DOMAIN Sections
    /\ registry' = registry + 1
    /\ UNCHANGED <<at, graph, ledger, build, faults>>

(* Regression: the hash of the file as it is when the item is done.           *)
HashAsItIs(item) == <<Text(item[1]), IngestDeps[registry]>>

(* The input hash of an item, from the text that was enumerated.              *)
Hash(item) == <<item[2], IngestDeps[registry]>>

(* The files there are whose item is not done for their text.                 *)
ToIngest(given) == {f \in given : Text(f) # NoText /\ ingested[f] # Hash(<<f, Text(f)>>)}

(* A build or update of some of the files selects those that are new or       *)
(* changed.                                                                   *)
StartIngest(given) ==
    /\ phase = "idle"
    /\ phase' = "ingest"
    /\ todo' = {<<f, Text(f)>> : f \in ToIngest(given)}
    /\ failed' = FALSE
    /\ UNCHANGED <<at, registry, graph, ledger, reading, reusing, faults>>

(* The claim, and the parse: IngestStage.process reads the text the file has  *)
(* now.  A claimed item is not done for any hash.                             *)
ReadFile(f) ==
    /\ phase = "ingest"
    /\ \E item \in todo : item[1] = f
    /\ reading[f] = Idle /\ Text(f) # NoText
    /\ reading' = [reading EXCEPT ![f] = [text |-> Text(f), dup |-> "not asked"]]
    /\ ingested' = [ingested EXCEPT ![f] = NotDone]
    /\ UNCHANGED <<at, registry, graph, segmented, phase, todo, reusing, failed, faults>>

(* The rest of it up to its writer: the query for a duplicate.                *)
LookForDuplicate(f) ==
    /\ phase = "ingest" /\ reading[f] # Idle /\ reading[f].dup = "not asked"
    /\ reading' = [reading EXCEPT ![f].dup = IF HasDuplicate(<<f, reading[f].text>>) THEN "yes" ELSE "no"]
    /\ UNCHANGED <<at, registry, graph, ledger, phase, todo, reusing, failed, faults>>

(* The writer of IngestStage, with the item's completion.                     *)
CommitDocument(f) ==
    \E item \in todo :
        LET d == <<f, reading[f].text>>
            old == {e \in Docs : e[1] = f /\ e # d /\ doc[e] # "absent"}
            docs == [e \in Docs |-> IF e \in old THEN "superseded" ELSE doc[e]]
            gone == LiveChunksOf(old)
            status == IF reading[f].dup = "yes" THEN "duplicate"
                      ELSE IF d[2] \in OutOfScope THEN "parked" ELSE "accepted"
        IN  /\ phase = "ingest" /\ item[1] = f /\ reading[f] # Idle /\ reading[f].dup # "not asked"
            /\ doc' = [docs EXCEPT ![d] = status]
            /\ chunk' = RetiredChunks(gone, docs)
            /\ uses' = RetiredUses(gone, docs)
            /\ ingested' = [ingested EXCEPT ![f] = Hash(item)]
            /\ todo' = todo \ {item}
            /\ reading' = [reading EXCEPT ![f] = Idle]
            /\ UNCHANGED <<at, registry, segmented, phase, reusing, failed, faults>>

(* Parsing or triage fails: always when the file has gone, else by a fault.   *)
FailIngest(f) ==
    /\ phase = "ingest"
    /\ \E item \in todo : item[1] = f /\ todo' = todo \ {item}
    /\ \/ Text(f) = NoText /\ reading[f] = Idle /\ UNCHANGED faults
       \/ "fail" \in Faults /\ faults < MaxFaults /\ faults' = faults + 1
    /\ reading' = [reading EXCEPT ![f] = Idle]
    /\ ingested' = [ingested EXCEPT ![f] = NotDone]
    /\ failed' = TRUE
    /\ UNCHANGED <<at, registry, graph, segmented, phase, reusing>>

(* Segmentation selects the accepted documents it has not done.               *)
StartSegment ==
    /\ phase = "ingest" /\ todo = {}
    /\ phase' = "segment"
    /\ todo' = {d \in Docs : doc[d] = "accepted" /\ segmented[d] # SegmentDeps[registry]}
    /\ failed' = FALSE
    /\ UNCHANGED <<at, registry, graph, ledger, reading, reusing, faults>>

(* `update` goes no further when an item of ingest failed.                    *)
StopUpdate ==
    /\ phase = "ingest" /\ todo = {} /\ failed
    /\ phase' = "idle"
    /\ UNCHANGED <<at, registry, graph, ledger, todo, reading, reusing, failed, faults>>

(* The claim, and SegmentStage.process up to the question Jev is asked.       *)
ReadDocument(d) ==
    /\ phase = "segment" /\ d \in todo /\ reusing[d] = Idle
    /\ Cardinality({e \in Docs : reusing[e] # Idle}) < Workers[registry]
    /\ reusing' = [reusing EXCEPT ![d] = Found(d)]
    /\ segmented' = [segmented EXCEPT ![d] = 0]
    /\ UNCHANGED <<at, registry, graph, ingested, phase, todo, reading, failed, faults>>

(* The chunks of its own that document d gets.  A row there was keeps its     *)
(* owner and the run that made it.                                            *)
OwnChunks(d) == {c \in Chunks : c[1] = d /\ c[2] \in SectionsOf(d) /\ reusing[d][c[2]] = NoChunk}

Upserted(own, rows) ==
    [c \in Chunks |->
        IF c \in own
        THEN [rows[c] EXCEPT !.status = IF c[2] \in Injected THEN "rejected" ELSE "accepted"]
        ELSE rows[c]]

(* The writer of SegmentStage: what the task read may be stale by now.        *)
CommitChunks(d) ==
    LET own == OwnChunks(d)
        stale == LiveChunksOf({d}) \ own
    IN  /\ phase = "segment" /\ d \in todo /\ reusing[d] # Idle
        /\ chunk' = Upserted(own, RetiredChunks(stale, doc))
        /\ uses' = [RetiredUses(stale, doc) EXCEPT ![d] = reusing[d]]
        /\ segmented' = [segmented EXCEPT ![d] = SegmentDeps[registry]]
        /\ todo' = todo \ {d}
        /\ reusing' = [reusing EXCEPT ![d] = Idle]
        /\ UNCHANGED <<at, registry, doc, ingested, phase, reading, failed, faults>>

(* The chunk check fails; nothing is written. *)
FailSegment(d) ==
    /\ phase = "segment" /\ reusing[d] # Idle
    /\ "fail" \in Faults /\ faults < MaxFaults
    /\ faults' = faults + 1
    /\ todo' = todo \ {d}
    /\ reusing' = [reusing EXCEPT ![d] = Idle]
    /\ failed' = TRUE
    /\ UNCHANGED <<at, registry, graph, ledger, phase, reading>>

(* finish_run: when no item failed, the chunks of this run and of every       *)
(* earlier one are those of a finished segmentation.                          *)
FinishSegment ==
    /\ phase = "segment" /\ todo = {}
    /\ phase' = "idle"
    /\ chunk' = IF failed THEN chunk
                ELSE [c \in Chunks |-> [chunk[c] EXCEPT !.settled = chunk[c].status # "absent"]]
    /\ UNCHANGED <<at, registry, doc, uses, ingested, segmented, todo, reading, reusing, failed, faults>>

(* The process is killed, or the run stops and its items are released.        *)
Crash ==
    /\ phase # "idle"
    /\ "crash" \in Faults /\ faults < MaxFaults
    /\ faults' = faults + 1
    /\ phase' = "idle" /\ todo' = {}
    /\ reading' = [f \in Files |-> Idle] /\ reusing' = [d \in Docs |-> Idle]
    /\ UNCHANGED <<at, registry, graph, ledger, failed>>

StageStep ==
    \/ \E f \in Files : ReadFile(f) \/ LookForDuplicate(f) \/ CommitDocument(f) \/ FailIngest(f)
    \/ \E d \in Docs : ReadDocument(d) \/ CommitChunks(d) \/ FailSegment(d)
    \/ StartSegment \/ FinishSegment \/ StopUpdate

Next ==
    \/ StageStep
    \/ \E given \in SUBSET Files : StartIngest(given)
    \/ \E f \in Files : Edit(f)
    \/ ChangeRegistry \/ Crash

Spec == Init /\ [][Next]_vars

-----------------------------------------------------------------------------
(* Properties *)

(* An accepted document whose segmentation is up to date has every part of    *)
(* its text in the graph: in a chunk of its own, or in one it occurs in that  *)
(* no other document's change has taken away.                                 *)
SectionsCarried ==
    \A d \in Docs : doc[d] = "accepted" /\ segmented[d] = SegmentDeps[registry] =>
        \A x \in SectionsOf(d) : \E c \in Chunks :
            Says(c, x) /\ Live(c) /\ (chunk[c].owner = d \/ uses[d][x] = c)

(* A document that has the same words in two places.                          *)
SaysTwice(d, words) ==
    \E x, y \in UNION {Sections[v][d[2]] : v \in DOMAIN Sections} :
        x # y /\ Wording[x] = words /\ Wording[y] = words

(* Nothing is left of texts that were replaced: a chunk in the graph belongs  *)
(* to an accepted document, and once that one is segmented again the chunk is *)
(* one of its parts, which it has only once - unless the document repeats the *)
(* text: a chunk handed on to it keeps its other occurrences there, and when  *)
(* the document is cut again these hand it on to the document itself          *)
(* (repo.py:112).                                                             *)
NothingLeftOver ==
    /\ TypeOK
    /\ \A c \in Chunks : Live(c) =>
           LET d == chunk[c].owner IN
           /\ doc[d] = "accepted"
           /\ segmented[d] = SegmentDeps[registry] /\ ~SaysTwice(d, Wording[c[2]]) =>
                /\ \E x \in SectionsOf(d) : Says(c, x) /\ uses[d][x] = NoChunk
                /\ \A e \in LiveChunksOf({d}) : Says(e, c[2]) => e = c

(* The file's present text is a document, the only one of its URI, and if it  *)
(* is accepted it is segmented.                                               *)
UpToDate(f) ==
    LET d == <<f, Text(f)>> IN
    /\ doc[d] \in {"accepted", "duplicate", "parked"}
    /\ doc[d] = "accepted" => segmented[d] = SegmentDeps[registry]
    /\ \A e \in Docs : e[1] = f /\ e # d => doc[e] \in {"absent", "superseded"}

(* README: a changed document replaces the old version.  When the files stop  *)
(* changing, builds that are run again bring the graph up to date with every  *)
(* file there is, whatever was edited, failed or killed while they read it.   *)
GraphCatchesUp == <>[](\A f \in Files : Text(f) # NoText => UpToDate(f))

=============================================================================
