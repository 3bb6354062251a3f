----------------------------- MODULE CloudPublish -----------------------------
(***************************************************************************)
(* cloudflare/publish.py: the graph goes into a D1 database and a          *)
(* Vectorize index named after the version they hold, then one deploy      *)
(* points the Worker at them.  Every step is recorded in a state file as   *)
(* it finishes, so a publish that was cut off is resumed: files written,   *)
(* imported or upserted are skipped.                                       *)
(*                                                                         *)
(* A row is a file of its own.  Every wrangler call and the record of it   *)
(* are two steps, and the build edits the graph beside them.               *)
(***************************************************************************)
EXTENDS Integers, FiniteSets

CONSTANTS
    Graphs,     \* the contents the build may give the graph: what the query path
                \* serves of it, as [chunks, edges, rev]
    MaxEdits,   \* bound on the edits of the build
    MaxKills,   \* bound on the interruptions
    Nothing     \* not recorded; no such resource

VARIABLES
    graph,      \* the served part of the build database
    registry,   \* the version of the Registry that is active
    disk,       \* disk[v]: the version's directory: its state file and its vector files
    top,        \* the state file of the Worker: current and previous version
    cloud,      \* cloud[v]: the D1 database and the Vectorize index of the version
    worker,     \* what the deployed Worker points at
    publishing, \* the running publish
    edits, kills,
    mixed,      \* history: versions whose export saw the graph change under it
    deployed    \* history: versions the Worker has served

cloudVars == <<graph, registry, disk, top, cloud, worker, publishing, edits, kills, mixed, deployed>>

(* _fingerprint: chunk, edge and community IDs, not what their rows say. *)
Version(g) == <<g.chunks, g.edges>>
Versions == {Version(g) : g \in Graphs}

Schema == <<"schema">>
(* _insert: the row of every chunk and edge, as it is when it is read. *)
ChunkRows(g) == {<<"chunk", c, g.rev>> : c \in g.chunks}
EdgeRows(g) == {<<"edge", e, g.rev>> : e \in g.edges}
IdsOf(kind, rows) == {r[2] : r \in {x \in rows : x[1] = kind}}

(* Vector files are named by position: this version's i-th chunk. *)
Ith(S, i) == CHOOSE c \in S : Cardinality({d \in S : d < c}) = i - 1

Fresh == [sql |-> Nothing, imported |-> {}, d1 |-> FALSE, index |-> FALSE,
          vectors |-> <<>>, upserted |-> {}]
Idle == [pc |-> "idle", version |-> Nothing, registry |-> Nothing, rows |-> {}, chunks |-> {}, done |-> Nothing]

ChunkIds == UNION {g.chunks : g \in Graphs}
Files == {Schema} \cup UNION {ChunkRows(g) \cup EdgeRows(g) : g \in Graphs}

(* Chunks have IDs that are ordered, and Nothing is none of what is recorded. *)
ConstantsOK ==
    /\ IsFiniteSet(ChunkIds) /\ ChunkIds \subseteq Int
    /\ MaxEdits \in Nat /\ MaxKills \in Nat
    /\ Nothing \notin Versions \cup Files \cup Nat
    /\ \A F \in SUBSET Files : F # Nothing
    /\ \A C \in SUBSET ChunkIds : C # Nothing

Init ==
    /\ graph \in Graphs
    /\ registry = 0
    /\ disk = [v \in Versions |-> Fresh]
    /\ top = [current |-> Nothing, previous |-> Nothing]
    /\ cloud = [v \in Versions |-> [d1 |-> Nothing, index |-> Nothing]]
    /\ worker = Nothing
    /\ publishing = Idle
    /\ edits = 0
    /\ kills = 0
    /\ mixed = {}
    /\ deployed = {}

TypeOK ==
    /\ graph \in Graphs
    /\ {top.current, top.previous} \cup {publishing.version} \subseteq Versions \cup {Nothing}
    /\ \A v \in Versions :
         /\ DOMAIN disk[v].vectors \cup disk[v].upserted \subseteq 1..Cardinality(ChunkIds)
         /\ disk[v].imported # {} => disk[v].sql # Nothing /\ disk[v].d1
         /\ disk[v].upserted # {} => disk[v].index
    /\ mixed \cup deployed \subseteq Versions

here == publishing.version
Mine == disk[here]
At(s) == publishing.pc = s
Exporting == {"sql", "edges", "d1", "import", "rows"}
Go(s) == publishing' = [publishing EXCEPT !.pc = s]
Recorded(field, value) == disk' = [disk EXCEPT ![here] = [@ EXCEPT ![field] = value]]

-----------------------------------------------------------------------------
(* The build, and a Registry version activated, beside the publish. *)
Edit ==
    /\ edits < MaxEdits
    /\ edits' = edits + 1
    /\ \/ graph' \in Graphs \ {graph} /\ registry' = registry
       \/ graph' = graph /\ registry' = registry + 1
    /\ mixed' = IF publishing.pc \in Exporting /\ Version(graph') # Version(graph)
                THEN mixed \cup {here} ELSE mixed
    /\ UNCHANGED <<disk, top, cloud, worker, publishing, kills, deployed>>

Begin ==
    /\ At("idle")
    /\ publishing' = [Idle EXCEPT !.pc = IF disk[Version(graph)].sql = Nothing THEN "sql" ELSE "d1",
                                  !.version = Version(graph), !.registry = registry]
    /\ UNCHANGED <<graph, registry, disk, top, cloud, worker, edits, kills, mixed, deployed>>

(* _export_sql reads the chunks, then the edges and communities. *)
ReadChunks ==
    /\ At("sql")
    /\ publishing' = [publishing EXCEPT !.pc = "edges", !.rows = ChunkRows(graph)]
    /\ UNCHANGED <<graph, registry, disk, top, cloud, worker, edits, kills, mixed, deployed>>

ExportSql ==
    /\ At("edges")
    /\ Go("d1")
    /\ Recorded("sql", publishing.rows \cup EdgeRows(graph))
    /\ UNCHANGED <<graph, registry, top, cloud, worker, edits, kills, mixed, deployed>>

(* D1 database and index are made when the account does not list them. *)
Create(kind) ==
    /\ At(kind) /\ ~Mine[kind]
    /\ cloud[here][kind] = Nothing
    /\ cloud' = [cloud EXCEPT ![here][kind] = {}]
    /\ UNCHANGED <<graph, registry, disk, top, worker, publishing, edits, kills, mixed, deployed>>

Found(kind) ==
    /\ At(kind)
    /\ Mine[kind] \/ cloud[here][kind] # Nothing
    /\ Go(IF kind = "d1" THEN "import" ELSE "upsert")
    /\ Recorded(kind, TRUE)
    /\ UNCHANGED <<graph, registry, top, cloud, worker, edits, kills, mixed, deployed>>

(* The files of the SQL export, the schema first.  INSERT OR REPLACE. *)
Import(f) ==
    /\ At("import") /\ publishing.done = Nothing
    /\ f \in ({Schema} \cup Mine.sql) \ Mine.imported
    /\ f = Schema \/ Schema \in Mine.imported
    /\ cloud' = [cloud EXCEPT ![here].d1 = @ \cup {f}]
    /\ publishing' = [publishing EXCEPT !.done = f]
    /\ UNCHANGED <<graph, registry, disk, top, worker, edits, kills, mixed, deployed>>

RecordImport ==
    /\ At("import") /\ publishing.done # Nothing
    /\ Recorded("imported", Mine.imported \cup {publishing.done})
    /\ publishing' = [publishing EXCEPT !.done = Nothing]
    /\ UNCHANGED <<graph, registry, top, cloud, worker, edits, kills, mixed, deployed>>

Imported ==
    /\ At("import") /\ publishing.done = Nothing
    /\ {Schema} \cup Mine.sql \subseteq Mine.imported
    /\ Go("rows")
    /\ UNCHANGED <<graph, registry, disk, top, cloud, worker, edits, kills, mixed, deployed>>

(* _export_vectors reads the chunks again and writes the files that are missing. *)
ReadForVectors ==
    /\ At("rows")
    /\ publishing' = [publishing EXCEPT !.pc = "vectors", !.rows = {}, !.chunks = graph.chunks]
    /\ UNCHANGED <<graph, registry, disk, top, cloud, worker, edits, kills, mixed, deployed>>

Positions == 1..Cardinality(publishing.chunks)

WriteVectors(i) ==
    /\ At("vectors")
    /\ i \in Positions \ (DOMAIN Mine.vectors \cup Mine.upserted)
    /\ \A j \in 1..(i - 1) : j \in DOMAIN Mine.vectors \cup Mine.upserted
    /\ LET v == Mine.vectors
           c == Ith(publishing.chunks, i)
       IN  Recorded("vectors", [j \in DOMAIN v \cup {i} |-> IF j = i THEN c ELSE v[j]])
    /\ UNCHANGED <<graph, registry, top, cloud, worker, publishing, edits, kills, mixed, deployed>>

VectorsWritten ==
    /\ At("vectors")
    /\ Positions \subseteq DOMAIN Mine.vectors \cup Mine.upserted
    /\ Go("index")
    /\ UNCHANGED <<graph, registry, disk, top, cloud, worker, edits, kills, mixed, deployed>>

Upsert(i) ==
    /\ At("upsert") /\ publishing.done = Nothing
    /\ i \in Positions \ Mine.upserted
    /\ cloud' = [cloud EXCEPT ![here].index = @ \cup {Mine.vectors[i]}]
    /\ publishing' = [publishing EXCEPT !.done = i]
    /\ UNCHANGED <<graph, registry, disk, top, worker, edits, kills, mixed, deployed>>

RecordUpsert ==
    /\ At("upsert") /\ publishing.done # Nothing
    /\ Recorded("upserted", Mine.upserted \cup {publishing.done})
    /\ publishing' = [publishing EXCEPT !.done = Nothing]
    /\ UNCHANGED <<graph, registry, top, cloud, worker, edits, kills, mixed, deployed>>

(* Regression: the version is recorded as current before the Worker is deployed. *)
UpsertedAsCurrent ==
    /\ At("upsert") /\ publishing.done = Nothing
    /\ Positions \subseteq Mine.upserted
    /\ Go("deploy")
    /\ top' = [current |-> here, previous |-> IF top.current = here THEN top.previous ELSE top.current]
    /\ UNCHANGED <<graph, registry, disk, cloud, worker, edits, kills, mixed, deployed>>

Upserted ==
    /\ At("upsert") /\ publishing.done = Nothing
    /\ Positions \subseteq Mine.upserted
    /\ Go("deploy")
    /\ UNCHANGED <<graph, registry, disk, top, cloud, worker, edits, kills, mixed, deployed>>

(* bundle.build with this run's Registry, the bindings of this version, deploy. *)
Deploy ==
    /\ At("deploy")
    /\ worker' = [version |-> here, registry |-> publishing.registry]
    /\ deployed' = deployed \cup {here}
    /\ publishing' = IF top.current = here THEN Idle ELSE [publishing EXCEPT !.pc = "previous"]
    /\ UNCHANGED <<graph, registry, disk, top, cloud, edits, kills, mixed>>

RecordPrevious ==
    /\ At("previous")
    /\ top' = [top EXCEPT !.previous = top.current]
    /\ Go("current")
    /\ UNCHANGED <<graph, registry, disk, cloud, worker, edits, kills, mixed, deployed>>

RecordCurrent ==
    /\ At("current")
    /\ top' = [top EXCEPT !.current = here]
    /\ publishing' = Idle
    /\ UNCHANGED <<graph, registry, disk, cloud, worker, edits, kills, mixed, deployed>>

(* Killed, or a wrangler call fails; another publish may be run. *)
Kill ==
    /\ kills < MaxKills /\ ~At("idle")
    /\ kills' = kills + 1
    /\ publishing' = Idle
    /\ UNCHANGED <<graph, registry, disk, top, cloud, worker, edits, mixed, deployed>>

Step ==
    \/ Begin \/ ReadChunks \/ ExportSql
    \/ \E kind \in {"d1", "index"} : Create(kind) \/ Found(kind)
    \/ \E f \in Files : Import(f)
    \/ RecordImport \/ Imported \/ ReadForVectors
    \/ \E i \in 1..Cardinality(ChunkIds) : WriteVectors(i) \/ Upsert(i)
    \/ VectorsWritten \/ RecordUpsert \/ Upserted
    \/ Deploy \/ RecordPrevious \/ RecordCurrent

Next == Step \/ Edit \/ Kill

(* Each call returns, and `publish` is run again whenever the graph changes. *)
Spec == Init /\ [][Next]_cloudVars /\ WF_cloudVars(Step)

-----------------------------------------------------------------------------
(* "named after the data they hold": the Worker is only ever pointed at a      *)
(* database and an index that hold the whole of their version and nothing else *)
(* - unless the graph changed while that version was being published.          *)
ServedIsWhole ==
    /\ TypeOK
    /\ worker # Nothing =>
        LET held == cloud[worker.version] IN
        /\ Schema \in held.d1
        /\ worker.version \notin mixed =>
             /\ <<IdsOf("chunk", held.d1), IdsOf("edge", held.d1)>> = worker.version
             /\ held.index = worker.version[1]

(* What is recorded as the version to go back to was once served, in full.     *)
PreviousWasServed ==
    \A v \in {top.current, top.previous} \ {Nothing} : v \in deployed

(* A publish that is rerun lands, however often it is cut off: the Worker ends *)
(* up at the version of the graph as it is, with the Registry that is active.  *)
WorkerCatchesUp ==
    <>[](worker # Nothing /\ worker.version = Version(graph) /\ worker.registry = registry)
=============================================================================
