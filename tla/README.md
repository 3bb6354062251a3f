# jev-graph-builder in TLA+

A verification project for `jev-graph-builder`: TLA+ modules of its concurrent
and crash-prone parts, TLC configurations that check them on small instances,
and TLAPS proofs of what matters most for every size. The reference is the
code under `src/jev_graph_builder/`; paths below are relative to it.

## 1. The system

`jev-graph-builder build` turns documents into a verified graph in PostgreSQL.
A build runs stages S1 to S7; each stage enumerates items with a hash of their
inputs, claims them in a ledger, asks Jev (a paid decision service) or a
coding-agent harness, and commits an item's rows together with its ledger row.
`update` does the same unattended; `train build` writes training examples over
the finished graph; `publish` loads the result into the database that a hosted
query server reads, or into a Cloudflare Worker's.

| part | state it keeps | operations | correct when |
|---|---|---|---|
| ledger and stage runner (`ledger/ledger.py`, `pipeline/common.py`) | `work_items`, `runs`, an advisory lock and heartbeats per run; tasks in memory | reclaim, enumerate, select, claim, complete, fail, release, finish | one worker per item; a completed row means committed outputs; bounded retries; a killed run holds nothing back |
| Jev service (`jev/service.py`, `jev/client.py`) | `jev_calls` cache; shared flights; the credits event | ask, replay, cache read, reuse, pay, store | a call is paid for once; what is cited is what was served; no ask waits for ever |
| rate limiter (`jev/limiter.py`) | two bucket levels, the scale, a lock | acquire, throttled | calls stay within the profile's rates; every acquire returns |
| publish to Postgres (`store/publish.py`) | databases `<name>`, `<name>_next`, `<name>_prev`, a progress table | load, resume, carry sign-ins, swap | what serves is whole; a copy always exists; nobody is signed out; reruns land |
| publish to Cloudflare (`cloudflare/`) | a state file per version and one per Worker, D1, Vectorize | export, upload, resume, deploy | the Worker reads one whole version; reruns land |
| ingest, segment (`pipeline/s1_ingest.py`, `s2_segment.py`, `segment_spans.py`, `store/repo.py`) | documents, units, chunks, occurrences | read, supersede, reuse, retire | every live document has exactly its chunks |
| metadata (`s2_segment.py`, `refresh_meta.py`) | `documents.meta`, `chunks.meta` | derive, merge, refresh | chunks carry the values of their documents; Jev's decisions stay |
| enrich, embed (`s3_enrich.py`, `s4_embed.py`, `grounding.py`) | background jobs, futures; mentions, claims, vectors | jobs per batch, verify, write | no run hangs; a stop costs no attempt |
| harness jobs (`harness/`) | workspaces, sessions, `harness_runs` | run, resume, stop | no valid record lost or asked for again |
| entities (`s5_entities.py`, `unionfind.py`) | pair decisions, `merged_into`, canonical names | decide pairs, merge, name | clusters stand; what is one entity has one root |
| links, audit, evolution (`s6_links.py`, `s7_audit.py`, `evolution.py`) | edges, reopened items, proposed relation types | decide pairs, supersede edges, reopen orphans, evolve | each pair decided once, none forgotten; orphans get their chance |
| build, update, planner (`build.py`, `pipeline/update.py`, `planner.py`) | the report; reopened stages; proposals | phases, gates, rounds | ends with nothing pending, or says so |
| registry versions (`registry/`, `s0_bootstrap.py`, `calibrate/author.py`) | the active tree, `.proposals`, `registry_versions`, `corpora` | draft, stage, approve, activate | tree and rows agree; what was approved lands |
| training, review (`s8_training.py`, `review/queue.py`) | `training_examples`, `review_queue` | generate, derive, retire, deduplicate, split, resolve | splits share nothing; one example per source |
| query (`query/`, `pipeline/citations.py`) | none but the audit rows it writes | search, context, ask | passages were accepted; answers are audited |
| Jev gating (`jev/gating.py`, `pipeline/ontology_checks.py`) | the rounds of a bootstrap | gate, raise the bar, record, gate again in the Worker | one outcome, whoever works it out |
| MCP sign-in, parsers, CLI, calibration, store | little or none | | see "Not modelled" |

Interactions: every stage goes through the ledger; stages call the Jev service
(whose flights pass the limiter) and harness jobs while they hold an item; the
service stores paid calls in transactions of their own, so they survive the
item's failure; the audit and the review queue change rows that alter an item's
input hash; evolution activates Registry versions under a running build;
`publish` reads the tables while a build may still write them, and queries read
a database that a publish replaces.

What is hard here: several processes on one ledger; leases and locks that end
at different moments; a task that outlives its claim; a crash between any two
commits; statements outside a transaction (`publish`, a tree of files, state
files); callbacks and shared futures in one event loop; rounds that send work
back; objects that go and come back under their old IDs; recoveries that run
again and again.

The hazards, each at its line, are listed in `PROJECT.json`.

## 2. Modules

| module | models | checked by |
|---|---|---|
| `Ledger` | the ledger and the stage runner of one stage, any number of runs | `MCLedger` + `MCLedger.cfg`, `MCLedger_faults.cfg` |
| `Checkout` | what the ledger promises: an item is checked out to one run for one hash, and what is published for it is of this hash or of inputs it had while it was out | refined by `Ledger` |
| `JevService` | an ask's way to a paid answer | `MCJevService` |
| `Publish`, `CloudPublish` | the publish to Postgres, to Cloudflare | `MCPublish`, through `PublishTargets` |
| `Corpus`, `Metadata` | ingest and segmentation of documents that change: which chunks a document has; which metadata these carry | `MCCorpus`, through `CorpusMetadata` |
| `HarnessJobs`, `Enrich` | one harness job: its workspace and the calls of `run_job` for it; the enrich stage: jobs in the background, items that wait for them | `MCHarnessWork`, through `HarnessWork` |
| `Build`, `Entities` | links, audit and evolution in the rounds of `build` and `update`; the resolution of entities before them | `MCGraphStages`, through `GraphStages` |
| `Registry` | Registry versions on disk and in the database | `MCRegistry` |
| `Training` | both training stages, and the reviewer | `MCTraining` |
| `Query`, `Gating`, `Limiter` | search, context and ask, read by read; from Jev's answers to an outcome; the two token buckets a call to Jev passes | `MCQuery`, through `Serving` |
| `LedgerProofs`, `PublishProofs`, `CorpusProofs`, `HarnessWorkProofs`, `BuildProofs`, `RegistryProofs`, `TrainingProofs`, `ServingProofs` | theorems about the module of that name and those it is summed with (`CorpusProofs`: also `Metadata`; `BuildProofs`: also `Entities`); `ServingProofs` is about `JevService` and all of `Serving` | tlapm |

`PublishTargets`, `CorpusMetadata`, `HarnessWork`, `GraphStages` and `Serving` are sums:
one variable, chosen by `Init`, says which of two modules runs, and the other
stands still. A deployment has one publish target, so for `PublishTargets` this
is how the program is. The other four put two or three modules under one run that
do not share variables; the header of each says what one takes from the other
(`Enrich` takes a harness call as one step that keeps every valid record,
because `HarnessJobs` shows it). They say nothing about the parts in interleaving.

Operators whose comment begins with *Regression* are not part of a model: each
is a definition as a plausible bug would have it, named in `PROJECT.json` with
the property that catches it.

### Ledger

`row[i]` is item `i`'s `work_items` row: status, input hash, attempts, run, and
`fresh`, whether `updated_at` is within the lease. `input[i]` is the hash the
item's inputs have now, `want[r][i]` the one run `r` enumerated, `got[r][i]` that
of the inputs its task has read, `out[i]` the one whose outputs are committed.
`past[i]` has the hashes that `input[i]` had and left. `owners` are the runs whose
owner connection is up (advisory lock and heartbeat), `work[r][i]` what run `r`'s
task for `i` does.

- `Reclaim`, `Enumerate`, `StartRun` are the three reads and writes before a
  stage's items start, with gaps between them, as in `run_stage`.
- `Claim`/`ClaimRefused` are the upsert of `Ledger.claim`, under the semaphore and
  the recorded stop. `Read` is what `process` reads after the claim: the payload
  that `enumerate` gave the item, or documents, tables and files as they are by
  then. `Commit` is the transaction with the writer and `complete`: the outputs
  are of what was read, the row keeps the hash of the claim. `AfterItemDone` ends
  a task of a stage with an `after_item`.
- `Stop` and `Fail` are the two `except` branches with `release` and `fail`.
- `FinishRun`, `Abort`, `Crash`: `gather` returns; a statement outside
  `run_item`'s `try` raises, and the other tasks go on, the queued ones to claim;
  the process dies.
- `OwnerGone`, `LeaseLapses`: the server's and the clock's part.

`Init` is a stage nobody has run. Run identifiers are never reused (they are
UUIDs), so the number of runs is the bound. Three histories, `past`, `fails` and
`solo`, serve the properties and guard nothing.

Not in the model: `run_single_item` (the same claim, complete and fail, for one
item), `prepare`'s batches (they only change the order in which items start),
`dry_run`, and the texts of errors and reports.

### JevService

A key stands for a cache key. `flight[p][l]` is process `p`'s call in lane `l`:
a key's shared flight, or the one lane for drift samples, which `replay` sends
past cache and flights. `store[k]` is the `jev_calls` row, `credits[p]` the
event that is cleared while the account is empty, `Covers` which stored calls
`_reuse` accepts for another key. Answers are "yes" or "no", chosen by the
provider each time, or "malformed": stored like any other, failing the ask in
`_parse`. Retries inside a provider call are part of `Answer` and `CallFails`.
`paid` and `lost` are histories. One call per ask: packing questions into
batches, children of hierarchical choices and gating are pure and left out.

### Publish

`db[n]` is the database under one of the three names: its tables' contents, its
progress records, which tables are indexed, who is signed in, and whether it
accepts connections. The phases are the gaps between statements, which run in
autocommit mode. `Copy` is one transaction, as in `_copy`. `Error` ends a
publish at any statement and goes through the `finally` in `_swap`; `Kill` does
not. `Edit` is the build going on; `SignIn` the server, whose pooled connections
outlive `ALLOW_CONNECTIONS false`. One publish at a time. A database is whole
when every table has rows and the indexed ones their indexes: tables are copied
one by one while the build goes on, so nothing says that they are of one moment.

### Limiter

Ticks and integers in place of seconds and floats: the scale is `s/Full` and
levels are counted in units of `1/Full`, so refills are exact. As in the code a
bucket is refilled when it is looked at, at the rate it has then, for all the
time since; both buckets are always looked at together. `queue` is the lock
with its waiters. `ideal` is a history: the level of a bucket refilled all the
time at the profile's rate. A call larger than a bucket takes the capacity
only, as in the code: its tokens above that are not counted, here or there.
Its specification is `LimiterSpec`, as the query's is `QuerySpec`: both stand
beside others in `Serving` and in the proofs.

### Corpus

A document is a file and a text (its ID is their hash), a chunk a document and a
part of a text: a place that becomes a chunk. `Wording` is what a part says, so
that a document may say the same in two places: these look for a chunk to reuse by
their words, and an occurrence is of one place. `doc`, `chunk` and `uses` are the
rows of `documents`, `chunks` and `chunk_occurrences`; `settled` says of a chunk
that the run that made it, or a later one, finished without failures, which is
what `_reusable` asks of `runs`. `ingested` and `segmented` are what the two
ledgers have done; a claim takes that back until the item is done again. `at[f]`
is where file `f` is in the sequence of texts it goes through.

- `StartIngest`, `StartSegment` enumerate and select; `ReadFile` is a claim and
  the parse, `LookForDuplicate` the query that follows it, `ReadDocument` a claim
  and `process` up to what is read from the tables; `CommitDocument` and
  `CommitChunks` are the writers, with the whole of `retire_chunks`. Between any
  two of them files, other items and kills have their say. A retired chunk that is
  handed on takes one place of its heir (`PlaceIn`): the others keep their
  occurrences of it.
- `FinishSegment` is `finish_run`, `StopUpdate` the early return of `update`.
- `Edit` and `ChangeRegistry` come at any time, the latter between builds.

`Sections`, the hashes of what the stages depend on, and the number of
segmentation workers are given per Registry version, as they are in the Registry.
Jev's answers (triage, the chunk check) are a function of the text: they are
cached under it. Transactions are taken as serial. Not in the model: units,
metadata, structural edges, quarantine, and what later stages draw from chunks.

### Metadata

The values of one key. `docMeta` and `chunkMeta` are the rows, `deriving[d]`
what document `d`'s segmentation task has read before it commits, `refresh` what
a refresh has computed before its transaction. `ReadPage` has the cases of
`derive`: values of the document, values its text names, values Jev says it
applies to (`applied`, a history), or none. Which of a document's chunks a
refresh takes the earlier values from is a choice (`first`): `refresh_meta.py:96`
orders chunks by nothing in particular across documents. `clean` is a history.

### HarnessJobs

A workspace is three files: `input` (the records an agent is given), `output`
(what it wrote, valid or bad per record), `kept` (the records found valid, put
aside before the agent may touch the output again). `recorded` is the session
`_last_session` finds, as the set of records it was shown; `got`, `missing`,
`left` and `session` are the locals of `run_job`.

- `Call` collects both files and looks the session up; `Keep`, then `Continue`,
  or `WriteInput` and `ClearOutput`, lead to the agent; `AgentEnds` is its
  result or its timeout, `tracked` and collected; `Return` the end of `run_job`.
- `Raise` is every exception while the agent runs; `_kill` then ends the agent.
  `Kill` ends the pipeline itself, anywhere, and cuts off the file being
  written; the agent has a session of its own (`start_new_session`) and may
  write on, as `stray`.
- The agent is external: it rewrites its output as it likes.

One of the two agents names its session from the start, Codex once a thread has
begun; only Codex passes on that a run timed out. `AgentEnds` has all
combinations.

### Enrich

`group[b]` are the selected chunks of batch `b`; its calls of `run_job` take them
in the batch's order, `Cap` at a time (`Part`).
`job[b]` counts the parts that the background task of batch `b` has finished,
`ready[c]` is the future of chunk `c`, `record[c]` the cache, `item[c]` the task
of the chunk's item. `held[k]` are the valid records in the workspace for the
records `k`: what `run_job` returns includes what earlier calls for the same `k`
left, as `RecordsSurvive` of `HarnessJobs` says. `JobBegins` has the check of
`stopped` under the semaphore, `JobFails` the handler that passes the exception
to the waiting futures; `StartCleanup` and `EndRun` are the `finally` of
`run_stage`. The attempts are the ledger's: counted by the claim, given back by
a release. `_extract_one` is left out: every selected item has a future.

### Build

`new[s]` are the chunks that stage `s` has not covered by a run without failures
(`new_rows`), `edge[p]` is the row of the pair's own edge, `row[a]` the links
ledger row of anchor `a`, with the pairs in its hash, `judged[s]` the version
under which an audit item is done. An item is one step here: claims are
`Ledger`'s. `Accept` and `Drop` are what earlier stages do between commands; a
chunk that comes back has its old row and its superseded edges.

- `EnumerateLinks`, `Decide`, `FailLink` are the links stage; `after` are the
  anchors whose `after_item` is to come; `AfterItem` and `Finalize` the two calls
  of `maybe_evolve_ontology`, with the claim of the window's own item (`tried`);
  `Propose` the writer that marks picks as examined and approves what Jev keeps;
  `Activate` the activation of what was approved, now or before a kill.
- `FailEvolution` is an error of either: it fails an anchor whose edges are
  written already, in the final pass the command. `StopEvolution` is a usage limit,
  which releases both items.
- `StartAudit`, `JudgeEdge`, `JudgeOrphan`, `FailAudit` are the audit: which
  edges are anomalous is a choice, what an orphan that should connect does to
  the ledger is not.
- `FinishAudit` has the two loops (`Builder.graph` over reopened stages,
  `Builder.run` under an activated version) with their bounds, `Verify` the
  final plan, `GivesUp` the early return of `update`.

`Excess` is the significance test of `evolution_due` as a table: for each number
of picks, the least number of `other` among them that is significant.

### Entities

`said[p]` is Jev's latest decision on a pair, `root` is `merged_into`, `merged`
and `named` the input hashes of the two single items. `Merge` is `finalize` as
a function: `Join` is one `union` with both refusals (two existing clusters; a
"not the same" across), applied to identical names and then accepted pairs by
confidence (`Unions`, a recursive function of the number of pairs taken);
`Rehang` puts a cluster back under the root it had. The forest is the code's:
`find` shortens the paths it walks, a refused pair's too, and what it returns is
defined by closure (`Above`, `Find`) so that it says nothing of how long a path
may be. `Come` and `Go` are accepted entities that appear with chunks and vanish
with them. `GraphStages` has the module as `R`.

### Registry

A version is its tree, a function from file names to contents, as in the code it
is the tree's hash. `tree` is the active tree on disk, `dirs[v]` what is staged
under `.proposals`, `row[v]` the `registry_versions` row, `proc[p]` where a
command is. A `build` (bootstrap or evolution, with the gate) and a user
(`registry approve`, `registry activate`, the author of question sets) run side
by side, every file operation a step, any of them the last before a kill. `StartBuild`
hashes the tree, once, as `Registry.version` is cached; `Setup` and `StageBegins`
are the writes of that hash to `corpora`, at the start of a build and of each of
its stages, whatever the tree is by then. `cut`, `clash`, `stale` and `late` are
histories.
Lint is whether files are missing; what a file says is a number. A draft's
files are staged in any order; `activate` unlinks the old tree's files and then
copies the new one's, both in the order of `tree_files`.

### Training

`ex` are the rows of `training_examples`, by template, source key and payload;
`done` and `deduped` the ledger rows of the items and of the `dedup:` items;
`current` the sources enumerated (`SOURCES_KEY`). `Sources` has the sources of
each template (coverage of facts, multi-hop paths, stratified edges, accepted
questions), `Results` what the answers of Jev and the authoring rounds may make
of one. `Write` is the writer of an item, `Retire`, `Dedup` and `AssignSplits`
are `finalize`, `Resolve` is the reviewer, `Move`, `Withdraw`, `Return`, `Link`
and `NewVersion` are a build between runs. `Component` is the transitive closure
that `component_keys` computes by union-find, by its definition. A review is of
an example for one of two reasons, an uncertain filter or an uncertain output
rule, as its ID is the hash of both; one that was resolved is not opened again.
`fresh`, `settled`, `revived` and `stale` are histories.

### CloudPublish

A version is the set of IDs it has (`_fingerprint`); `disk[v]` is its state file
and its export, `top` the Worker's state file, `cloud[v]` D1 and Vectorize,
`worker` what is deployed. Each wrangler call and the record of it are two steps
with a kill between them. `Edit` is the build, which may change rows without
changing IDs (`rev`), or activate a Registry version.

### Query

`q` holds the locals of one query; each read is a step, on the database as it is
then (`served`). `EditGraph` is a build that edits it; `Publish` puts another in its
place, whose decisions are the build's: `audit` is what `persist` has written to the
database that serves now, and goes with it. Embeddings, Jev's judgements and the
harness's drafts are choices. `asked`, `live` and `replaced` (the decisions that
went with a database) are histories.

### Gating

A condition (`accept_when`) is a record as in the Registry's YAML, `qs` any
question set that passes the lint, `Eval` the three-valued evaluation in which a
leaf that was not asked counts for nothing: a recursive function over the
conditions there are (`Conditions`, closed under parts), given the value of each
leaf. The state is that of the one
question that is asked again at a raised bar, whether two drafted relation types
overlap: `Draft`, `CheckOverlaps`, `Redraft` and `Propose` are the bootstrap's
rounds, `answered` is the cache that answers a pair the redraft left alone,
`decisions` the table. `WorkerOutcome` is the Worker's `gate` on the thresholds
of a decision's row: at `repeat` 0 those are what the bundle has.

## 3. What the runs show

| run | instance | shows |
|---|---|---|
| `ledger` | 3 runs, 1 item, 2 hashes, 2 attempts; full, `--resume` and partial selections; fail/stop/crash | `WorkerHoldsRow`, `SettledMeansWritten`, `RetryBudget`, `SettledRowsStay`, `SoloRunSettles`, refinement of `Checkout` |
| `ledger_faults` | 2 runs, 2 items, 2 slots, `after_item`, every fault, fair | `RunsEnd` |
| `jev` | 1 process, 2 tasks, 2 keys (one covering the other), drift, every fault, one lost answer, fair | `PaidOnce`, `ToldIsStored`, `EveryAskEnds` |
| `publish` | Postgres: 2 tables with a foreign key, 3 contents of which 2 have as many rows, 2 interruptions; Cloudflare: 3 graphs of which 2 have the same IDs, 2 edits, 1 kill; fair | `ServedIsComplete`, `PreviousWasServed`, `NobodySignedOut`, `NeverWithoutCopy`, `PublishLands` |
| `corpus` | 3 files with 2, 3 and 2 versions sharing parts, a text that says one thing twice, a duplicate, a text out of scope, 2 Registry versions, one failure or kill, fair; metadata: 3 documents, of which 2 repeat chunks, 4 values in 3 levels | `SectionsCarried`, `NothingLeftOver`, `BuildsCatchUp`, `JevDecisionsStay`, `ChunksCarryEach` |
| `corpus_undone` | a file that goes back to its first text | `SectionsCarried` is violated |
| `corpus_recut` | 2 documents that share a part, 3 Registry versions of which the second cuts elsewhere | `SectionsCarried` is violated |
| `harness` | a job of 2 records, 3 attempts, 3 calls, any exception or kill; a stage of 4 chunks in 3 jobs, 2 job and 2 item slots, one fault of any kind; fair | `RecordsSurvive`, `NothingAskedTwice`, `ContinuesWhatItWasShown`, `LimitCostsNothing`, `ChunksEndSettled` |
| `graph` | 3 chunks, 3 changes, 3 Registry versions, 2 failures or kills; 4 entities of which 2 have one name, 4 changes, 1 failure or kill | `NothingForgotten`, `EvolutionSettled`, `ExistingLinksStand`, `ClustersStand`, `MergesAreComplete` |
| `registry` | 3 files, 2 drafts, 1 kill, fair | `TreeAsRecorded`, `PendingLands` |
| `training` | 2 chunks, 2 documents, 1 edge, every template but instruction, in 4 menus, both split policies, 2 runs, 1 edit, 1 verdict, 1 fault | `OneExamplePerSource`, `NoLeakage`, `DerivedFollowsSource` |
| `query` | 3 chunks, 3 links, 2 databases, 1 edit or publish, 1 failure; 7 leaves, alone and in twos under `all`, `any` and `not`, 8 sets of answers, 2 pairs of relation types, 3 rounds; 3 calls (one larger than its bucket), scales from 3/8 to 1, the limiter fair | `PassagesWereAccepted`, `AnswersAreAudited`, `GatedAsRecorded`, `WithinProfileRate`, `AcquireReturns` |

Type correctness is a conjunct of one invariant of each run.

Bounds. Two runs are enough for one to interfere with another, and the third of
`ledger` sees what the first two left. Two attempts make a first, a repeated and a
final failure. Two hashes give stale rows. The second item of `ledger_faults` is
in flight while the first stops the run; that items do not disturb each other
otherwise is what the theorems show, which hold for any set of them. Two keys give
a hit by reuse; a drift lane gives a second call that may find the credits gone.
Two interruptions let a resumed publish be cut off again; one kill of a Cloudflare
publish may fall between any call and its record. Three files give a shared chunk
a maker, an heir and another document that occurs in it; three documents a chunk
that two others repeat, segmented at once. Two records of a job are one that is
collected and one still missing, three calls a first, a resumed and a third that
sees what the second left; three attempts are the policy's. Three jobs for two
slots leave one that runs and one that is queued when a third meets a usage limit.
Three chunks are two pairs that share an anchor and one that does not; three
changes a chunk that is new when others are not, or one that goes and comes back;
with two versions above the first, evolution activates one in each of two rounds.
Four entities make two clusters that a third pair, or a name they share, would
join. Two drafts are a bootstrap that was not approved and the next, or an
evolution beside an author. Two leaves reach every pairing of own, shared and
absent thresholds, and the third round a bar raised twice. Three calls of the
limiter are one that sleeps, one in the queue and one larger than its bucket. A
second training run meets what the first, an edit and a verdict left. Symmetry is
used in `ledger` only, where runs are interchangeable and nothing temporal but
action properties and the refinement is checked. Deadlock is not checked where a
system may stop: all runs over (`ledger`), asks or jobs left alone (`jev`,
`harness`), bounds used up with nothing left to do (`graph`, `registry`,
`training`, `query`).

What the passing instances keep clear of, because the code does not hold there:
`publish` has nobody sign in between the carry-over and the swap (such a person is
signed out: store/publish.py:141 copies the rows before `_swap`) and a source that
never returns to an earlier number of rows; `corpus` has one segmentation worker
under its second Registry version and no third (`corpus_recut`), files that do not
return to an earlier text, and no text that two files share and one of them gets
while it is being ingested (its document would become a duplicate of its own
duplicate, pipeline/s1_ingest.py:156). Properties except by name: a kill that cuts
off the kept file between its truncation and its close, and an agent that outlives
its process (`spoilt`, harness/jobs.py:69: the records it held are nowhere else);
a kill with `<name>` closed (`killed`); versions that the graph changed under
(`mixed`); activations that were cut off or overlapped (`cut`, `clash`), and the
corpus row while a build that has hashed an older tree was the last to write it
(`late`); items whose inputs come back to a value they had (`past`); texts that a
document has twice (`SaysTwice`), of which a part may keep two live chunks;
decisions that a publish took away with a database (`replaced`); picks for which
proposing a type has failed for good (`Spent`); examples that a reviewer revived
(`revived`) or that got back the split they had in an earlier graph (`stale`);
question sets in which one question has leaves with and without a threshold
(`Mixed`); pairs whose item failed for good (`lost`), and histories in which
chunks were dropped (`away`). `LimitCostsNothing` is about runs that go on: after
an abort, items that still wait fail with `RunStopped`, an attempt of theirs lost,
though their jobs never began.

Fairness. `Ledger`: the event loop schedules the tasks of a live process, the
server drops a dead client's connection, time passes; nothing obliges a fault,
an edit or a crash, and only `FairSpec`'s last part has the user run the command
again. `JevService`: every flight's next step is a query, timer or response the
loop delivers; that the account is funded in the end is a hypothesis of
`EveryAskEnds`, no fairness. `Limiter` (in `Serving`): time passes and the holder
of the lock wakes up. `PublishTargets`: statements and calls return and the command is
rerun. `CorpusMetadata`: a build gets on, and is run again over all files
(README.md:37 and 124 tell users so); that files stop changing follows from the
bound on versions. `HarnessWork`: jobs return, tasks go on, and the build is run
again. `Registry`: no command stands still, and build is run again whenever it
has ended; nothing obliges the user to do anything. The other specifications
have none: their properties are of safety.

### Where the code disagrees with what it says

By a run that expects a violation:

- `corpus_undone`: a file that goes back to an earlier text has its document
  accepted again, and no chunks: the segmentation's ledger item is done
  (pipeline/s1_ingest.py:199; README.md:21 of the repository says that a changed
  document's new version is linked again).
- `corpus_recut`: a chunk moves to another document that occurs in it
  (store/repo.py:101), is superseded when that one is cut elsewhere, and is made
  again by its first document when the cut is as before: the upsert leaves
  `doc_id` as it is (pipeline/s2_segment.py:295), so the document's part belongs
  to a document that does not have it, and goes with that one's next cut. The
  proof of `SectionsCarried` found it: with a third cut it would not become
  inductive.

The following were met while modelling. The models have the behaviour; the
properties are stated so that they hold beside it (see the exceptions above).

Ledger and harness:
- An item's hash is taken when it is enumerated and its inputs are read after the
  claim (pipeline/common.py:392; pipeline/s1_ingest.py:130 and 137). If they
  change in between, a row that is done for one hash has the outputs of another.
  Usually the row is stale and the item runs again; but when the inputs come back
  to what they were, the ledger takes it for done, and the outputs of the other
  inputs stay.
- Lock and heartbeat of a live run die with their one connection, and a second
  run takes its items (ledger/ledger.py:70, against :7-8).
- An `after_item` that raises after the commit lets `release` or `fail` update a
  row that another run has claimed since (`Reliable` below excludes it).
- A file that failed `max_attempts` times is left out of later builds, though
  README.md:60 says that rerunning `build` retries failures (`FailedFinal`).
- A job is found again by a hash of its records, which are the chunks still to
  be done; once one of them is written, a resumed run asks the agent again for
  the others, though their records are in the old workspace
  (pipeline/s3_enrich.py:125, against :146-147).

Publish:
- A kill while the old database refuses connections leaves it so, and every
  rerun fails on it (store/publish.py:165 and 187).
- A kill between TRUNCATE and the deletion of the progress record, with the
  source back at the recorded number of rows, publishes an empty table.
- Cloudflare: rows that change under the same IDs (a title, a weight, a summary)
  keep the version, so the old rows are served on (cloudflare/publish.py:143-150).
  A kill between the deploy and the record of it loses the version that really
  served before (279-283).

Corpus and metadata:
- With several segmentation workers and a new Registry version, a document may
  reuse a chunk that its owner retires before the document commits.
- A retired chunk that another document has in two places moves to it in the first
  of them only (store/repo.py:112); when that document is cut again, the occurrence
  left in the other place makes it the chunk's next owner once more, though
  "another accepted document" is meant (:101): a part it no longer has keeps a live
  chunk, until the next cut.
- Two documents that reuse a chunk and are segmented at once overwrite each
  other's merged values (pipeline/s2_segment.py:286-302, against the comment at
  :299), until a refresh.
- A refresh takes a document's earlier values from whichever of its chunks comes
  first, a document without chunks of its own loses Jev's decision, and what is
  committed between its reads and its transaction is overwritten
  (pipeline/refresh_meta.py:96; tests/integration/test_build.py:320 expects
  decisions to be kept).

Entities, links, rounds:
- A refused merge may come about all the same. Say an existing cluster {2, 3} with
  root 2, Jev being less sure of it, and a new entity 1 of which Jev says that it is
  surely 3 and not 2. The surer pair is taken first; then {2, 3} is refused, since
  1 and 2 differ; but {1, 3} holds an existing entity and is hung under its root 2.
  So 1 is merged into 2 (pipeline/unionfind.py:76-81, against :5, "A merge of two
  clusters is refused when Jev said "not the same" for any pair across them").
  `MergesAreComplete` therefore has `DifferentStayApart` of clusters that are new;
  without the exception for `Standing` roots, TLC finds such a history in `graph`.
- An orphan sent back by the audit makes its anchor's row `pending`, while none
  of its pairs is undecided: the links stage runs again with nothing to
  enumerate (build.py:152-153, pipeline/s7_audit.py:156), and the row stays
  pending.
- An error of evolution fails an anchor whose edges are already written
  (pipeline/common.py:400-408): its row says `pending`, or `failed`, of pairs that
  are decided. A proposal that failed `max_attempts` times is not made again for
  the same picks.
- Pairs already picked `other` are not asked again under the relation type that
  they led to (pipeline/evolution.py:14-15 against pipeline/s6_links.py:164).
- Edges written after the audit covered their chunks are never audited
  (pipeline/s7_audit.py:3-6).
- When a chunk is dropped, pairs of old chunks become candidates and are never
  asked; a chunk that comes back keeps its superseded edges.

Registry:
- `corpora.registry_version` is written at every stage with the hash that the
  command took of the tree at its start (pipeline/common.py:177 and 312,
  registry/loader.py:142-145). A user's activation that completes under a build is
  overwritten there by the version before it; so is the build's own evolution, by
  the later stages of the same round, until a command or a round opens the Registry
  again.
- A kill within an activation leaves a tree that is neither version; if it lacks
  a file that opening needs, no command starts and nothing is resumed
  (pipeline/evolution.py:17-19). Two drafts from one tree lose the edits of one;
  approving the active version again makes it approved (registry/gate.py:37).
  Files read late belong to another version (registry/loader.py:138).

Training:
- An example of a chunk that leaves and returns stays superseded: its item is
  done for the same hash (README.md:264 against pipeline/s8_training.py:164).
- `dedup:` is done for a set of examples: when the same set is accepted again,
  nothing is dropped (:697). An example accepted by a reviewer after the splits
  were assigned is exported as `unassigned` (:775). The export never removes the
  file of a split that has become empty. A verdict on a superseded example
  revives it (review/queue.py:96), and with it the split it has: an example that
  one run accepted while its review from an earlier run was open, and the next
  superseded, is exported with the split of an earlier graph, beside examples of
  the same document that have the present one (:96-97, pipeline/s8_training.py:469,
  735-742, against README.md:272).

Query:
- Decisions written before a publish are in the database that it replaces: an
  answer loses those of query/graphrag.py:162 to a publish before :202, and only
  the later ones are where it is served. The rows of the best candidates are read without
  their status (query/search.py:83-91), so a chunk that was rejected since the
  first read is still returned.

Gating:
- A question with one leaf that has its own threshold and one that has none
  passes the lint, whose check of conflicting thresholds counts only those that
  are given (registry/lint.py:129-145). The gate takes each leaf at its own bar;
  `Decision.threshold_for` ("the threshold Jev's answer to `question` was gated
  at", jev/service.py:53-55) and the Worker (cloudflare/worker/src/jev.ts:185)
  take the given one for both, so a flag, or the Worker's outcome, may differ
  from the build's.

## 4. What is proved

tlapm checks every theorem below for all values of the constants that the named
assumptions of the modules allow (finite sets where the code has finite sets,
rates above zero, a split per document, and so on); TLC evaluates those
assumptions on every run. Each proof has one inductive invariant, a lemma that
each action preserves it, and `PTL` at the end. What the invariant adds to the
property, and why:

- `LedgerProofs`: `TypeCorrect` without further assumption; under `Reliable` (no
  `after_item`, no lost owner session, no abort: exactly what the violations in
  section 3 need) `WorkIsExclusive`, `WorkersHoldTheirRows`,
  `SettledRowsAreWritten`, `RetriesAreBounded`, `SettledRowsAreFinal` and
  `LedgerImplementsCheckout`. `Reclaim` and `Claim` respect a worker's row only
  because the row is fresh, the worker's owner session is up and its process is
  alive, so `IInv` adds these: an open run is an owner, a dead or finished one has
  no work in hand. For `SettledMeansWritten`, hashes are traced: none is carried
  that the inputs have not had (`HashesSeen`), so a change to a new value makes
  every row stale, and a task enumerated with the inputs there are, when they
  never had this value before, has read these (`ReadsAreFresh`). For
  `RetryBudget`, the failures since the row took its hash never exceed its
  attempts, and stay below them while it is claimed. The refinement maps `Edit` to
  `Change`, `Claim` to `Take`, `Read` to `Read`, `Commit` to `Publish`, `Stop`,
  `Fail` and `Crash` to `GiveBack`, everything else to a stutter. `SoloRunsSettle`
  needs no `Reliable`: whatever ends a run's solo is part of the property. Its
  `SoloInv`: no other run has started, a row is `running` exactly when the run
  works on it, and an enumerated item is still to do, in work, or settled for its
  hash.
- `ServingProofs`, `CallsStayWithinRate` (`Limiter`): a bucket is refilled when
  looked at, at the scale of that moment, so its level alone says little. The
  invariant is about what it would hold if it were refilled now at the profile's
  rate: never more than the ideal bucket. A refill at any scale keeps that, as
  does a sleep of any length.
- `ServingProofs`, `JevService`: `JevTypeCorrect`; `PaysOnce` for any number of processes,
  by counting: payments for a key and processes that may still pay for it are
  at most the processes and the lost answers, and as long as no row is stored,
  every payment is lost or held by a flight. `TellsWhatIsStored` is for one process (a
  rival's upsert may replace a row, section 3), from: as long as a call may be
  paid for or stored, the key has no row.
- `PublishProofs`: `PublishTypeCorrect` with which databases exist at each phase.
  `PublishSignsNobodyOut` under `~LateSignIns` (section 3), from what the next
  database has carried over. `PublishedIsComplete` (every table has rows and its
  indexes; not that they are of one moment) and `PublishKeepsCopy` for a
  source that never returns to an earlier number of rows, `RowsNeverBack`: that
  is what makes a progress record say whether a table is up to date. The
  invariant is about what an interrupted publish leaves: a record is current or
  behind, rows have a record, a record without rows is of a table that the next
  publish empties again, with those that refer to it.
  `WorkerServesWhole` is about the publish to Cloudflare, for any graphs, edits
  and kills: what each step implies about the export, the state file and the
  account. Then both targets: `ServesComplete`, `PreviousServed`, and
  `TargetsImplementPublish`, by which the theorems about `Publish` hold of a
  deployment.
- `HarnessWorkProofs`: for the job, `ContinuesWhatWasShown`,
  `ValidRecordsSurvive` and `NothingIsAskedTwice` from one invariant: where a
  call is says how its records, the kept file and the output are related
  (`KeptSoFar`), and a recorded session was shown all that is not kept
  (`Shown`); nothing is said once a file was torn or an agent outlived its
  process. For the stage, `UsageLimitCostsNothing`, and with it the types: an
  item's attempts are bounded because only a fault, one for many items, leaves
  an item that was claimed and has neither failed nor been written.
- `RegistryProofs`: `RegistryTypeCorrect` (whatever has a row, or is activated, is
  staged whole), and `ActivationLands`, from `Recorded`: unless two activations
  have overlapped, at most one command is between its first unlink and its
  transaction, all that time counts as cut off, the transaction is reached only
  with the version's tree on disk (`Check` hashes it again), and at any other
  time the tree is the recorded one, or the corpus row is `late`: what a build has
  hashed is the tree unless an activation has begun since (`Fresh`).
- `TrainingProofs`: `TrainingTypeCorrect`, and three theorems with an invariant each.
  `SourcesHaveOne`: the property itself, once written example by example.
  `SplitsDoNotLeak`: whatever is accepted and has a split has the split of its
  chunks in the present graph (`Assigned`); that two sets of chunks with
  different splits share nothing is about components being an equivalence and
  keys being their least documents. `DerivedFollows`: what a run knows after each of its
  phases (`Working`): the first stage leaves only selected examples, the second
  works on the questions accepted then, which its own `finalize` does not touch.
- `ServingProofs`, `Query`: `QueryTypeCorrect`; `ReturnsAcceptedPassages`, because a chunk
  found was accepted in a database the query could read, and what a link leads
  to is kept only when its text was read; `AuditsAnswers`, because each
  question is in `audit`, or was and went with the database (`replaced`), or is held
  by the query until it returns. These and the
  limiter's are about the specifications of their own modules; `ServesAsPromised`
  carries them, and the next, over to `Serving`, which the run `query` checks.
- `ServingProofs`, `Gating`: `GatesAsRecorded`. A row follows from the answers and
  the round that it has (`Ruled`), so the question is whether two evaluators
  give each leaf the same value. The lint says that a question's leaves share a
  threshold (`RecordedForLeaf`); a leaf without one must not meet a recorded one
  (`Mixed`). Equal values of the leaves are all that the two evaluations differ
  in, so that the recursion over the condition is never unfolded.
- `CorpusProofs`, metadata: `DecisionsOutlastRefreshes` and `RefreshRestoresEach`
  have no hypothesis. `MetaInv` follows a value through every place it is in on
  its way: the document's row, what a segmentation task has read and not yet
  committed, what a refresh has computed and not yet written (`DecisionKept`).
  What a parser reads of a file only grows, so a document that has no values now
  had none when they were read (`ReadOnlyMore`).
- `CorpusProofs`, chunks: `DocumentsKeepTheirSections` and `ReplacedTextsGo` hold
  of the histories that `PlainHistory` names, a hypothesis on the constants that
  the run `corpus` meets. `NoTextReturns`: `corpus_undone` is what happens
  otherwise. `SharedReadOnce` (a text that two files have is the first of each,
  and no change of the Registry has it ingested again): otherwise a document may
  be taken for a duplicate of its own duplicate (s1_ingest.py:156).
  `CutAgainOnce`, of two parts: one worker after a change of the Registry, since
  two would use what the other retires (s2_segment.py:252), and at most one such
  change: a third cut is `corpus_recut`. A document that says the same in two
  places is in: the theorem leaves out the parts that `SaysTwice` names, and
  nothing else of it. `CorpusInv` says of every chunk and occurrence where it is
  between segmentations (`GraphStands`), which documents made what they own
  (`MadeByOwner`), and what a task that has read the graph found is still there
  when it commits (`FoundIsThere`); that files go on in one direction, and their
  documents behind them (`InOrder`), keeps a document that is accepted from being
  ingested or retired again.
- `BuildProofs`: for any neighbours, answers, faults and changes of the corpus.
  `NothingIsForgotten`: an undecided candidate pair of a corpus that only grew has
  a new chunk or is lost (`Outstanding`), since a chunk that is accepted pushes
  others from the lists of nearest neighbours and never brings in an old pair
  (`CandidatesOfOldChunks`); a link stage without failures had an item for each,
  in the hands of the pair's smaller chunk (`Enumerated`), so only then may it say
  its chunks are covered. `EvolutionSettles`: the window of the final pass is all
  there is to examine, nothing in the audit brings a pick back, and a window that
  is left alone is one whose item has failed for good (`Settling`, `Spent`);
  errors and limits of evolution itself are among the faults. `LinksStand`:
  evolution and the audit write edges too, and `Judging` says what the audit has
  in hand. `StagesBuild` carries the three over to the specification that the run
  `graph` checks.
- `BuildProofs`, `Entities`: `StandingClusters` and `CompleteMerges`, about what a
  merge makes of any set of pairs. Their invariant is of the loop, by the number
  of pairs taken (`Looped`, `UnionsByTurn`): the clusters partition the entities,
  the forest's trees are these clusters with the least entity on top, entities of
  two existing clusters are never together, nor are two that Jev said differ
  (`Agrees`), a pair taken is inside a cluster or refused. The clusters are then
  hung under the roots they had: each such root is in its own cluster, since that
  cluster is refused every other (`HungRooted`, `OneRootOrTaken`), so `find` ends
  at the one root there is (`FindIsOne`), which is the least of the cluster or one
  that a covered entity had (`FirstOrStanding`): the latter is where entities that
  differ meet again (section 3). `EntitiesResolved` is the invariant between
  merges: types, `Flat` (a root is its own root), and `Merged`, what a recorded
  merge says of the pairs it was made from, which is why skipping one is sound.

What the proofs found. Two divergences of section 3: without its exception for
`stale`, `NoLeakage` would not become inductive, and TLC then found how it fails
with a third run (the verdict on an example that an earlier run had accepted);
and `corpus_recut`. And mistakes of the models, which the runs had not shown:
`Registry` went on when a file to unlink was gone already (it is an error),
`Training` had one review per example where there are two reasons for one, and
`Build` took the attempts of an anchor to end at the maximum, though the audit
may send back an anchor that failed for good (pipeline/s7_audit.py:157), whose
next failure goes beyond it.

`Entities` gave most. The model took `find` for two steps up the forest, which is
not enough once several new roots are hung in turn: it was replaced by the code's.
Three hypotheses of its properties are there because the proofs do not go through
without them, and TLC has the histories. The hash by which a merge is skipped
(pipeline/s5_entities.py, the decisions, the refused pairs, the equal names) does
not name the roots: r, m and e are one cluster, r its root; m vanishes with its
chunks and a run merges again; then r vanishes, and the next run finds the hash it
had. It skips, and the accepted e stays merged into an r that is gone. So
`RootsAreRoots` is of a merge that is written. And when a run is cut short between
the changes and the merge, an entity that was merged before can be under a root
that is new now; the next merge may take that root into another cluster and not
the entity with it. `Settled` excludes this in `RootsStand` and `PairsAreMerged`.
The third is that `Agrees` is not kept by the hanging that follows the loop, so
`DifferentStayApart` leaves out the roots that covered entities had.

What the theorems assume of the constants is in the `ASSUME` of each module. Those
that are more than types: in `Corpus`, equal hashes of what segmentation depends on
mean equal cuts, and what a part says is a function of the part (`Wording`); in
`Metadata`, that a document repeats chunks of others only; in
`Training`, that the split hash gives every document a split; in `Limiter`, rates
and capacities above zero; and that a marker for "nothing" (`NoEdge`, `NoChunk`)
is none of the things it stands in for.

Only model-checked: everything under fairness (tlapm has neither liveness under
fairness nor ENABLED), which is `RunsEnd`, `EveryAskEnds`, `PublishLands`,
`BuildsCatchUp`, `ChunksEndSettled`, `PendingLands` and `AcquireReturns`. Every
invariant and every action property that a passing run checks is stated by a
theorem.

## 5. Not modelled

- Jev's questions and states (`jev/questions.py`, `state.py`, `tokens.py`):
  rendering, packing and fan-out, which answer belongs to which question. But
  for `Gating`, the models take the outcome of a decision as a choice, so they
  cover every threshold. `Gating` has thresholds that are exact: a back-off of
  one half over powers of two.
- Parsers, span cutting, grounding, embedding, rendering, prompts: formats and
  texts. What a text is cut into is a constant of `Corpus`.
- Communities, contradiction edges, aliases and attributes of entities, drift
  samples in the graph: rows beside those that the properties relate.
- MCP sign-in (rows with an expiry, one statement each), the connection pool,
  schema migrations, the local Postgres container: I/O in sequence.
- Calibration and drift: statistics. The Worker's TypeScript but for its
  gate: a second implementation of what `Query` has in Python.
- Command line, configuration, reports, logging: wiring.
- Several builds at once over anything but the ledger, the Jev service and the
  Registry: `Corpus`, `Build`, `Entities` and `Training` have one at a time.

## 6. Next

1. `Entities` with the roots in what a merge is skipped by, to see what the
   code would have to hash for `RootsAreRoots` to hold of skipped merges.
2. `Corpus` with its writers as statements under READ COMMITTED, and with
   duplicates that arrive late.
3. `Spans` as functions over bounded inputs against a definition.
