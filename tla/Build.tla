------------------------------- MODULE Build -------------------------------
(***************************************************************************)
(* `build` and `update` over the link and audit stages (build.py, planner, *)
(* pipeline/update.py, s6_links.py, evolution.py, s7_audit.py): a links    *)
(* item decides the undecided candidate pairs of one anchor chunk;         *)
(* ontology evolution examines the picks `other` and may activate a new    *)
(* Registry version; the audit judges edges and orphans of new chunks and  *)
(* may send an anchor back; the build goes round again, and verifies.      *)
(*                                                                         *)
(* A chunk is new to a stage until a run of it without failures, started   *)
(* after the chunk was made, has ended (new_rows).  One process; chunks    *)
(* come and go between builds (Corpus).  A chunk that comes back has its   *)
(* old row, and so the run that made it first.  An item is one step:       *)
(* claims and leases are in Ledger, calls in JevService and HarnessJobs.   *)
(* Left out: contradiction edges beside a pair's own edge, communities,    *)
(* drift samples, audit items that fail for good.                          *)
(***************************************************************************)
EXTENDS Integers, FiniteSets, FiniteSetsExt, Sequences

CONSTANTS
    Chunks,      \* chunk IDs, in their order
    Near,        \* Near[c]: the other chunks, nearest embedding first
    AnnK,        \* link.candidates.ann_k
    OtherPairs,  \* pairs that structure, shared entities or full text propose
    Answers,     \* what Jev answers on a pair: see Asked
    Enough,      \* least number of `other` picks that could support a type
    Excess,      \* Excess[n]: least number that is a significant excess among n picks
    MaxRounds,   \* ontology.max_evolution_rounds
    MaxReopen,   \* MAX_REOPEN_ROUNDS
    MaxAttempts, \* of an item, before it has failed for good
    MaxVersion,  \* bound on Registry versions
    MaxChanges,  \* bound on changes of the corpus
    Faults,      \* the kinds of fault this instance allows
    MaxFaults,   \* bound on their number
    NoEdge

Pairs == kSubset(2, Chunks)

(* The relation picked, whether the chunks are related at all, whether the    *)
(* relation has a direction that Jev gave none, and what `link_verify` says.  *)
Asked == [pick : {"none", "other", "typed"}, related : BOOLEAN, undirected : BOOLEAN, holds : BOOLEAN]

Stages == {"links", "audit"}
Versions == 1..MaxVersion
Edges == [pick : {"none", "other", "typed"}, seen : BOOLEAN, under : Versions,
          status : {"accepted", "rejected", "review", "superseded"}]

ASSUME BuildAssumption ==
    /\ Chunks \subseteq Nat /\ IsFiniteSet(Chunks)
    /\ \A c \in Chunks : Near[c] \in Seq(Chunks \ {c})
    /\ OtherPairs \subseteq Pairs
    /\ Answers \subseteq Asked
    /\ Excess \in [0..Cardinality(Pairs) -> Nat]
    /\ {AnnK, Enough, MaxAttempts, MaxVersion} \subseteq Nat \ {0}
    /\ {MaxRounds, MaxReopen, MaxChanges, MaxFaults} \subseteq Nat
    /\ Faults \subseteq {"fail", "kill"} /\ NoEdge \notin Edges

VARIABLES
    present,  \* accepted chunks
    new,      \* new[s]: chunks that stage s has not covered
    edge,     \* edge[p]: the row of the pair's own edge
    row,      \* row[a]: the links ledger row of anchor a
    judged,   \* judged[s]: version under which the audit item of s is done
    active,   \* the active Registry version
    approved, \* versions that Jev approved and nobody activated yet
    tried,    \* tried[w]: the ledger row of evolution's item for the window w
    how,      \* the command
    pc,       \* where it is
    round,    \* evolution rounds so far
    pass,     \* passes over reopened stages so far
    loaded,   \* the version this round has loaded
    todo,     \* items left of the stage run, each the set of chunks it is about
    failed,   \* items of it that failed
    reopened, \* REOPENED_STAGES is not empty
    evolved,  \* EVOLVED: a version was activated in this round
    after,    \* anchors whose after_item is to come, or runs evolution
    evolving, \* where evolution is
    window,   \* the pairs it examines
    ok,       \* the last command ended well, and the corpus is as it was
    changes, faults, lost, away  \* history: bounds, pairs that failed for good, chunks dropped

graph == <<present, new, edge, judged>>
registry == <<active, approved, tried>>
control == <<how, round, pass, loaded>>
evolution == <<evolved, after, evolving, window>>
history == <<changes, faults, lost, away>>
vars == <<graph, row, registry, control, pc, todo, failed, reopened, evolution, ok, history>>

Fresh == [status |-> "missing", hash |-> <<0, {}>>, attempts |-> 0]

(* The hash is of a version and pairs.  The attempts go beyond MaxAttempts    *)
(* when the audit sends back an anchor that had failed for good.              *)
Rows == [status : {"missing", "pending", "done", "failed"},
         hash : (0..MaxVersion) \X SUBSET Pairs, attempts : Nat]

Tries == [version : 0..MaxVersion, attempts : Nat, failed : BOOLEAN]
NotTried == [version |-> 0, attempts |-> 0, failed |-> FALSE]

TypeOK ==
    /\ present \subseteq Chunks /\ away \subseteq Chunks
    /\ new \in [Stages -> SUBSET Chunks]
    /\ edge \in [Pairs -> Edges \cup {NoEdge}]
    /\ row \in [Chunks -> Rows]
    /\ judged \in [Pairs \cup kSubset(1, Chunks) -> 0..MaxVersion]
    /\ active \in Versions /\ approved \in 0..MaxVersion - active
    /\ tried \in [SUBSET Pairs -> Tries]
    /\ how \in {"build", "update"} /\ loaded \in 1..active
    /\ pc \in {"idle", "graph", "links", "final", "linked", "audit", "verify"}
    /\ round \in 0..MaxRounds /\ pass \in 0..MaxReopen
    /\ todo \subseteq SUBSET Chunks /\ failed \subseteq SUBSET Chunks
    /\ reopened \in BOOLEAN /\ evolved \in BOOLEAN /\ after \subseteq Chunks /\ ok \in BOOLEAN
    /\ evolving \in {"no", "propose", "activate"} /\ window \subseteq Pairs
    /\ lost \subseteq Pairs /\ changes \in 0..MaxChanges /\ faults \in 0..MaxFaults

AtRest ==
    /\ pc = "idle" /\ round = 0 /\ pass = 0 /\ todo = {} /\ failed = {}
    /\ reopened = FALSE /\ evolved = FALSE /\ after = {} /\ evolving = "no" /\ window = {}

Init ==
    /\ present = {} /\ away = {} /\ lost = {}
    /\ new = [s \in Stages |-> {}]
    /\ edge = [p \in Pairs |-> NoEdge]
    /\ row = [a \in Chunks |-> Fresh]
    /\ judged = [s \in Pairs \cup kSubset(1, Chunks) |-> 0]
    /\ active = 1 /\ approved = 0 /\ how = "build" /\ loaded = 1
    /\ tried = [w \in SUBSET Pairs |-> NotTried]
    /\ AtRest /\ ok = FALSE /\ changes = 0 /\ faults = 0

-----------------------------------------------------------------------------
(* LinkStage.candidates: unordered pairs of accepted chunks, from the nearest *)
(* neighbours of each and from the other sources.                             *)
Ahead(c, i) == {j \in 1..i : Near[c][j] \in present}
Neighbours(c) ==
    {Near[c][i] : i \in {j \in DOMAIN Near[c] : Near[c][j] \in present /\ Cardinality(Ahead(c, j)) <= AnnK}}
Candidates ==
    {p \in Pairs : /\ p \subseteq present
                   /\ p \in OtherPairs \/ \E c \in p : (p \ {c}) \subseteq Neighbours(c)}

(* Regression: pairs are asked again while a chunk of them is new.            *)
UndecidedAgain == {p \in Candidates : p \cap new["links"] # {}}

(* undecided: candidate pairs with a new chunk and no edge of their own.       *)
Undecided == {p \in Candidates : p \cap new["links"] # {} /\ edge[p] = NoEdge}

(* The item of an anchor, the smaller chunk of its pairs; its input hash; and *)
(* the items a run with Registry version v selects.                           *)
PairsOf(a) == {p \in Undecided : Min(p) = a}
Hash(a, v) == <<v, PairsOf(a)>>
FailedForGood(a, v) == row[a].status = "failed" /\ row[a].hash = Hash(a, v)
ToLink(v) == {{a} : a \in {b \in Chunks : PairsOf(b) # {} /\ ~FailedForGood(b, v)}}

(* _resolve: `none` and `other` are no edge; nor is a directed relation that   *)
(* has no direction, nor what the second opinion refuses.                     *)
Resolve(answer) ==
    IF answer.pick = "typed" /\ answer.related /\ ~answer.undirected /\ answer.holds
    THEN "accepted" ELSE "rejected"

Linked(c) == \E p \in Pairs : c \in p /\ edge[p] # NoEdge /\ edge[p].status = "accepted"

(* The pairs whose pick evolution has not examined.                           *)
Unseen == {p \in Pairs : edge[p] # NoEdge /\ ~edge[p].seen /\ edge[p].status # "superseded"}
Others(pairs) == {p \in pairs : edge[p].pick = "other"}

(* Regression: the final pass waits for a significant excess as well.         *)
DueOnExcess(final) ==
    LET k == Cardinality(Others(Unseen))
        n == Cardinality({p \in Unseen : edge[p].pick # "none"})
    IN k >= Enough /\ k >= Excess[n]

(* evolution_due: enough picks, and in the final pass that is all it takes.   *)
Due(final) ==
    LET k == Cardinality(Others(Unseen))
        n == Cardinality({p \in Unseen : edge[p].pick # "none"})
    IN k >= Enough /\ (final \/ k >= Excess[n])

-----------------------------------------------------------------------------
(* Earlier stages accept a chunk: a new one, or one that was dropped.         *)
Accept(c) ==
    /\ pc = "idle" /\ changes < MaxChanges
    /\ c \notin present
    /\ present' = present \cup {c}
    /\ new' = IF c \in away THEN new ELSE [s \in Stages |-> new[s] \cup {c}]
    /\ changes' = changes + 1 /\ ok' = FALSE
    /\ UNCHANGED <<edge, judged, row, registry, control, pc, todo, failed, reopened, evolution,
                   faults, lost, away>>

(* Ingest or segmentation drops one, and supersedes its edges.                *)
Drop(c) ==
    /\ pc = "idle" /\ changes < MaxChanges
    /\ c \in present
    /\ present' = present \ {c}
    /\ edge' = [p \in Pairs |-> IF c \in p /\ edge[p] # NoEdge
                                THEN [edge[p] EXCEPT !.status = "superseded"] ELSE edge[p]]
    /\ away' = away \cup {c}
    /\ changes' = changes + 1 /\ ok' = FALSE
    /\ UNCHANGED <<new, judged, row, registry, control, pc, todo, failed, reopened, evolution,
                   faults, lost>>

(* `build` or `update` reaches its link stage.                                *)
Start(h) ==
    /\ pc = "idle"
    /\ pc' = "graph" /\ how' = h /\ loaded' = active
    /\ ok' = FALSE
    /\ UNCHANGED <<graph, row, registry, round, pass, todo, failed, reopened, evolution, history>>

EnumerateLinks ==
    /\ pc = "graph"
    /\ pc' = "links" /\ todo' = ToLink(loaded) /\ failed' = {}
    /\ UNCHANGED <<graph, row, registry, control, reopened, evolution, ok, history>>

(* LinkStage.process and its writer; then after_item, unless evolution runs.  *)
Decide(a) ==
    /\ pc = "links" /\ {a} \in todo
    /\ \E answer \in [PairsOf(a) -> Answers] :
           edge' = [p \in Pairs |->
               IF p \in PairsOf(a)
               THEN [pick |-> answer[p].pick, status |-> Resolve(answer[p]),
                     seen |-> FALSE, under |-> loaded]
               ELSE edge[p]]
    /\ row' = [row EXCEPT ![a] = [Fresh EXCEPT !.status = "done"]]
    /\ todo' = todo \ {{a}}
    /\ after' = IF evolving = "no" THEN after \cup {a} ELSE after
    /\ UNCHANGED <<present, new, judged, registry, control, pc, failed, reopened, evolved, evolving,
                   window, ok, history>>

(* An error of the item; the third time, it has failed for good.              *)
FailLink(a) ==
    LET attempts == IF row[a].hash = Hash(a, loaded) THEN row[a].attempts + 1 ELSE 1
        final == attempts >= MaxAttempts
    IN /\ "fail" \in Faults /\ faults < MaxFaults /\ faults' = faults + 1
       /\ pc = "links" /\ {a} \in todo
       /\ row' = [row EXCEPT ![a] = [status |-> IF final THEN "failed" ELSE "pending",
                                     hash |-> Hash(a, loaded), attempts |-> attempts]]
       /\ lost' = IF final THEN lost \cup PairsOf(a) ELSE lost
       /\ todo' = todo \ {{a}} /\ failed' = failed \cup {{a}}
       /\ UNCHANGED <<graph, registry, control, pc, reopened, evolution, ok, changes, away>>

(* Evolution's item for the window w has failed for good; else a claim of it. *)
Spent(w) == tried[w].failed /\ tried[w].version = loaded
Claimed(w) == [version |-> loaded, failed |-> FALSE,
               attempts |-> IF tried[w].version = loaded THEN tried[w].attempts + 1 ELSE 1]

(* maybe_evolve_ontology up to its harness job: nothing more once a version   *)
(* was activated; first what was approved before; else, if due, a proposal.   *)
MaybeEvolve(final) ==
    /\ evolving = "no"
    /\ IF evolved THEN UNCHANGED <<evolving, window, tried>>
       ELSE IF approved > 0 THEN evolving' = "activate" /\ UNCHANGED <<window, tried>>
       ELSE IF Due(final) /\ ~Spent(Unseen)
       THEN evolving' = "propose" /\ window' = Unseen /\ tried' = [tried EXCEPT ![Unseen] = Claimed(Unseen)]
       ELSE UNCHANGED <<evolving, window, tried>>
    /\ after' = IF evolving' = "no" THEN {} ELSE after
    /\ UNCHANGED <<graph, row, active, approved, control, todo, failed, reopened, evolved, ok, history>>

AfterItem == pc = "links" /\ after # {} /\ MaybeEvolve(FALSE) /\ UNCHANGED pc
Finalize == pc = "links" /\ todo = {} /\ after = {} /\ MaybeEvolve(TRUE) /\ pc' = "final"

(* The writer of _propose: the picks are examined, and what Jev keeps of the  *)
(* proposals is approved, in one transaction.                                 *)
Propose(kept) ==
    /\ evolving = "propose"
    /\ kept => active < MaxVersion
    /\ edge' = [p \in Pairs |-> IF p \in window THEN [edge[p] EXCEPT !.seen = TRUE] ELSE edge[p]]
    /\ approved' = IF kept THEN approved + 1 ELSE approved
    /\ evolving' = IF kept THEN "activate" ELSE "no"
    /\ after' = IF kept THEN after ELSE {}
    /\ window' = {} /\ tried' = [tried EXCEPT ![window] = NotTried]
    /\ UNCHANGED <<present, new, judged, row, active, control, pc, todo, failed, reopened, evolved,
                   ok, history>>

(* activate_pending.                                                          *)
Activate ==
    /\ evolving = "activate"
    /\ active' = active + approved /\ approved' = 0
    /\ evolved' = TRUE /\ evolving' = "no" /\ after' = {}
    /\ UNCHANGED <<graph, row, tried, control, pc, todo, failed, reopened, window, ok, history>>

-----------------------------------------------------------------------------
(* Regression: a run with failures covers its chunks, too.                    *)
CoveredAnyway(s) == [new EXCEPT ![s] = {}]

(* A run of stage s ends: without failures, it covers all chunks there are.   *)
Covered(s) == IF failed = {} THEN [new EXCEPT ![s] = {}] ELSE new

(* `update` stops after a stage with failures.                                *)
GivesUp == how = "update" /\ failed # {}

Ended ==
    /\ pc' = "idle" /\ round' = 0 /\ pass' = 0 /\ todo' = {} /\ failed' = {} /\ reopened' = FALSE
    /\ evolved' = FALSE /\ after' = {} /\ evolving' = "no" /\ window' = {}
    /\ UNCHANGED <<how, loaded>>

(* An anchor's row after an error of evolution, though its pairs are decided  *)
(* (`failed`, if that was its last attempt: no item has these pairs again).   *)
SentBack(a) == [row EXCEPT ![a].status = "pending"]

(* An error of the proposal or the activation: of the anchor that was written *)
(* before; in the final pass, of the command.                                 *)
FailEvolution ==
    /\ "fail" \in Faults /\ faults < MaxFaults /\ faults' = faults + 1
    /\ evolving # "no"
    /\ tried' = IF evolving = "propose"
                THEN [tried EXCEPT ![window].failed = tried[window].attempts >= MaxAttempts] ELSE tried
    /\ \/ /\ pc = "links"
          /\ \E a \in after : row' = SentBack(a) /\ failed' = failed \cup {{a}}
          /\ evolving' = "no" /\ window' = {} /\ after' = {}
          /\ UNCHANGED <<control, pc, todo, reopened, evolved>>
       \/ pc = "final" /\ Ended /\ UNCHANGED row
    /\ UNCHANGED <<graph, active, approved, ok, changes, lost, away>>

(* A usage limit meets the proposal: what was claimed is released.            *)
StopEvolution ==
    /\ "kill" \in Faults /\ faults < MaxFaults /\ faults' = faults + 1
    /\ evolving = "propose"
    /\ tried' = [tried EXCEPT ![window].attempts = @ - 1]
    /\ \/ pc = "links" /\ \E a \in after : row' = SentBack(a)
       \/ pc = "final" /\ UNCHANGED row
    /\ Ended
    /\ UNCHANGED <<graph, active, approved, ok, changes, lost, away>>

FinishLinks ==
    /\ pc = "final" /\ evolving = "no"
    /\ new' = Covered("links")
    /\ IF GivesUp THEN Ended
       ELSE pc' = "linked" /\ UNCHANGED <<control, todo, failed, reopened, evolution>>
    /\ UNCHANGED <<present, edge, judged, row, registry, ok, history>>

(* AuditStage.enumerate: anomalous edges and orphans, of chunks that are new. *)
StartAudit ==
    LET accepted == {p \in Pairs : p \cap new["audit"] # {} /\ edge[p] # NoEdge
                                   /\ edge[p].status = "accepted"}
        orphans == {{c} : c \in {d \in present \cap new["audit"] : ~Linked(d)}}
    IN /\ pc = "linked"
       /\ pc' = "audit" /\ failed' = {}
       /\ \E anomalies \in SUBSET accepted :
              todo' = {s \in anomalies \cup orphans : judged[s] # loaded}
       /\ UNCHANGED <<graph, row, registry, control, reopened, evolution, ok, history>>

Settle(s) == todo' = todo \ {s} /\ judged' = [judged EXCEPT ![s] = loaded]

JudgeEdge(p) ==
    /\ pc = "audit" /\ p \in todo \cap Pairs
    /\ edge' \in {edge, [edge EXCEPT ![p].status = "review"]}
    /\ Settle(p)
    /\ UNCHANGED <<present, new, row, registry, control, pc, failed, reopened, evolution, ok, history>>

(* An orphan that should connect: the item of the anchor, if it has one, is   *)
(* to run again.                                                              *)
JudgeOrphan(c, connects) ==
    /\ pc = "audit" /\ {c} \in todo
    /\ row' = IF connects /\ row[c].status # "missing"
              THEN [row EXCEPT ![c].status = "pending"] ELSE row
    /\ reopened' = (reopened \/ connects)
    /\ Settle({c})
    /\ UNCHANGED <<present, new, edge, registry, control, pc, failed, evolution, ok, history>>

FailAudit(s) ==
    /\ "fail" \in Faults /\ faults < MaxFaults /\ faults' = faults + 1
    /\ pc = "audit" /\ s \in todo
    /\ todo' = todo \ {s} /\ failed' = failed \cup {s}
    /\ UNCHANGED <<graph, row, registry, control, pc, reopened, evolution, ok, changes, lost, away>>

(* Builder.graph goes over the reopened stages again, Builder.run over all of *)
(* them under an activated version, each some times; then the build verifies. *)
FinishAudit ==
    /\ pc = "audit" /\ todo = {}
    /\ new' = Covered("audit")
    /\ IF how = "update" THEN Ended /\ ok' = (failed = {})
       ELSE /\ reopened' = FALSE
            /\ IF reopened /\ pass < MaxReopen
               THEN pc' = "graph" /\ pass' = pass + 1 /\ UNCHANGED <<round, loaded, evolved>>
               ELSE IF evolved /\ round < MaxRounds
               THEN pc' = "graph" /\ round' = round + 1 /\ pass' = 0 /\ loaded' = active
                    /\ evolved' = FALSE
               ELSE pc' = "verify" /\ loaded' = active /\ UNCHANGED <<round, pass, evolved>>
            /\ UNCHANGED <<how, todo, failed, after, evolving, window, ok>>
    /\ UNCHANGED <<present, edge, judged, row, registry, history>>

(* The plan: the items left to run, among them those that the audit failed.   *)
RunnableItems == ToLink(loaded) \cup failed

(* Builder.verify: no item is left to run.                                    *)
Verify ==
    /\ pc = "verify"
    /\ ok' = (RunnableItems = {})
    /\ Ended
    /\ UNCHANGED <<graph, row, registry, history>>

(* A kill, or a stop of the run: what is not written is lost.                 *)
Kill ==
    /\ "kill" \in Faults /\ faults < MaxFaults /\ faults' = faults + 1
    /\ pc # "idle"
    /\ Ended
    /\ UNCHANGED <<graph, row, registry, ok, changes, lost, away>>

Next ==
    \/ \E c \in Chunks : Accept(c) \/ Drop(c) \/ Decide(c) \/ FailLink(c)
                         \/ \E connects \in BOOLEAN : JudgeOrphan(c, connects)
    \/ \E h \in {"build", "update"} : Start(h)
    \/ EnumerateLinks \/ AfterItem \/ Finalize
    \/ \E kept \in BOOLEAN : Propose(kept)
    \/ Activate \/ FailEvolution \/ StopEvolution \/ FinishLinks \/ StartAudit
    \/ \E s \in todo : JudgeEdge(s) \/ FailAudit(s)
    \/ FinishAudit \/ Verify \/ Kill

Spec == Init /\ [][Next]_vars

-----------------------------------------------------------------------------
(* When a build or update has ended well, and until the corpus changes, every *)
(* candidate pair is decided, over all failed items, kills, stops and earlier *)
(* builds, unless its item failed for good or chunks were dropped: then pairs *)
(* of old chunks come up, and chunks come back, that no item asks about       *)
(* (new_rows, undecided).                                                     *)
NothingForgotten ==
    ok /\ away = {} => \A p \in Candidates : edge[p] # NoEdge \/ p \in lost

(* Existing links are never re-decided (README.md, update): a decided pair    *)
(* keeps its pick and version, and its status, except that its chunks are     *)
(* dropped, or the audit demotes it while a chunk of it is new to the audit.  *)
ExistingLinksStand ==
    [][\A p \in Pairs : edge[p] # NoEdge =>
           /\ edge'[p].pick = edge[p].pick /\ edge'[p].under = edge[p].under
           /\ edge'[p].status # edge[p].status =>
                  ~(p \subseteq present') \/ (p \cap new["audit"] # {} /\ edge[p].status = "accepted")
      ]_vars

(* When the links of a build or update end, no approved version is inactive,  *)
(* and the unexamined `other` picks are too few for a type, unless a version  *)
(* was activated: then there is another round, or the rounds have run out; or *)
(* proposing a type for just these picks has failed for good (evolution.py;   *)
(* kills between approval and activation, and errors of either, included).    *)
EvolutionSettled ==
    /\ TypeOK
    /\ pc \in {"linked", "verify"} =>
           approved = 0 /\ (evolved \/ Cardinality(Others(Unseen)) < Enough \/ Spent(Unseen))
    /\ pc = "verify" /\ evolved => round = MaxRounds

=============================================================================
