------------------------------ MODULE Registry ------------------------------
(***************************************************************************)
(* Registry versions (registry/versioning.py, gate.py): a draft of the     *)
(* Registry tree is staged under its content hash, approved, and takes the *)
(* place of the active tree file by file; a row says what became of it.    *)
(* Drafts are made by bootstrap (S0, a human approves), by ontology        *)
(* evolution (Jev approves) and by the author of question sets.            *)
(*                                                                         *)
(* A version is its tree: a function from file names to contents.  `build` *)
(* and the `registry` and `qs` commands run side by side, each step a read *)
(* or a write of the disk or one transaction, and may be killed between    *)
(* any two.  Left out: what a file says, lint rules except for missing     *)
(* files, prefixes of versions, rows' times.                               *)
(***************************************************************************)
EXTENDS Naturals, Sequences, FiniteSets, SequencesExt, Functions

CONSTANTS
    Build, User,  \* the processes
    Order,        \* file names, in the order in which tree_files lists them
    OpenNeeds,    \* the files without which no command opens a runtime
    LintNeeds,    \* those without which lint fails, and every stage
    MaxContent,   \* bound on the contents of a file
    MaxDrafts,    \* bound on drafts
    MaxKills      \* bound on kills

Procs == {Build, User}
Files == ToSet(Order)
Contents == 0..MaxContent
Trees == UNION {[S -> Contents] : S \in SUBSET Files}
Shipped == [f \in LintNeeds |-> 0]

ASSUME RegistryAssumption ==
    /\ Build # User /\ Order \in Seq(Files) /\ IsInjective(Order)
    /\ OpenNeeds \subseteq LintNeeds /\ LintNeeds \subseteq Files
    /\ {"ontology", "policies"} \subseteq LintNeeds /\ "new_set" \in Files \ LintNeeds
    /\ MaxContent \in Nat \ {0} /\ {MaxDrafts, MaxKills} \subseteq Nat

VARIABLES
    tree,    \* the active tree on disk
    dirs,    \* dirs[v]: what is on disk under .proposals/<v>
    row,     \* row[v]: the registry_versions row
    corpus,  \* corpora.registry_version
    proc,    \* proc[p]: where a command is, and what it holds
    drafts, kills, \* history: bounds
    cut,     \* the last activation did not get as far as its transaction
    clash,   \* two activations have overlapped
    stale,   \* an activation has begun to change the tree since build has hashed it
    late     \* build has written corpora with such a hash, and nobody has written it since

vars == <<tree, dirs, row, corpus, proc, drafts, kills, cut, clash, stale, late>>

Idle == [pc |-> "idle", loaded |-> <<>>, version |-> <<>>, left |-> {}]
Places == {"idle", "open", "bootstrap", "evolution", "evolved", "author", "staging", "gate", "unlink", "copy", "commit"}
Rows == [status : {"proposed", "approved", "active", "superseded"},
         by : {"nobody", "human", "jev"}, kind : {"none", "bootstrap", "evolution"}]

TypeOK ==
    /\ tree \in Trees /\ corpus \in Trees
    /\ DOMAIN dirs \subseteq Trees /\ \A v \in DOMAIN dirs : dirs[v] \in Trees
    /\ DOMAIN row \subseteq DOMAIN dirs /\ \A v \in DOMAIN row : row[v] \in Rows
    /\ proc \in [Procs -> [pc : Places, loaded : Trees, version : Trees, left : SUBSET Files]]
    /\ drafts \in 0..MaxDrafts /\ kills \in 0..MaxKills /\ {cut, clash, stale, late} \subseteq BOOLEAN

Init ==
    /\ tree = Shipped /\ corpus = Shipped
    /\ dirs = <<>> /\ row = <<>>
    /\ proc = [p \in Procs |-> Idle]
    /\ drafts = 0 /\ kills = 0 /\ cut = FALSE /\ clash = FALSE /\ stale = FALSE /\ late = FALSE

-----------------------------------------------------------------------------
Has(t, needs) == needs \subseteq DOMAIN t
First(fs) == Order[Min({i \in DOMAIN Order : Order[i] \in fs})]
With(f, k, v) == [x \in DOMAIN f \cup {k} |-> IF x = k THEN v ELSE f[x]]

At(p, place) == proc[p].pc = place
Goes(p, place) == proc' = [proc EXCEPT ![p].pc = place]
Ends(p) == proc' = [proc EXCEPT ![p] = Idle]
Activating == {p \in Procs : proc[p].pc \in {"unlink", "copy", "commit"}}

(* _latest of kind bootstrap: build skips the drafting once one was active.   *)
Bootstrapped == \E v \in DOMAIN row : row[v].kind = "bootstrap" /\ row[v].status \in {"active", "superseded"}

(* Regression: only what this run has proposed is activated.                  *)
PendingHere == {v \in DOMAIN row : v = proc[Build].version /\ row[v].status = "approved"
                                   /\ row[v].by = "jev" /\ row[v].kind = "evolution"}

(* PENDING: versions that Jev approved.                                       *)
Pending == {v \in DOMAIN row : row[v].status = "approved" /\ row[v].by = "jev"
                               /\ row[v].kind = "evolution"}

(* record_proposal, record_approval: an upsert.  A proposal that has a row    *)
(* gets the new summary, and keeps its status.                                *)
Proposed(v, kind) ==
    With(row, v, IF v \in DOMAIN row THEN [row[v] EXCEPT !.kind = kind]
                 ELSE [status |-> "proposed", by |-> "nobody", kind |-> kind])
ApprovedBy(v, by, kind) == With(row, v, [status |-> "approved", by |-> by, kind |-> kind])
Kind(v) == IF v \in DOMAIN row THEN row[v].kind ELSE "none"

-----------------------------------------------------------------------------
(* A command opens its runtime and hashes the tree, once: Registry.version is  *)
(* cached as long as the command, or the phase of a build, lasts.             *)
Open(p, place) ==
    /\ At(p, "idle") /\ Has(tree, OpenNeeds)
    /\ proc' = [proc EXCEPT ![p] = [@ EXCEPT !.pc = place, !.loaded = tree]]
    /\ stale' = IF p = Build THEN Activating # {} ELSE stale
    /\ UNCHANGED <<tree, dirs, row, corpus, drafts, kills, cut, clash, late>>

StartBuild == Open(Build, "open")
StartAuthor == Open(User, "author")

(* ensure_corpus: the hash goes to the corpora row, whatever the tree is now. *)
EnsureCorpus ==
    /\ corpus' = proc[Build].loaded
    /\ late' = stale

(* Setup, and S0 or the first stage, do so before anything else; the stages   *)
(* need more files to get as far as evolution.                                *)
Setup ==
    /\ At(Build, "open")
    /\ EnsureCorpus
    /\ IF ~Bootstrapped THEN Goes(Build, "bootstrap")
       ELSE IF Has(proc[Build].loaded, LintNeeds) THEN Goes(Build, "evolution") ELSE Ends(Build)
    /\ UNCHANGED <<tree, dirs, row, drafts, kills, cut, clash, stale>>

(* Every stage of the build begins with the same write, with the same hash.   *)
StageBegins ==
    /\ proc[Build].pc \in {"bootstrap", "evolution", "evolved"}
    /\ EnsureCorpus
    /\ UNCHANGED <<tree, dirs, row, proc, drafts, kills, cut, clash, stale>>

(* What drafts change: bootstrap writes the ontology and the policies (_stage),*)
(* evolution adds to the relation types it has loaded, the author of question *)
(* sets adds a file.                                                          *)
BootstrapEdits == {[f \in {"ontology", "policies"} |-> c] : c \in 1..MaxContent}
EvolutionEdits(loaded) == [{"ontology"} -> {loaded["ontology"] + 1} \cap Contents]
AuthorEdits == [{"new_set"} -> {1}]
Edits(p) ==
    CASE At(p, "bootstrap") -> BootstrapEdits
      [] At(p, "evolution") -> EvolutionEdits(proc[p].loaded)
      [] At(p, "author") -> AuthorEdits

(* start_draft: a copy of the active tree as it is now, with the edits; and   *)
(* stage_proposal up to its copy, which a version staged before skips.        *)
Draft(p) ==
    /\ proc[p].pc \in {"bootstrap", "evolution", "author"} /\ proc[p].version = <<>>
    /\ At(p, "evolution") => Pending = {}
    /\ At(p, "bootstrap") => Has(tree, {"policies"})
    /\ drafts < MaxDrafts /\ drafts' = drafts + 1
    /\ \E edits \in Edits(p) :
           LET v == [f \in DOMAIN tree \cup DOMAIN edits |-> IF f \in DOMAIN edits THEN edits[f] ELSE tree[f]]
           IN IF v \in DOMAIN dirs
              THEN proc' = [proc EXCEPT ![p].version = v] /\ UNCHANGED dirs
              ELSE /\ dirs' = With(dirs, v, <<>>)
                   /\ proc' = [proc EXCEPT ![p] = [@ EXCEPT !.version = v, !.left = DOMAIN v]]
    /\ UNCHANGED <<tree, row, corpus, kills, cut, clash, stale, late>>

(* copytree: the files in whatever order the directory holds them.            *)
Stage(p) ==
    /\ p \notin Activating
    /\ \E f \in proc[p].left :
           /\ dirs' = [dirs EXCEPT ![proc[p].version] = With(@, f, proc[p].version[f])]
           /\ proc' = [proc EXCEPT ![p].left = @ \ {f}]
    /\ UNCHANGED <<tree, row, corpus, drafts, kills, cut, clash, stale, late>>

(* The draft is staged.  The author ends here; bootstrap writes the proposal; *)
(* what evolution kept is approved by Jev, if it passes lint.                 *)
Staged(p) == proc[p].version # <<>> /\ proc[p].left = {}

RecordNothing ==
    /\ At(User, "author") /\ Staged(User)
    /\ Ends(User)
    /\ UNCHANGED <<tree, dirs, row, corpus, drafts, kills, cut, clash, stale, late>>

RecordProposal ==
    /\ At(Build, "bootstrap") /\ Staged(Build)
    /\ Goes(Build, "gate")
    /\ row' = Proposed(proc[Build].version, "bootstrap")
    /\ UNCHANGED <<tree, dirs, corpus, drafts, kills, cut, clash, stale, late>>

RecordApproval ==
    LET v == proc[Build].version
    IN /\ At(Build, "evolution") /\ Staged(Build) /\ v \notin Pending
       /\ IF Has(dirs[v], LintNeeds)
          THEN row' = ApprovedBy(v, "jev", "evolution") /\ UNCHANGED proc
          ELSE Ends(Build) /\ UNCHANGED row
       /\ UNCHANGED <<tree, dirs, corpus, drafts, kills, cut, clash, stale, late>>

(* A build that has nothing to draft goes on: bootstrap to the gate, and      *)
(* evolution to its end.  One that has evolved ends after its last stage.     *)
NoDraft ==
    /\ proc[Build].version = <<>>
    /\ \/ At(Build, "bootstrap") /\ Goes(Build, "gate")
       \/ At(Build, "evolution") /\ Pending = {} /\ Ends(Build)
       \/ At(Build, "evolved") /\ Ends(Build)
    /\ UNCHANGED <<tree, dirs, row, corpus, drafts, kills, cut, clash, stale, late>>

(* gate.activate up to the first change of the tree.                          *)
Activate(p, v) ==
    /\ proc' = [proc EXCEPT ![p] = [@ EXCEPT !.pc = "unlink", !.version = v, !.left = DOMAIN tree]]
    /\ cut' = TRUE /\ stale' = TRUE
    /\ clash' = (clash \/ Activating # {})

(* Builder._gate: what bootstrap has proposed or a human has approved, is     *)
(* shown; lint errors or a human's no end the build.                          *)
Gate ==
    /\ At(Build, "gate")
    /\ \/ \E v \in DOMAIN row :
              /\ row[v].kind = "bootstrap" /\ row[v].status \in {"proposed", "approved"}
              /\ Has(dirs[v], LintNeeds)
              /\ row' = ApprovedBy(v, "human", "bootstrap")
              /\ Activate(Build, v)
       \/ Ends(Build) /\ UNCHANGED <<row, cut, clash, stale>>
    /\ UNCHANGED <<tree, dirs, corpus, drafts, kills, late>>

(* `registry approve`: any version that is staged and passes lint.            *)
Approve(v) ==
    /\ At(User, "idle") /\ Has(tree, OpenNeeds)
    /\ v \in DOMAIN dirs /\ Has(dirs[v], LintNeeds)
    /\ row' = ApprovedBy(v, "human", Kind(v))
    /\ UNCHANGED <<tree, dirs, corpus, proc, drafts, kills, cut, clash, stale, late>>

ActivateApproved(v) ==
    /\ At(User, "idle") /\ Has(tree, OpenNeeds)
    /\ v \in DOMAIN row /\ row[v].status = "approved"
    /\ Activate(User, v)
    /\ UNCHANGED <<tree, dirs, row, corpus, drafts, kills, late>>

ActivatePending(v) ==
    /\ At(Build, "evolution") /\ proc[Build].left = {}
    /\ v \in Pending
    /\ Activate(Build, v)
    /\ UNCHANGED <<tree, dirs, row, corpus, drafts, kills, late>>

(* versioning.activate: the files of the active tree are unlinked (one that   *)
(* is gone is an error), those of the proposal copied.                        *)
Unlink(p) ==
    /\ At(p, "unlink")
    /\ IF proc[p].left = {}
       THEN /\ proc' = [proc EXCEPT ![p] = [@ EXCEPT !.pc = "copy", !.left = DOMAIN dirs[proc[p].version]]]
            /\ UNCHANGED tree
       ELSE LET f == First(proc[p].left)
            IN IF f \in DOMAIN tree
               THEN /\ tree' = [g \in DOMAIN tree \ {f} |-> tree[g]]
                    /\ proc' = [proc EXCEPT ![p].left = @ \ {f}]
               ELSE Ends(p) /\ UNCHANGED tree
    /\ UNCHANGED <<dirs, row, corpus, drafts, kills, cut, clash, stale, late>>

Copy(p) ==
    /\ At(p, "copy") /\ proc[p].left # {}
    /\ LET f == First(proc[p].left)
       IN /\ tree' = With(tree, f, dirs[proc[p].version][f])
          /\ proc' = [proc EXCEPT ![p].left = @ \ {f}]
    /\ UNCHANGED <<dirs, row, corpus, drafts, kills, cut, clash, stale, late>>

(* Regression: the tree is not hashed again.                                  *)
CheckNothing(p) ==
    /\ At(p, "copy") /\ proc[p].left = {}
    /\ Goes(p, "commit")
    /\ UNCHANGED <<tree, dirs, row, corpus, drafts, kills, cut, clash, stale, late>>

Check(p) ==
    /\ At(p, "copy") /\ proc[p].left = {}
    /\ IF tree = proc[p].version THEN Goes(p, "commit") ELSE Ends(p)
    /\ UNCHANGED <<tree, dirs, row, corpus, drafts, kills, cut, clash, stale, late>>

(* The transaction of gate.activate.  After that of an evolution the build's   *)
(* other stages go on with the Registry it has loaded.                        *)
Commit(p) ==
    /\ At(p, "commit")
    /\ row' = [v \in DOMAIN row |->
                  IF v = proc[p].version THEN [row[v] EXCEPT !.status = "active"]
                  ELSE IF row[v].status = "active" THEN [row[v] EXCEPT !.status = "superseded"] ELSE row[v]]
    /\ corpus' = proc[p].version
    /\ cut' = FALSE /\ late' = FALSE
    /\ IF p = Build /\ row[proc[p].version].kind = "evolution"
       THEN proc' = [proc EXCEPT ![p] = [Idle EXCEPT !.pc = "evolved", !.loaded = proc[p].loaded]]
       ELSE Ends(p)
    /\ UNCHANGED <<tree, dirs, drafts, kills, clash, stale>>

Kill(p) ==
    /\ kills < MaxKills /\ kills' = kills + 1
    /\ ~At(p, "idle")
    /\ Ends(p)
    /\ UNCHANGED <<tree, dirs, row, corpus, drafts, cut, clash, stale, late>>

Step(p) == Draft(p) \/ Stage(p) \/ Unlink(p) \/ Copy(p) \/ Check(p) \/ Commit(p)
BuildStep ==
    \/ StartBuild \/ Setup \/ Step(Build) \/ RecordProposal \/ RecordApproval \/ NoDraft \/ Gate
    \/ \E v \in DOMAIN row : ActivatePending(v)
UserStep == Step(User) \/ RecordNothing

Next ==
    \/ BuildStep \/ StageBegins \/ UserStep \/ StartAuthor
    \/ \E v \in DOMAIN dirs : Approve(v) \/ ActivateApproved(v)
    \/ \E p \in Procs : Kill(p)

(* build is run again whenever it has ended, and no command stands still.     *)
Spec == Init /\ [][Next]_vars /\ WF_vars(BuildStep) /\ WF_vars(UserStep)

-----------------------------------------------------------------------------
(* Between activations, if none was cut off since and no two have overlapped, *)
(* the tree on disk is the shipped one or one that was approved, and no row   *)
(* but its own is active - whatever drafts are cut off while they are staged, *)
(* staged again, proposed or approved again.  It is the version of the corpus *)
(* too, unless the last to write that was a build with the hash of before an  *)
(* activation: a user's under it, or the one its own evolution has made.      *)
TreeAsRecorded ==
    /\ TypeOK
    /\ Activating = {} /\ ~cut /\ ~clash =>
           /\ late \/ corpus = tree
           /\ tree = Shipped \/ (tree \in DOMAIN row /\ row[tree].status \in {"active", "approved"})
           /\ \A v \in DOMAIN row : row[v].status = "active" => v = tree

(* "a build killed in between activates the approved row on resume"           *)
(* (evolution.py), as far as it is so: unless the tree has lost a file that   *)
(* the stages need, or the proposal one of its own to a kill, or activations  *)
(* have overlapped, or the active bootstrap version was approved once more:   *)
(* then the build waits for the human at the gate again.                      *)
PendingLands ==
    []<>(clash \/ ~Has(tree, LintNeeds) \/ ~Bootstrapped
         \/ \A v \in DOMAIN row : row[v] = [status |-> "approved", by |-> "jev", kind |-> "evolution"]
                                   => dirs[v] # v)

=============================================================================
