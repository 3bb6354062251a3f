------------------------------ MODULE Training ------------------------------
(***************************************************************************)
(* Training examples (pipeline/s8_training.py, review/queue.py): `train    *)
(* build` runs two stages over the finished graph.  The first writes one   *)
(* example per source (a fact, a path, an edge), the second derives        *)
(* examples from the accepted ones; each ends by retiring what is no       *)
(* longer selected, dropping near-duplicates and assigning splits.  Edits  *)
(* of the corpus and of the registry fall between runs, a reviewer's       *)
(* verdicts at any time.                                                   *)
(*                                                                         *)
(* A payload is the registry version whose prompt its text came from, or   *)
(* the chunks a derived example adds.  Left out: decision IDs, --limit and      *)
(* --sample, instruction (a qa template with a quota).  Path quotas and    *)
(* derived quotas are never reached.                                       *)
(***************************************************************************)
EXTENDS Integers, FiniteSets, FiniteSetsExt, Sequences, Functions, SequencesExt


CONSTANTS
    Chunks,        \* content chunks, numbered in their order
    Docs,          \* documents, numbered
    Home,          \* Home[c]: the document of c at first
    FactsOf,       \* FactsOf[c]: its verified claims, numbered
    Long,          \* chunks of at least min_chunk_tokens
    FactsPerChunk, \* training.coverage.facts_per_chunk
    Links,         \* the edges there can be: [src, dst, rel, directed, hop]
    Quota,         \* training.quotas.graph_reasoning
    Hops,          \* edges of a multi-hop path
    SplitOf,       \* SplitOf[d]: where the hash of document d falls
    Policies,      \* training.splits.by, one of them per behaviour
    Alike,         \* pairs of chunks whose questions ask the same thing
    Rounds,        \* training.output_rules.reauthor_rounds
    Menus,         \* sets of templates (training_templates), one of them per behaviour
    MaxRuns,       \* bound on runs
    MaxVerdicts,   \* bound on verdicts
    MaxFaults,     \* bound on items that fail and runs that stop
    MaxChanges     \* bound on edits between runs

Generated == {"qa", "hop", "graph", "triple", "fact"}
Derived == {"pair", "rerank"}
Prompted == {"qa", "hop", "graph"}
Outcomes == {"accept", "reject", "uncertain"}
Statuses == {"accepted", "rejected", "review", "duplicate", "superseded"}
None == "unassigned"
CrossSplit == "cross_split"
SplitNames == Range(SplitOf)

ASSUME TrainingAssumption ==
    /\ Chunks \subseteq Nat /\ Docs \subseteq Nat /\ IsFiniteSet(Docs)
    /\ Home \in [Chunks -> Docs] /\ DOMAIN FactsOf = Chunks /\ SplitOf \in [Docs -> SplitNames]
    /\ \A e \in DOMAIN Links : {Links[e].src, Links[e].dst} \subseteq Chunks
    /\ {None, CrossSplit} \cap SplitNames = {}
    /\ Policies \subseteq {"document", "component"}
    /\ \A m \in Menus : m \subseteq Generated \cup Derived

VARIABLES
    docOf, live, edges, \* the graph: documents of chunks, accepted chunks and edges
    by,                 \* the split policy
    ex,                 \* training_examples: status, split and source chunks by example
    done,               \* the stages' ledger rows: the input of each item written
    deduped,            \* deduped[t]: the examples the item dedup:t was done for
    open, resolved,     \* review_queue rows, by example and reason
    stage, step, todo,  \* the run: its stage, step and items left
    menu, current,      \* the templates and the source keys it enumerated (SOURCES_KEY)
    fresh,              \* history: the graph is as it was when splits were assigned
    settled,            \* history: the last run went through, nobody ruled since
    revived,            \* history: superseded examples a reviewer ruled on
    stale,              \* history: examples ruled on that had a split from an earlier graph
    version,            \* edits of prompts, question sets and policies so far
    runs, faults, changes \* counted for their bounds

graph == <<docOf, live, edges>>
registry == <<by, menu, version>>
reviews == <<open, resolved, revived, stale>>
run == <<stage, step, todo, current, runs, faults>>
vars == <<graph, registry, ex, done, deduped, reviews, run, fresh, settled, changes>>

With(f, k, v) == [x \in DOMAIN f \cup {k} |-> IF x = k THEN v ELSE f[x]]
Id(tpl, key, payload) == <<tpl, key, payload>>
Having(tpl, status) == {id \in DOMAIN ex : id[1] = tpl /\ ex[id].status = status}
WithStatus(ids, status) == [id \in DOMAIN ex |-> IF id \in ids THEN [ex[id] EXCEPT !.status = status] ELSE ex[id]]

-----------------------------------------------------------------------------
(* Splits: a hash of the chunk's document, or of its connected component.  *)

Ends(e) == {Links[e].src, Links[e].dst}

\* The documents joined to d by accepted edges, directly or not.
Component(d) ==
    {x \in Docs : \A D \in SUBSET Docs :
        (d \in D /\ \A e \in edges : LET ds == {docOf[c] : c \in Ends(e)} IN ds \cap D # {} => ds \subseteq D) => x \in D}

SplitKeyOfChunk(c) == docOf[c]

\* The root of a component is its least document (component_keys).
SplitKey(c) == IF by = "document" THEN docOf[c] ELSE Min(Component(docOf[c]))

SplitsOf(cs) == {SplitOf[SplitKey(c)] : c \in cs}
SplitFor(cs) == IF Cardinality(SplitsOf(cs)) = 1 THEN CHOOSE s \in SplitsOf(cs) : TRUE ELSE CrossSplit

-----------------------------------------------------------------------------
(* Sources of the generated templates.                                     *)

Facts(c) == {f \in FactsOf[c] : Cardinality({g \in FactsOf[c] : g < f}) < FactsPerChunk}

Coverage == (UNION {{<<c, f>> : f \in Facts(c)} : c \in live})
            \cup {<<c>> : c \in {x \in live \cap Long : FactsOf[x] = {}}}

\* Round-robin over the strata of the edges, their relations.
Rank(e) == Cardinality({x \in edges : x < e /\ Links[x].rel = Links[e].rel})
Stratified(quota) ==
    {e \in edges : quota > Cardinality({x \in edges : Rank(x) < Rank(e) \/ (Rank(x) = Rank(e) /\ Links[x].rel < Links[e].rel)})}

\* With document splits a path never spans splits.
HopEdges == {e \in edges : Links[e].hop /\ (by = "document" => Cardinality({SplitOf[docOf[c]] : c \in Ends(e)}) = 1)}

Step(a, b) == \E e \in HopEdges : LET l == Links[e] IN <<a, b>> = <<l.src, l.dst>> \/ (~l.directed /\ <<b, a>> = <<l.src, l.dst>>)
AllPaths == {p \in [1 .. Hops + 1 -> live] : IsInjective(p) /\ \A i \in 1 .. Hops : Step(p[i], p[i + 1])}

\* One path per start node.
Paths == {p \in AllPaths : p = CHOOSE q \in AllPaths : q[1] = p[1]}

\* What the examples of a template are made from now, by source key.
Sources(tpl) ==
    CASE tpl = "qa" -> Coverage
      [] tpl = "hop" -> Paths
      [] tpl = "graph" -> {<<e>> : e \in Stratified(Quota)}
      [] tpl = "triple" -> {<<e>> : e \in edges}
      [] tpl = "fact" -> UNION {{<<c, f>> : f \in FactsOf[c]} : c \in live}
      [] tpl \in Derived -> Having("qa", "accepted")

\* The part of a source's row that can change under the same key.
Row(tpl, key) == CASE tpl = "qa" -> <<docOf[key[1]]>> [] tpl = "hop" -> [i \in DOMAIN key |-> docOf[key[i]]] [] OTHER -> <<>>

\* The items of the stage that the ledger does not have as done for their present input.
Due(tpls, cur) == {i \in UNION {{<<t, k>> : k \in cur[t]} : t \in tpls} :
                      ~(i \in DOMAIN done /\ done[i] = Row(i[1], i[2]))}

-----------------------------------------------------------------------------
(* What Jev's answers make of an example.                                  *)

Combine(outs) == IF "reject" \in outs THEN "rejected" ELSE IF outs = {"accept"} THEN "accepted" ELSE "review"

Inverted(o) == CASE o = "accept" -> "reject" [] o = "reject" -> "accept" [] OTHER -> o

\* Filter, premise and citations; an ungrounded answer is rejected unasked.
Single == {{"reject"}} \cup {{f, p, c} : f, p, c \in Outcomes}
\* Each passage must be needed: that the question can be answered without it is bad.
Multihop == {{Inverted(n), m, p, c} : n, m, p, c \in Outcomes}
\* Citations only; none at all is a rejection.
GraphReasoning == {{c} : c \in Outcomes}

\* Authoring rounds: a text that breaks a rule is rewritten while rounds last and the
\* harness answers; the last check of it decides.
Authored == {checks \in BoundedSeq(Outcomes, Rounds + 1) :
                checks # <<>> /\ \A i \in 1 .. Len(checks) - 1 : checks[i] = "reject"}

\* The output rules overrule the verdict.
Ruled(status, last) ==
    IF last = "reject" THEN "rejected"
    ELSE IF last # "accept" /\ status = "accepted" THEN "review" ELSE status

\* What is uncertain is reviewed, for either of two reasons.
Reviews(status, last) ==
    IF Ruled(status, last) # "review" THEN {} ELSE IF status = "review" THEN {"filter"} ELSE {"rules"}

\* A new prompt may give the text an old one gave.
Generate(judged, cs) == {[payload |-> v, status |-> Ruled(Combine(j), Last(a)), chunks |-> cs,
                          reviews |-> Reviews(Combine(j), Last(a))] :
                            v \in 0 .. version, a \in Authored, j \in judged}
\* Made without a question to Jev that could leave it uncertain.
Given(payload, status, cs) == [payload |-> payload, status |-> status, chunks |-> cs, reviews |-> {}]

\* Passages near the query that Jev says do not answer it; with document splits
\* only from the split of the positives, when they are in one.
SameSplit(cs) == IF by = "document" /\ Cardinality(SplitsOf(cs)) = 1
                 THEN {c \in live : SplitsOf({c}) = SplitsOf(cs)} ELSE live

RetrievalPair(src) ==
    {Given(neg, IF neg = {} THEN "rejected" ELSE "accepted", ex[src].chunks \cup neg) :
        neg \in SUBSET (SameSplit(ex[src].chunks) \ ex[src].chunks)}

\* The nearest passages, each with Jev's relevance as its label.
Rerank(src) == {Given(live, IF live = {} THEN "rejected" ELSE "accepted", live)}

\* What processing an item may come to.
Results(tpl, key) ==
    CASE tpl = "qa" -> Generate(Single, {key[1]})
      [] tpl = "hop" -> Generate(Multihop, Range(key))
      [] tpl = "graph" -> Generate(GraphReasoning, Ends(key[1]))
      [] tpl = "triple" -> {Given(0, "accepted", Ends(key[1]))}
      [] tpl = "fact" -> {Given(0, "accepted", {key[1]})}
      [] tpl = "pair" -> RetrievalPair(key)
      [] tpl = "rerank" -> Rerank(key)

-----------------------------------------------------------------------------
(* The run.                                                                *)

Enumerate(tpls) ==
    LET cur == [t \in DOMAIN current \cup tpls |-> IF t \in tpls THEN Sources(t) ELSE current[t]] IN
    /\ current' = cur
    /\ todo' = Due(tpls, cur)
    /\ step' = "work"

Fault == faults < MaxFaults /\ faults' = faults + 1

Start ==
    /\ step = "idle" /\ runs < MaxRuns /\ runs' = runs + 1
    /\ stage' = "training"
    /\ LET tpls == menu \cap Generated IN
       LET cur == [t \in tpls |-> Sources(t)] IN
       /\ current' = cur
       /\ todo' = Due(tpls, cur)
       /\ step' = "work"
    /\ settled' = "running"
    /\ UNCHANGED <<faults, graph, registry, ex, done, deduped, reviews, fresh, changes>>

StartDerived ==
    /\ step = "next"
    /\ stage' = "training_derived"
    /\ Enumerate(menu \cap Derived)
    /\ UNCHANGED <<graph, registry, ex, done, deduped, reviews, runs, faults, fresh, settled, changes>>

ReplacedAccepted(tpl, key, id) == {x \in Having(tpl, "accepted") : x[2] = key /\ x # id}

\* Other examples of the source, of whatever status, give way to the one written.
Replaced(tpl, key, id) == {x \in DOMAIN ex : x[1] = tpl /\ x[2] = key /\ x # id}


\* One item processed and written in one transaction with its ledger row (_writer).
\* A review that is there already keeps its status.
Write(tpl, key) ==
    /\ step = "work" /\ <<tpl, key>> \in todo
    /\ \E r \in Results(tpl, key) :
        LET id == Id(tpl, key, r.payload) IN
        /\ ex' = With(WithStatus(Replaced(tpl, key, id), "superseded"), id,
                       [status |-> r.status, split |-> None, chunks |-> r.chunks])
        /\ open' = open \cup ({<<id, reason>> : reason \in r.reviews} \ resolved)
        /\ revived' = revived \ {id}
    /\ done' = With(done, <<tpl, key>>, Row(tpl, key))
    /\ todo' = todo \ {<<tpl, key>>}
    /\ UNCHANGED <<graph, registry, deduped, resolved, stale, stage, step, current, runs, faults, fresh, settled, changes>>

\* The harness has no valid record, or a call fails: the item is left for a later run.
ItemFails(tpl, key) ==
    /\ Fault
    /\ step = "work" /\ <<tpl, key>> \in todo
    /\ todo' = todo \ {<<tpl, key>>}
    /\ UNCHANGED <<graph, registry, ex, done, deduped, reviews, stage, step, current, runs, fresh, settled, changes>>

UnselectedGenerated == {id \in DOMAIN ex : id[1] \in DOMAIN current \cap Generated /\ id[2] \notin current[id[1]]}
Unselected == {id \in DOMAIN ex : id[1] \in DOMAIN current /\ id[2] \notin current[id[1]]}

\* finalize begins: examples whose source is no longer selected are superseded.
Retire ==
    /\ step = "work" /\ todo = {}
    /\ ex' = WithStatus(Unselected, "superseded")
    /\ LET tpls == {t \in Prompted : {id \in DOMAIN ex : id[1] = t /\ ex'[id].status = "accepted"} # {}} IN
       todo' = IF stage = "training" THEN {<<t>> : t \in tpls} ELSE {}
    /\ step' = "finalize"
    /\ UNCHANGED <<graph, registry, done, deduped, reviews, stage, current, runs, faults, fresh, settled, changes>>

\* Of two questions alike, the later one is dropped, unless the earlier one was.
Dropped(group, D) ==
    \A j \in group : j \in D <=> \E i \in group \ D : i[2][1] < j[2][1] /\ <<i[2][1], j[2][1]>> \in Alike

\* The item dedup:t, keyed by the accepted examples; done for the same ones, it is skipped.
Dedup(t) ==
    /\ step = "finalize" /\ <<t>> \in todo
    /\ LET group == Having(t, "accepted") IN
       IF t \in DOMAIN deduped /\ deduped[t] = group THEN UNCHANGED <<ex, deduped>>
       ELSE /\ \E D \in SUBSET group : Dropped(group, D) /\ ex' = WithStatus(D, "duplicate")
            /\ deduped' = With(deduped, t, group)
    /\ todo' = todo \ {<<t>>}
    /\ UNCHANGED <<graph, registry, done, reviews, stage, step, current, runs, faults, fresh, settled, changes>>

\* A failure fails only this item (keep_going).
DedupFails(t) ==
    /\ Fault
    /\ step = "finalize" /\ <<t>> \in todo
    /\ todo' = todo \ {<<t>>}
    /\ UNCHANGED <<graph, registry, ex, done, deduped, reviews, stage, step, current, runs, fresh, settled, changes>>

\* finalize ends: every accepted example, of any template, gets the split of its chunks.
AssignSplits ==
    /\ step = "finalize" /\ todo = {}
    /\ ex' = [id \in DOMAIN ex |->
                 IF ex[id].status = "accepted" THEN [ex[id] EXCEPT !.split = SplitFor(ex[id].chunks)] ELSE ex[id]]
    /\ fresh' = TRUE /\ stale' = {}
    /\ step' = IF stage = "training" THEN "next" ELSE "idle"
    /\ settled' = IF stage = "training_derived" /\ settled = "running" THEN "yes" ELSE settled
    /\ UNCHANGED <<graph, registry, done, deduped, open, resolved, revived, stage, todo, current, runs, faults, changes>>

\* A usage limit, an outage or a kill: what is written stays, nothing is finalized.
Stop ==
    /\ Fault
    /\ step # "idle"
    /\ step' = "idle" /\ todo' = {} /\ settled' = "no"
    /\ UNCHANGED <<graph, registry, ex, done, deduped, reviews, stage, current, runs, fresh, changes>>

-----------------------------------------------------------------------------
(* The reviewer, and edits between runs.                                   *)

\* A verdict is applied to the example, whatever became of it since it was queued.
Resolve(review, verdict) ==
    LET id == review[1] IN
    /\ review \in open /\ Cardinality(resolved) < MaxVerdicts
    /\ ex' = WithStatus({id}, verdict)
    /\ open' = open \ {review} /\ resolved' = resolved \cup {review}
    /\ revived' = IF ex[id].status = "superseded" THEN revived \cup {id} ELSE revived
    /\ stale' = IF ex[id].status # "accepted" /\ ex[id].split # None THEN stale \cup {id} ELSE stale
    /\ settled' = "no"
    /\ UNCHANGED <<graph, registry, done, deduped, run, fresh, changes>>

Edit == step = "idle" /\ changes < MaxChanges /\ changes' = changes + 1

\* A chunk's text turns up in another document.
Move(c, d) ==
    /\ Edit /\ c \in live /\ docOf[c] # d
    /\ docOf' = [docOf EXCEPT ![c] = d] /\ fresh' = FALSE
    /\ UNCHANGED <<live, edges, registry, ex, done, deduped, reviews, run, settled>>

\* A chunk goes with its edges; one is accepted that was not, or is there again.
Withdraw(c) ==
    /\ Edit /\ c \in live
    /\ live' = live \ {c} /\ edges' = {e \in edges : c \notin Ends(e)} /\ fresh' = FALSE
    /\ UNCHANGED <<docOf, registry, ex, done, deduped, reviews, run, settled>>

Return(c) ==
    /\ Edit /\ c \in Chunks \ live
    /\ live' = live \cup {c} /\ fresh' = FALSE
    /\ UNCHANGED <<docOf, edges, registry, ex, done, deduped, reviews, run, settled>>

\* A build accepts an edge.
Link(e) ==
    /\ Edit /\ e \in DOMAIN Links \ edges /\ Ends(e) \subseteq live
    /\ edges' = edges \cup {e} /\ fresh' = FALSE
    /\ UNCHANGED <<docOf, live, registry, ex, done, deduped, reviews, run, settled>>

\* An edited prompt, question set or policy makes every item stale (deps_hash).
NewVersion ==
    /\ Edit /\ done # <<>>
    /\ version' = version + 1 /\ done' = <<>> /\ deduped' = <<>>
    /\ UNCHANGED <<graph, by, menu, ex, reviews, run, fresh, settled>>

Init ==
    /\ docOf = Home /\ live \in SUBSET Chunks /\ edges \in SUBSET {e \in DOMAIN Links : Ends(e) \subseteq live}
    /\ by \in Policies /\ menu \in Menus
    /\ ex = <<>> /\ done = <<>> /\ deduped = <<>>
    /\ open = {} /\ resolved = {} /\ revived = {} /\ stale = {}
    /\ stage = "training" /\ step = "idle" /\ todo = {} /\ current = <<>>
    /\ fresh = FALSE /\ settled = "no" /\ version = 0 /\ runs = 0 /\ faults = 0 /\ changes = 0

Next ==
    \/ Start \/ StartDerived \/ Retire \/ AssignSplits \/ Stop
    \/ \E i \in todo : Len(i) = 2 /\ (Write(i[1], i[2]) \/ ItemFails(i[1], i[2]))
    \/ \E t \in Prompted : Dedup(t) \/ DedupFails(t)
    \/ \E review \in open, v \in {"accepted", "rejected"} : Resolve(review, v)
    \/ \E c \in Chunks : Withdraw(c) \/ Return(c) \/ \E d \in Docs : Move(c, d)
    \/ \E e \in DOMAIN Links : Link(e)
    \/ NewVersion

Spec == Init /\ [][Next]_vars

-----------------------------------------------------------------------------
\* What `train export` writes, by template and split.
Exported == {id \in DOMAIN ex : ex[id].status = "accepted" /\ ex[id].split # CrossSplit}

\* Every example has a known status and split, and an item done has left its example.
TypeOK ==
    /\ docOf \in [Chunks -> Docs] /\ live \subseteq Chunks /\ edges \subseteq DOMAIN Links
    /\ \A id \in DOMAIN ex : ex[id].status \in Statuses /\ ex[id].split \in SplitNames \cup {None, CrossSplit}
    /\ \A i \in DOMAIN done : \E id \in DOMAIN ex : <<id[1], id[2]>> = i
    /\ \A review \in open \cup resolved : review[1] \in DOMAIN ex

\* No two splits of the examples share a document or, with component splits, documents
\* that edges join.
SplitsApart(examples) ==
    \A a, b \in examples :
        (None \notin {ex[a].split, ex[b].split} /\ ex[a].split # ex[b].split) =>
            \A c \in ex[a].chunks, d \in ex[b].chunks :
                docOf[c] # docOf[d] /\ (by = "component" => docOf[d] \notin Component(docOf[c]))

\* While the graph is as it was when splits were assigned, the splits of an export are
\* apart, whatever was written, reviewed or stopped since (assign_splits; README.md:272),
\* but for examples that a reviewer took back with the split they had before.
NoLeakage == fresh => SplitsApart(Exported \ stale)

\* After a run that went through, an accepted derived example rests on an accepted one
\* (sources, retire_unselected: the first stage may reject, supersede or drop its source).
DerivedFollowsSource ==
    settled = "yes" => \A id \in DOMAIN ex :
        (id[1] \in menu \cap Derived /\ ex[id].status = "accepted") => ex[id[2]].status = "accepted"

\* A source has one example that counts, however often it was rewritten, unless a reviewer
\* ruled on one that had been superseded (_writer, resolve).
OneExamplePerSource ==
    /\ TypeOK
    /\ \A a, b \in DOMAIN ex \ revived :
        (a[1] = b[1] /\ a[2] = b[2] /\ "superseded" \notin {ex[a].status, ex[b].status}) => a = b
=============================================================================
