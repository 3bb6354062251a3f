-------------------------------- MODULE Query --------------------------------
(***************************************************************************)
(* query/search.py, query/graphrag.py, pipeline/citations.py: a query is   *)
(* routed by Jev, seeded by search, expanded hop by hop over accepted      *)
(* edges through Jev's gate, assembled into passages and, for `ask`,       *)
(* answered by a harness whose every sentence Jev checks.                  *)
(*                                                                         *)
(* Every read is a transaction of its own, and between two of them the     *)
(* build may edit the database, or a publish may put another in its place. *)
(* A link is <<number, one end, other end, relation>>; a smaller number is *)
(* a greater weight.  What Jev, the embedding and the harness say is a     *)
(* free choice.                                                            *)
(***************************************************************************)
EXTENDS Integers, FiniteSets, FiniteSetsExt

CONSTANTS
    Copies,     \* databases the server may read: [there, accepted, links, communities]
    MaxSwaps,   \* bound on the changes of the database during a query
    Plans,      \* retrieval plans: [hops, seeds, relations, communities, outOfScope]
    Fallback,   \* the plan when Jev's route does not count
    MaxNeighbors,   \* links followed from a chunk in a hop
    Window,     \* passages that fit the answer model's window
    Drafts,     \* drafts of the harness: sets of sentences, [id, cites]
    MaxFailures \* bound on the reads and calls that raise

ASSUME QueryAssumption ==
    /\ \A p \in Plans \cup {Fallback} : p.hops \in Nat
    /\ {MaxSwaps, MaxFailures} \subseteq Nat

VARIABLES
    served,     \* the database as it is now
    swaps, failures,
    q,          \* the query that runs: its locals
    audit,      \* the queries' decisions in the database that serves now
    asked,      \* history: what Jev was asked for this query
    replaced,   \* history: the decisions publishes took away during it
    live        \* history: chunks accepted in some database during the query

queryVars == <<served, swaps, failures, q, audit, asked, replaced, live>>

NoPlan == [hops |-> 0, seeds |-> 0, relations |-> {}, communities |-> FALSE, outOfScope |-> FALSE]
Fresh == [pc |-> "idle", kind |-> "none", plan |-> NoPlan, ann |-> {}, hits |-> {}, seeds |-> {},
          nodes |-> {}, used |-> {}, frontier |-> {}, hop |-> 0, rows |-> {}, passages |-> {},
          made |-> {}, draft |-> {}, again |-> FALSE, kept |-> {}, answerable |-> FALSE]

InitQuery ==
    /\ served \in Copies
    /\ swaps = 0
    /\ failures = 0
    /\ q = Fresh
    /\ audit = {}
    /\ asked = {}
    /\ replaced = {}
    /\ live = {}

QueryTypeOK ==
    /\ served \in Copies
    /\ swaps \in 0..MaxSwaps
    /\ failures \in 0..MaxFailures
    /\ DOMAIN q = DOMAIN Fresh
    /\ q.kind \in {"none", "search", "context", "ask"}
    /\ q.plan \in Plans \cup {Fallback, NoPlan}
    /\ q.hop \in 0..q.plan.hops
    /\ q.seeds \cup q.frontier \subseteq q.nodes
    /\ q.pc = "finish" => q.kept \subseteq q.draft

At(s) == q.pc = s
Smallest(S, k) == CHOOSE T \in kSubset(IF Cardinality(S) < k THEN Cardinality(S) ELSE k, S) :
                    \A x \in T, y \in S \ T : x[1] < y[1]
Some(S, k) == kSubset(IF Cardinality(S) < k THEN Cardinality(S) ELSE k, S)
Made(ds) == q.made \cup ds
Reading == UNCHANGED <<served, swaps, failures, audit, replaced, live>>

-----------------------------------------------------------------------------
Change ==
    /\ swaps < MaxSwaps
    /\ swaps' = swaps + 1
    /\ served' \in Copies
    /\ live' = live \cup served'.accepted
    /\ UNCHANGED <<failures, q, asked>>

(* The build edits the graph of the database that serves. *)
EditGraph == Change /\ served' # served /\ UNCHANGED <<audit, replaced>>

(* A publish puts another database in its place, with the decisions of the    *)
(* build: those of queries go with the one that served.                       *)
Publish == Change /\ audit' = {} /\ replaced' = replaced \cup audit

(* POST /search; the MCP tool graph_context; the command `ask`. *)
Start(kind) ==
    /\ At("idle")
    /\ q' = [Fresh EXCEPT !.pc = IF kind = "search" THEN "ann" ELSE "route", !.kind = kind]
    /\ live' = served.accepted
    /\ asked' = {} /\ replaced' = {}
    /\ UNCHANGED <<served, swaps, failures, audit>>

Route ==
    /\ At("route")
    /\ \E p \in Plans \cup {Fallback} :
         q' = [q EXCEPT !.plan = p, !.made = Made({<<"route">>}),
                        !.pc = IF p.outOfScope THEN "persist" ELSE "ann"]
    /\ asked' = asked \cup {<<"route">>}
    /\ Reading

(* candidates: nearest neighbours, full text, then the rows of the best. *)
Ann ==
    /\ At("ann")
    /\ \E S \in SUBSET served.accepted : q' = [q EXCEPT !.ann = S, !.pc = "fts"]
    /\ UNCHANGED asked /\ Reading

Fts ==
    /\ At("fts")
    /\ \E S \in SUBSET served.accepted : q' = [q EXCEPT !.ann = @ \cup S, !.pc = "rows"]
    /\ UNCHANGED asked /\ Reading

Rows ==
    /\ At("rows")
    /\ q' = [q EXCEPT !.hits = q.ann \cap served.there, !.pc = "rerank"]
    /\ UNCHANGED asked /\ Reading

(* rerank: each candidate is judged; the best are the seeds. *)
Rerank ==
    /\ At("rerank")
    /\ LET ds == {<<"passage", c>> : c \in q.hits} IN
       /\ \E S \in IF q.kind = "search" THEN SUBSET q.hits ELSE Some(q.hits, q.plan.seeds) :
            q' = [q EXCEPT !.seeds = S, !.nodes = S, !.frontier = S, !.made = Made(ds),
                           !.passages = IF q.kind = "search" THEN {<<"chunk", c>> : c \in S} ELSE {},
                           !.pc = IF q.kind = "search" THEN "persist" ELSE "hop"]
       /\ asked' = asked \cup ds
    /\ Reading

-----------------------------------------------------------------------------
(* expand *)
Links(f) == {l \in served.links : f \in {l[2], l[3]} /\ l[4] \in q.plan.relations}
Other(l, f) == IF l[2] = f THEN l[3] ELSE l[2]

(* The heaviest links of each chunk of the frontier, to chunks not found yet. *)
ReadLinks ==
    /\ At("hop") /\ q.frontier # {} /\ q.hop < q.plan.hops
    /\ LET rows == UNION {{<<l[1], f, Other(l, f)>> : l \in Smallest(Links(f), MaxNeighbors)} : f \in q.frontier}
       IN  q' = [q EXCEPT !.rows = {r \in rows : r[3] \notin q.nodes}, !.pc = "texts"]
    /\ UNCHANGED asked /\ Reading

(* Regression: the texts of neighbours are read whatever their status. *)
ReadAnyTexts ==
    /\ At("texts")
    /\ q' = [q EXCEPT !.rows = {r \in @ : r[3] \in served.there}, !.pc = "gate"]
    /\ UNCHANGED asked /\ Reading

ReadTexts ==
    /\ At("texts")
    /\ q' = [q EXCEPT !.rows = {r \in @ : r[3] \in served.accepted}, !.pc = "gate"]
    /\ UNCHANGED asked /\ Reading

(* A chunk is taken through one of the links that pass the gate. *)
Taken(yes) == {CHOOSE r \in yes : r[3] = c : c \in {r[3] : r \in yes}}

Gate ==
    /\ At("gate")
    /\ LET ds == {<<"expand", r[1], r[3]>> : r \in q.rows} IN
       /\ \E yes \in SUBSET q.rows :
            LET added == {r[3] : r \in Taken(yes)} IN
            q' = [q EXCEPT !.nodes = @ \cup added, !.used = @ \cup Taken(yes), !.frontier = added,
                           !.hop = @ + 1, !.rows = {}, !.made = Made(ds), !.pc = "hop"]
       /\ asked' = asked \cup ds
    /\ Reading

(* communities_for and assemble; only `ask` has a window to fit. *)
Assemble ==
    /\ At("hop") /\ (q.frontier = {} \/ q.hop = q.plan.hops)
    /\ LET comms == IF q.plan.communities
                    THEN {<<"community", m>> : m \in {m \in served.communities : m \cap q.nodes # {}}}
                    ELSE {}
           items == {<<"chunk", c>> : c \in q.nodes} \cup comms
       IN  \E kept \in IF q.kind = "ask" THEN Some(items, Window) ELSE {items} :
             q' = [q EXCEPT !.passages = kept, !.answerable = kept # {},
                            !.pc = IF q.kind = "ask" THEN "answerable" ELSE "persist"]
    /\ UNCHANGED asked /\ Reading

(* Jev, not the answer harness, decides whether the passages can answer. *)
Answerable ==
    /\ At("answerable")
    /\ \E no \in BOOLEAN :
         q' = [q EXCEPT !.passages = IF no THEN {} ELSE @, !.answerable = @ /\ ~no,
                        !.made = Made({<<"answerable">>}), !.pc = "persist"]
    /\ asked' = asked \cup {<<"answerable">>}
    /\ Reading

(* persist, and the return of what needs no answer. *)
Persist ==
    /\ At("persist")
    /\ audit' = audit \cup q.made
    /\ q' = [q EXCEPT !.pc = IF q.kind = "ask" /\ q.answerable THEN "answer" ELSE "returned", !.made = {}]
    /\ UNCHANGED <<served, swaps, failures, asked, replaced, live>>

-----------------------------------------------------------------------------
DraftAnswer ==
    /\ At("answer")
    /\ \E d \in Drafts : q' = [q EXCEPT !.draft = d, !.pc = "check"]
    /\ UNCHANGED asked /\ Reading

(* Sentences failed, and it is the first draft (on_citation_fail). *)
Redrafted(yes) == yes # q.draft /\ ~q.again

(* check_sentences: a sentence without a resolvable citation fails; with failures *)
(* the harness is asked once more.                                               *)
Check ==
    /\ At("check")
    /\ LET cited == {s \in q.draft : s.cites \cap q.passages # {}}
           ds == {<<"citation", s.id, s.cites>> : s \in cited}
       IN  /\ \E yes \in SUBSET cited :
                q' = [q EXCEPT !.kept = yes, !.made = Made(ds),
                               !.again = Redrafted(yes), !.pc = IF Redrafted(yes) THEN "answer" ELSE "finish"]
           /\ asked' = asked \cup ds
    /\ Reading

(* Regression: only the decisions of the last check are written. *)
FinishLast ==
    /\ At("finish")
    /\ audit' = audit \cup {d \in q.made : \E s \in q.draft : d = <<"citation", s.id, s.cites>>}
    /\ q' = [q EXCEPT !.pc = "returned", !.made = {}]
    /\ UNCHANGED <<served, swaps, failures, asked, replaced, live>>

Finish ==
    /\ At("finish")
    /\ audit' = audit \cup q.made
    /\ q' = [q EXCEPT !.pc = "returned", !.made = {}]
    /\ UNCHANGED <<served, swaps, failures, asked, replaced, live>>

(* A read, a Jev call or the harness raises: so does the query. *)
Fail ==
    /\ failures < MaxFailures /\ q.pc \notin {"idle", "returned"}
    /\ failures' = failures + 1
    /\ q' = [Fresh EXCEPT !.pc = "idle"]
    /\ UNCHANGED <<served, swaps, audit, asked, replaced, live>>

Step ==
    \/ Route \/ Ann \/ Fts \/ Rows \/ Rerank
    \/ ReadLinks \/ ReadTexts \/ Gate \/ Assemble
    \/ Answerable \/ Persist \/ DraftAnswer \/ Check \/ Finish

NextQuery == Step \/ EditGraph \/ Publish \/ Fail \/ \E kind \in {"search", "context", "ask"} : Start(kind)

QuerySpec == InitQuery /\ [][NextQuery]_queryVars

-----------------------------------------------------------------------------
(* search.py "Injection-flagged chunks were rejected in S2 and are never      *)
(* candidates", however the database changes under the query: a passage is a  *)
(* chunk that was accepted while the query ran.                               *)
PassagesWereAccepted ==
    /\ QueryTypeOK
    /\ At("returned") => \A p \in q.passages : p[1] = "chunk" => p[2] \in live

(* persist, "audited like pipeline ones": when a query returns, whatever Jev  *)
(* was asked for it is in the database that serves, but for what was already  *)
(* written when a publish replaced that database: an answer loses those of    *)
(* graphrag.py:162 to one before :202, and to no change of another kind.      *)
(* Every sentence of the answer cites a passage of the context, and Jev was   *)
(* asked about it.                                                            *)
AnswersAreAudited ==
    At("returned") =>
        /\ asked \subseteq audit \cup replaced
        /\ \A s \in q.kept : s.cites \cap q.passages # {} /\ <<"citation", s.id, s.cites>> \in asked

=============================================================================
