------------------------------ MODULE Entities ------------------------------
(***************************************************************************)
(* Entity resolution (pipeline/s5_entities.py, unionfind.py): Jev decides  *)
(* pairs of entities, most of which are new; when all items of a run are   *)
(* through, union-find merges identical names and accepted pairs into      *)
(* clusters, and each cluster gets a name.  Clusters in the graph are to   *)
(* stand: new entities join them, nothing else happens to them.            *)
(*                                                                         *)
(* One run at a time, after one chunk's entities were extracted or lost    *)
(* (Corpus, Enrich).  Items are one step (Ledger); attempts are not        *)
(* counted.  Left out: aliases and attributes, contexts shown to Jev.      *)
(***************************************************************************)
EXTENDS Integers, FiniteSets, FiniteSetsExt

CONSTANTS
    Entities,   \* entity IDs, in their order
    Key,        \* Key[e]: type and normalized name (name_key)
    Form,       \* Form[e]: the surface name
    Near,       \* pairs that names, embeddings or documents suggest
    MaxChanges, \* bound on changes of the accepted entities
    Faults,     \* the kinds of fault this instance allows
    MaxFaults   \* bound on their number

Pairs == kSubset(2, Entities)
Forms == {Form[e] : e \in Entities}

(* Asserted where an instance is made. *)
EntitiesAssumption ==
    /\ Entities \subseteq Nat /\ IsFiniteSet(Entities)
    /\ Key \in [Entities -> Nat] /\ Form \in [Entities -> STRING]
    /\ Near \subseteq Pairs
    /\ {MaxChanges, MaxFaults} \subseteq Nat
    /\ Faults \subseteq {"fail", "kill"}

VARIABLES
    rows,    \* entities that have a row
    present, \* those accepted
    new,     \* entities the stage has not covered
    said,    \* said[p]: Jev's latest decision on the pair, if any
    root,    \* root[e]: merged_into, or the entity itself
    name,    \* name[e]: canonical_name
    merged,  \* the input hash for which the merge item is done
    named,   \* named[r]: the same for the item that names the cluster of r
    pc,      \* where the run is
    todo,    \* its pairs left to decide; then the clusters left to name, with their roots
    failed,  \* a pair's item has failed in this run
    changes, faults

vars == <<rows, present, new, said, root, name, merged, named, pc, todo, failed, changes, faults>>

Said == {"nothing", "different", "likely", "surely"}
Same == {"likely", "surely"}   \* accepted, by confidence
Unmerged == [e \in Entities |-> e]

TypeOK ==
    /\ rows \subseteq Entities /\ present \subseteq rows /\ new \subseteq rows
    /\ said \in [Pairs -> Said]
    /\ root \in [Entities -> Entities] /\ name \in [Entities -> Forms]
    /\ named \in [Entities -> SUBSET Entities]
    /\ pc \in {"idle", "align", "merge", "name"} /\ failed \in BOOLEAN
    /\ todo \subseteq (IF pc = "name" THEN Entities \X SUBSET Entities ELSE Pairs)
    /\ changes \in 0..MaxChanges /\ faults \in 0..MaxFaults

Init ==
    /\ rows = {} /\ present = {} /\ new = {}
    /\ said = [p \in Pairs |-> "nothing"]
    /\ root = Unmerged /\ name = Form
    /\ merged = <<>> /\ named = [e \in Entities |-> {}]
    /\ pc = "idle" /\ todo = {} /\ failed = FALSE /\ changes = 0 /\ faults = 0

-----------------------------------------------------------------------------
(* Merges: identical_pairs, each with the first of its group, then the pairs  *)
(* Jev accepted, the most confident first.                                    *)
Identical ==
    {p \in Pairs : /\ p \subseteq present
                   /\ \A e, f \in p : Key[e] = Key[f]
                   /\ \A e \in present : e < Min(p) => Key[e] # Key[Min(p)]}
Accepted(level) == {p \in Pairs : p \subseteq present /\ said[p] = level}
Mergeable == Identical \cup Accepted("surely") \cup Accepted("likely")

Rank(p) == IF p \in Identical THEN 0 ELSE IF said[p] = "surely" THEN 1 ELSE 2
Before(p, q) ==
    \/ Rank(p) < Rank(q)
    \/ Rank(p) = Rank(q) /\ (Min(p) < Min(q) \/ (Min(p) = Min(q) /\ Max(p) < Max(q)))
First(pairs) == CHOOSE p \in pairs : \A q \in pairs \ {p} : Before(p, q)

(* What find passes on its way up from e, to the root.                        *)
Closed(parent, S) == \A e \in S : parent[e] \in S
Above(parent, e) ==
    {f \in DOMAIN parent :
        \A S \in SUBSET DOMAIN parent : e \in S /\ Closed(parent, S) => f \in S}
Find(parent, e) == CHOOSE f \in Above(parent, e) : parent[f] = f

(* The roots of existing clusters among the members of S.                     *)
Held(S) == {root[e] : e \in S \ new}

(* One merge, where of[e] is the cluster of e so far (members), whose root is *)
(* its first, and parent the forest.  Refused: it would join two existing     *)
(* clusters, or Jev said "not the same" of a pair across.                     *)
Joined(of, p) == UNION {of[e] : e \in p}
Differ(of, p) == \E e, f \in Joined(of, p) : of[e] # of[f] /\ said[{e, f}] = "different"

Shortened(state, p) ==
    LET path == UNION {Above(state.parent, e) : e \in p}
    IN [e \in DOMAIN state.parent |-> IF e \in path THEN Min(state.of[e]) ELSE state.parent[e]]

Refuse(state, p) ==
    [state EXCEPT
        !.parent = Shortened(state, p),
        !.refused = IF \E e, f \in p : state.of[e] # state.of[f] THEN @ \cup {p} ELSE @]
Unite(state, p) ==
    LET all == Joined(state.of, p)
        roots == {Min(state.of[e]) : e \in p}
    IN [state EXCEPT
           !.parent = [Shortened(state, p) EXCEPT ![Max(roots)] = Min(roots)],
           !.of = [e \in DOMAIN @ |-> IF e \in all THEN all ELSE @[e]]]

(* Regression: new entities join existing clusters to one.                    *)
JoinHeld(state, p) == IF Differ(state.of, p) THEN Refuse(state, p) ELSE Unite(state, p)

Join(state, p) ==
    IF (\E r, s \in Held(Joined(state.of, p)) : r # s) \/ Differ(state.of, p)
    THEN Refuse(state, p) ELSE Unite(state, p)

(* The loop over the pairs, after k of them.                                  *)
Alone ==
    [of |-> [e \in present |-> {e}], parent |-> [e \in present |-> e],
     refused |-> {}, left |-> Mergeable]
Unions[k \in 0..Cardinality(Mergeable)] ==
    IF k = 0 THEN Alone
    ELSE LET state == Unions[k - 1]
             p == First(state.left)
         IN [Join(state, p) EXCEPT !.left = @ \ {p}]

(* Clusters that hold an existing one are hung under that one's root, in the  *)
(* order of their own: where two hang one entity, the last stands.            *)
Rehung(of) ==
    {S \in {of[e] : e \in DOMAIN of} : Held(S) # {} /\ Held(S) \subseteq present \ {Min(S)}}
Over(of, e) == {S \in Rehung(of) : e \in S \cup Held(S)}
Last(clusters) == CHOOSE S \in clusters : \A T \in clusters : Min(T) <= Min(S)
Rehang(state) ==
    [e \in DOMAIN state.parent |->
        IF Over(state.of, e) = {} THEN state.parent[e]
        ELSE CHOOSE w \in Held(Last(Over(state.of, e))) : TRUE]

(* merge: the root of every accepted entity, and the refused pairs.           *)
Merge ==
    LET state == Unions[Cardinality(Mergeable)]
        parent == Rehang(state)
    IN [root |-> [e \in present |-> Find(parent, e)], refused |-> state.refused]

(* Regression: the hash of the merge item has Jev's decisions only.           *)
HashOfDecisions == <<Merge.refused, Accepted("surely") \cup Accepted("likely"), {}>>

MergeHash == <<Merge.refused, Accepted("surely") \cup Accepted("likely"), Identical>>

-----------------------------------------------------------------------------
(* Entities are extracted from an accepted chunk, and go with it; one that    *)
(* comes back has its old row.                                                *)
Come(e) ==
    /\ pc = "idle" /\ changes < MaxChanges /\ changes' = changes + 1
    /\ e \notin present
    /\ rows' = rows \cup {e} /\ present' = present \cup {e}
    /\ new' = IF e \in rows THEN new ELSE new \cup {e}
    /\ UNCHANGED <<said, root, name, merged, named, pc, todo, failed, faults>>

Go(e) ==
    /\ pc = "idle" /\ changes < MaxChanges /\ changes' = changes + 1
    /\ e \in present
    /\ present' = present \ {e}
    /\ UNCHANGED <<rows, new, said, root, name, merged, named, pc, todo, failed, faults>>

(* candidate_pairs: of accepted entities that code does not merge.            *)
Candidates == {p \in Near : p \subseteq present /\ \E e, f \in p : Key[e] # Key[f]}
Undecided == {p \in Candidates : p \cap new # {} /\ said[p] = "nothing"}

Start ==
    /\ pc = "idle"
    /\ pc' = "align" /\ todo' = Undecided /\ failed' = FALSE
    /\ UNCHANGED <<rows, present, new, said, root, name, merged, named, changes, faults>>

Align(p) ==
    /\ pc = "align" /\ p \in todo
    /\ \E answer \in Said \ {"nothing"} : said' = [said EXCEPT ![p] = answer]
    /\ todo' = todo \ {p}
    /\ UNCHANGED <<rows, present, new, root, name, merged, named, pc, failed, changes, faults>>

FailAlign(p) ==
    /\ "fail" \in Faults /\ faults < MaxFaults /\ faults' = faults + 1
    /\ pc = "align" /\ p \in todo
    /\ todo' = todo \ {p} /\ failed' = TRUE
    /\ UNCHANGED <<rows, present, new, said, root, name, merged, named, pc, changes>>

(* finalize: the merges, unless the item is done for its hash; then clusters  *)
(* of more than one, by root, as they were computed.                          *)
MergeAll ==
    LET roots == Merge.root
        clusters == {<<r, {e \in present : roots[e] = r}>> : r \in present}
    IN /\ pc = "align" /\ todo = {}
       /\ root' = IF merged = MergeHash THEN root
                  ELSE [e \in Entities |-> IF e \in present THEN roots[e] ELSE e]
       /\ merged' = MergeHash
       /\ pc' = "name"
       /\ todo' = {c \in clusters : Cardinality(c[2]) > 1}
       /\ UNCHANGED <<rows, present, new, said, name, named, failed, changes, faults>>

(* _canonical: a cluster in the graph keeps its name, and Jev chooses among   *)
(* the surface forms for a new one.                                           *)
Names(r, S) == IF r \notin new THEN {name[r]} ELSE {Form[e] : e \in S}

NameCluster(c) ==
    /\ pc = "name" /\ c \in todo
    /\ IF named[c[1]] = c[2] THEN UNCHANGED <<name, named>>
       ELSE /\ \E n \in Names(c[1], c[2]) : name' = [name EXCEPT ![c[1]] = n]
            /\ named' = [named EXCEPT ![c[1]] = c[2]]
    /\ todo' = todo \ {c}
    /\ UNCHANGED <<rows, present, new, said, root, merged, pc, failed, changes, faults>>

(* The run goes on when naming fails (keep_going), and is not marked for it.  *)
FailName(c) ==
    /\ "fail" \in Faults /\ faults < MaxFaults /\ faults' = faults + 1
    /\ pc = "name" /\ c \in todo
    /\ todo' = todo \ {c}
    /\ UNCHANGED <<rows, present, new, said, root, name, merged, named, pc, failed, changes>>

(* The run ends; without a failed item it covers the entities there are.      *)
Finish ==
    /\ pc = "name" /\ todo = {}
    /\ pc' = "idle" /\ failed' = FALSE
    /\ new' = IF failed THEN new ELSE {}
    /\ UNCHANGED <<rows, present, said, root, name, merged, named, todo, changes, faults>>

Kill ==
    /\ "kill" \in Faults /\ faults < MaxFaults /\ faults' = faults + 1
    /\ pc # "idle"
    /\ pc' = "idle" /\ todo' = {} /\ failed' = FALSE
    /\ UNCHANGED <<rows, present, new, said, root, name, merged, named, changes>>

Next ==
    \/ \E e \in Entities : Come(e) \/ Go(e)
    \/ Start \/ MergeAll \/ Finish \/ Kill
    \/ \E p \in Pairs : Align(p) \/ FailAlign(p)
    \/ \E c \in todo : FailName(c) \/ NameCluster(c)

-----------------------------------------------------------------------------
(* No covered entity has a new root.  Only a run cut short after its merges   *)
(* leaves one, when the root that entity had is gone.                         *)
Settled == \A e \in rows \ new : root[e] \notin new

(* Clusters in the graph are never re-decided (README.md, `update`): of       *)
(* entities that are not new, those under one root stay under it, those under *)
(* two are not joined, and an existing root keeps its cluster's name, as long *)
(* as the roots themselves are there.  Not so unless Settled: a cluster hung  *)
(* under a new root can take that root out of the cluster it has joined, and  *)
(* what find passes it on the way with it.                                    *)
RootsStand ==
    \A e, f \in (present \cap present') \ new :
        LET there == {root[e], root[f]} \subseteq (present \cap present') \ new
        IN there => root'[e] = root[e] /\ (root[e] # root[f] => root'[e] # root'[f])
NamesStand ==
    \A r \in present \ new : (\E e \in present \ new : e # r /\ root[e] = r) => name'[r] = name[r]
ClustersStand == [][(Settled => RootsStand) /\ NamesStand]_vars

(* The merges of a run leave no accepted entity under one that is itself      *)
(* under another (readers follow `merged_into` one step), and when they are   *)
(* written, under none that is gone, and no two of which Jev said that they   *)
(* differ in a cluster that is new.  (Two clusters hung under one existing    *)
(* root may have such a pair across.)  Written or skipped, every pair that    *)
(* Jev or code finds to be one entity is under one root, unless its merge was *)
(* refused, or a run was cut short (Settled).                                 *)
RootsAreRoots ==
    \A e \in present : root'[root'[e]] = root'[e] /\ (merged' # merged => root'[e] \in present)
Standing == {root[e] : e \in present \ new}
DifferentStayApart ==
    \A p \in Pairs : p \subseteq present /\ said[p] = "different" =>
        \A e, f \in p : e # f /\ root'[e] = root'[f] => root'[e] \in Standing
PairsAreMerged ==
    \A p \in Mergeable : p \in merged'[1] \/ \E r \in Entities : \A e \in p : root'[e] = r
MergesAreComplete ==
    [][/\ TypeOK'
       /\ pc = "align" /\ pc' = "name" => RootsAreRoots /\ (Settled => PairsAreMerged)
       /\ pc = "align" /\ merged' # merged => DifferentStayApart
      ]_vars

=============================================================================
