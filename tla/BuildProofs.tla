---------------------------- MODULE BuildProofs ----------------------------
(***************************************************************************)
(* Theorems about Build for any chunks, neighbours and answers of Jev, any *)
(* number of rounds, changes of the corpus and faults; and, in the second  *)
(* half, about the resolution of any entities (Entities).                  *)
(***************************************************************************)
EXTENDS GraphStages, FiniteSetTheorems, WellFoundedInduction, TLAPS

-----------------------------------------------------------------------------
(* The inductive invariant. *)

(* Evolution examines pairs that have an edge, under a claim; it runs in the  *)
(* link stage.  Until a version is activated, the active one is loaded.       *)
Examining ==
    /\ \A p \in window : edge[p] # NoEdge
    /\ evolving # "no" => pc \in {"links", "final"}
    /\ evolving = "propose" => approved = 0
    /\ evolving = "propose" => tried[window].attempts >= 1
    /\ evolved => approved = 0 /\ evolving = "no"
    /\ pc # "idle" /\ ~evolved => loaded = active

(* The final pass examines all there is to examine, and leaves it settled.    *)
Settled == approved = 0 /\ (evolved \/ Cardinality(Others(Unseen)) < Enough \/ Spent(Unseen))
Settling ==
    /\ pc = "final" /\ evolving = "propose" => window = Unseen
    /\ pc = "final" /\ evolving = "no" => Settled
    /\ pc \in {"linked", "audit", "verify"} => Settled
    /\ pc = "verify" /\ evolved => round = MaxRounds

(* The audit judges accepted edges of new chunks.                             *)
Judging ==
    pc = "audit" => \A p \in todo \cap Pairs :
        edge[p] # NoEdge /\ edge[p].status = "accepted" /\ p \cap new["audit"] # {}

(* An undecided candidate pair of a corpus that only grew has a new chunk,    *)
(* or failed for good; what failed for good is known as lost.                 *)
Outstanding ==
    /\ away = {} => \A p \in Candidates : edge[p] = NoEdge => p \cap new["links"] # {} \/ p \in lost
    /\ \A a \in Chunks : row[a].status = "failed" => row[a].hash[2] \subseteq lost

(* A run of the link stage has an item for each undecided pair, or a failure. *)
Enumerated ==
    /\ pc \in {"links", "final"} =>
           \A b \in Chunks : PairsOf(b) # {} => {b} \in todo \cup failed \/ PairsOf(b) \subseteq lost
    /\ pc = "final" => todo = {}
    /\ pc \in {"linked", "audit"} /\ how = "update" => new["links"] = {}

Ending == ok => pc = "idle" /\ NothingForgotten

Inv == TypeOK /\ Examining /\ Settling /\ Judging /\ Outstanding /\ Enumerated /\ Ending

-----------------------------------------------------------------------------
(* Lemmas about the operators. *)

(* kSubset: pairs are two chunks, of which the anchor is the smaller.         *)
LEMMA PairFacts ==
    /\ IsFiniteSet(Pairs)
    /\ \A p \in Pairs : p \subseteq Chunks /\ Min(p) \in p
    /\ \A c : {c} \notin Pairs
<1>0. Chunks \subseteq Nat /\ IsFiniteSet(Chunks)
  BY BuildAssumption
<1>1. Pairs = {s \in SUBSET Chunks : Cardinality(s) = 2}
  BY DEF Pairs, kSubset
<1>2. IsFiniteSet(Pairs)
  BY <1>0, <1>1, FS_SUBSET, FS_Subset
<1>3. ASSUME NEW p \in Pairs
      PROVE  p \subseteq Chunks /\ Min(p) \in p
  <2>1. p \subseteq Chunks /\ Cardinality(p) = 2 /\ IsFiniteSet(p)
    BY <1>0, <1>1, FS_Subset
  <2>2. PICK a : a \in p
    BY <2>1, FS_EmptySet
  <2>3. IsFiniteSet(p \ {a}) /\ Cardinality(p \ {a}) = 1
    BY <2>1, <2>2, FS_RemoveElement
  <2>4. PICK b : p \ {a} = {b}
    BY <2>3, FS_Singleton
  <2>5. p = {a, b} /\ a \in Nat /\ b \in Nat
    BY <1>0, <2>1, <2>2, <2>4
  <2>6. \E x \in p : \A y \in p : x <= y
    <3>1. CASE a <= b
      BY <2>5, <3>1
    <3>2. CASE b <= a
      BY <2>5, <3>2
    <3> QED
      BY <2>5, <3>1, <3>2
  <2>7. Min(p) \in p
    BY <2>6 DEF Min
  <2> QED
    BY <2>1, <2>7
<1>4. ASSUME NEW c
      PROVE  {c} \notin Pairs
  <2>1. Cardinality({c}) = 1
    BY FS_Singleton
  <2> QED
    BY <1>1, <2>1
<1> QED
  BY <1>2, <1>3, <1>4

(* LinkStage.candidates: a chunk pushes others from the lists of the nearest, *)
(* and brings none in but itself: pairs of old chunks do not become           *)
(* candidates when a chunk is accepted.                                       *)
LEMMA CandidatesOfOldChunks ==
    ASSUME NEW c \in Chunks, present' = present \cup {c}
    PROVE  \A p \in Candidates' : c \notin p => p \in Candidates
<1>1. ASSUME NEW x \in Chunks, NEW y \in Neighbours(x)', y # c
      PROVE  y \in Neighbours(x)
  <2>1. PICK i \in DOMAIN Near[x] : y = Near[x][i] /\ Near[x][i] \in present'
                                   /\ Cardinality(Ahead(x, i)') <= AnnK
    BY <1>1 DEF Neighbours
  <2>2. Near[x][i] \in present
    BY <1>1, <2>1
  <2>3. i \in Nat
    <3>1. Near[x] \in Seq(Chunks \ {x})
      BY BuildAssumption
    <3> QED
      BY <2>1, <3>1
  <2>4. IsFiniteSet(1..i)
    BY <2>3, FS_Interval
  <2>5. Ahead(x, i)' \subseteq 1..i /\ Ahead(x, i) \subseteq Ahead(x, i)'
    BY DEF Ahead
  <2>6. IsFiniteSet(Ahead(x, i)')
    BY <2>4, <2>5, FS_Subset
  <2>7. Cardinality(Ahead(x, i)) <= Cardinality(Ahead(x, i)') /\ IsFiniteSet(Ahead(x, i))
    BY <2>5, <2>6, FS_Subset
  <2>8. Cardinality(Ahead(x, i)) \in Nat /\ Cardinality(Ahead(x, i)') \in Nat /\ AnnK \in Nat
    BY <2>6, <2>7, FS_CardinalityType, BuildAssumption
  <2>9. Cardinality(Ahead(x, i)) <= AnnK
    BY <2>1, <2>7, <2>8
  <2> QED
    BY <2>1, <2>2, <2>9 DEF Neighbours
<1>2. ASSUME NEW p \in Candidates', c \notin p
      PROVE  p \in Candidates
  <2>1. p \in Pairs /\ p \subseteq present /\ p \subseteq Chunks
    BY <1>2, PairFacts DEF Candidates
  <2>2. CASE p \in OtherPairs
    BY <2>1, <2>2 DEF Candidates
  <2>3. ASSUME NEW x \in p, (p \ {x}) \subseteq Neighbours(x)'
        PROVE  p \in Candidates
    <3>1. (p \ {x}) \subseteq Neighbours(x)
      BY <1>1, <1>2, <2>1, <2>3
    <3> QED
      BY <2>1, <3>1 DEF Candidates
  <2> QED
    BY <1>2, <2>2, <2>3 DEF Candidates
<1> QED
  BY <1>2

(* Every undecided pair is in the item of one anchor.                         *)
LEMMA AnchorOf ==
    ASSUME NEW p \in Candidates, edge[p] = NoEdge, p \cap new["links"] # {}
    PROVE  Min(p) \in Chunks /\ p \in PairsOf(Min(p))
BY PairFacts DEF Candidates, Undecided, PairsOf

LEMMA PairsOfFacts ==
    ASSUME NEW a
    PROVE  /\ PairsOf(a) \subseteq Pairs
           /\ \A p \in PairsOf(a) : edge[p] = NoEdge
BY DEF PairsOf, Undecided, Candidates

(* An edge is not NoEdge.                                                     *)
LEMMA EdgeFacts ==
    ASSUME TypeOK, NEW p \in Pairs
    PROVE  /\ edge[p] \in Edges \cup {NoEdge}
           /\ edge[p] # NoEdge => edge[p] \in Edges
           /\ \A e \in Edges : e # NoEdge
BY BuildAssumption DEF TypeOK

-----------------------------------------------------------------------------
(* Types. *)

LEMMA InitTyped ==
    ASSUME Init
    PROVE  TypeOK
<1>1. 1 \in Versions /\ MaxVersion \in Nat /\ MaxVersion >= 1 /\ 0 \in 0..MaxVersion - 1
  BY BuildAssumption DEF Versions
<1>2. 0 \in 0..MaxRounds /\ 0 \in 0..MaxReopen /\ 0 \in 0..MaxChanges /\ 0 \in 0..MaxFaults
  BY BuildAssumption
<1>3. Fresh \in Rows
  BY <1>1 DEF Fresh, Rows
<1>4. row \in [Chunks -> Rows] /\ edge \in [Pairs -> Edges \cup {NoEdge}]
      /\ judged \in [Pairs \cup kSubset(1, Chunks) -> 0..MaxVersion] /\ new \in [Stages -> SUBSET Chunks]
  BY <1>1, <1>3 DEF Init
<1>5. active \in Versions /\ approved \in 0..MaxVersion - active /\ loaded \in 1..active
  BY <1>1 DEF Init
<1>6. tried \in [SUBSET Pairs -> Tries]
  <2>1. NotTried \in Tries
    BY <1>1 DEF NotTried, Tries
  <2> QED
    BY <2>1 DEF Init
<1> QED
  BY <1>2, <1>4, <1>5, <1>6 DEF Init, AtRest, TypeOK

LEMMA TypesKept ==
    ASSUME Inv, [Next]_vars
    PROVE  TypeOK'
<1> USE DEF TypeOK
<1>1. TypeOK /\ Examining
  BY DEF Inv
<1>a. /\ MaxVersion \in Nat /\ MaxVersion >= 1 /\ MaxRounds \in Nat /\ MaxReopen \in Nat
      /\ MaxChanges \in Nat /\ MaxFaults \in Nat /\ MaxAttempts \in Nat
  BY BuildAssumption
<1>b. changes \in Nat /\ faults \in Nat /\ loaded \in Versions /\ 1 <= active /\ active <= MaxVersion
  BY <1>1, <1>a DEF Versions
<1>c. \A S : S = {} => S \subseteq SUBSET Chunks /\ S \subseteq Pairs
  OBVIOUS
<1>2. CASE UNCHANGED vars
  BY <1>1, <1>2 DEF vars, graph, registry, control, evolution, history
<1>3. ASSUME NEW c \in Chunks, Accept(c)
      PROVE  TypeOK'
  <2>1. new' \in [Stages -> SUBSET Chunks] /\ present' \subseteq Chunks
    BY <1>1, <1>3 DEF Accept
  <2>2. changes' \in 0..MaxChanges /\ ok' \in BOOLEAN
    <3>1. changes < MaxChanges /\ changes' = changes + 1 /\ ok' = FALSE
      BY <1>3 DEF Accept
    <3>2. changes' \in 0..MaxChanges
      BY ONLY <1>a, <1>b, <3>1
    <3> QED
      BY <3>1, <3>2
  <2> QED
    BY <1>1, <1>3, <2>1, <2>2 DEF Accept, registry, control, evolution
<1>4. ASSUME NEW c \in Chunks, Drop(c)
      PROVE  TypeOK'
  <2>1. \A p \in Pairs : edge[p] # NoEdge => [edge[p] EXCEPT !.status = "superseded"] \in Edges
    BY <1>1 DEF Edges
  <2>2. edge' \in [Pairs -> Edges \cup {NoEdge}]
    BY <1>1, <1>4, <2>1 DEF Drop
  <2>3. changes' \in 0..MaxChanges /\ ok' \in BOOLEAN
    <3>1. changes < MaxChanges /\ changes' = changes + 1 /\ ok' = FALSE
      BY <1>4 DEF Drop
    <3>2. changes' \in 0..MaxChanges
      BY ONLY <1>a, <1>b, <3>1
    <3> QED
      BY <3>1, <3>2
  <2>4. present' \subseteq Chunks /\ away' \subseteq Chunks
    BY <1>1, <1>4 DEF Drop
  <2> QED
    BY <1>1, <1>4, <2>2, <2>3, <2>4 DEF Drop, registry, control, evolution
<1>5. ASSUME NEW c \in Chunks, Decide(c)
      PROVE  TypeOK'
  <2>1. PICK answer \in [PairsOf(c) -> Answers] :
            edge' = [p \in Pairs |->
               IF p \in PairsOf(c)
               THEN [pick |-> answer[p].pick, status |-> Resolve(answer[p]),
                     seen |-> FALSE, under |-> loaded]
               ELSE edge[p]]
    BY <1>5 DEF Decide
  <2>2. \A p \in PairsOf(c) : answer[p] \in Asked
    BY <2>1, BuildAssumption
  <2>3. \A p \in PairsOf(c) : [pick |-> answer[p].pick, status |-> Resolve(answer[p]),
                               seen |-> FALSE, under |-> loaded] \in Edges
    BY <1>b, <2>2 DEF Asked, Resolve, Edges
  <2>4. edge' \in [Pairs -> Edges \cup {NoEdge}]
    BY <1>1, <2>1, <2>3
  <2>5. [Fresh EXCEPT !.status = "done"] \in Rows
    BY <1>a DEF Fresh, Rows
  <2>6. row' \in [Chunks -> Rows]
    BY <1>1, <1>5, <2>5 DEF Decide
  <2>7. after' \subseteq Chunks
    BY <1>1, <1>5 DEF Decide
  <2>8. todo' \subseteq SUBSET Chunks
    BY <1>1, <1>5 DEF Decide
  <2> QED
    BY <1>1, <1>5, <2>4, <2>6, <2>7, <2>8 DEF Decide, registry, control, history
<1>6. ASSUME NEW c \in Chunks, FailLink(c)
      PROVE  TypeOK'
  <2>1. PairsOf(c) \subseteq Pairs
    BY PairsOfFacts
  <2>2. Hash(c, loaded) \in (0..MaxVersion) \X SUBSET Pairs
    BY <1>a, <1>b, <2>1 DEF Hash, Versions
  <2>3. row[c].attempts \in Nat
    BY <1>1 DEF Rows
  <2>4. \E attempts \in Nat : \E status \in {"failed", "pending"} :
            row' = [row EXCEPT ![c] = [status |-> status, hash |-> Hash(c, loaded), attempts |-> attempts]]
    <3>1. row[c].attempts + 1 \in Nat /\ 1 \in Nat
      BY <2>3
    <3>2. ASSUME NEW n \in Nat
          PROVE  (IF n >= MaxAttempts THEN "failed" ELSE "pending") \in {"failed", "pending"}
      OBVIOUS
    <3>3. (IF row[c].hash = Hash(c, loaded) THEN row[c].attempts + 1 ELSE 1) \in Nat
      BY <3>1
    <3> QED
      BY <1>6, <3>2, <3>3 DEF FailLink
  <2>5. row' \in [Chunks -> Rows]
    BY <1>1, <2>2, <2>4 DEF Rows
  <2>6. lost' \subseteq Pairs
    BY <1>1, <1>6, <2>1 DEF FailLink
  <2>7. faults' \in 0..MaxFaults
    BY <1>a, <1>b, <1>6 DEF FailLink
  <2>8. todo' \subseteq SUBSET Chunks /\ failed' \subseteq SUBSET Chunks
    BY <1>1, <1>6 DEF FailLink
  <2> QED
    BY <1>1, <1>6, <2>5, <2>6, <2>7, <2>8 DEF FailLink, graph, registry, control, evolution
<1>7. ASSUME NEW c \in Chunks, NEW connects \in BOOLEAN, JudgeOrphan(c, connects)
      PROVE  TypeOK'
  <2>1. {c} \in Pairs \cup kSubset(1, Chunks)
    <3>1. Cardinality({c}) = 1
      BY FS_Singleton
    <3> QED
      BY <3>1 DEF kSubset
  <2>2. judged' \in [Pairs \cup kSubset(1, Chunks) -> 0..MaxVersion]
    BY <1>1, <1>a, <1>b, <1>7, <2>1 DEF JudgeOrphan, Settle, Versions
  <2>3. [row[c] EXCEPT !.status = "pending"] \in Rows
    BY <1>1 DEF Rows
  <2>4. row' \in [Chunks -> Rows]
    BY <1>1, <1>7, <2>3 DEF JudgeOrphan
  <2>5. reopened' \in BOOLEAN
    BY <1>7 DEF JudgeOrphan
  <2>6. todo' \subseteq SUBSET Chunks
    BY <1>1, <1>7 DEF JudgeOrphan, Settle
  <2> QED
    BY <1>1, <1>7, <2>2, <2>4, <2>5, <2>6 DEF JudgeOrphan, registry, control, evolution, history
<1>8. ASSUME NEW h \in {"build", "update"}, Start(h)
      PROVE  TypeOK'
  <2>1. active \in 1..active
    BY <1>b, <1>1 DEF Versions
  <2> QED
    BY <1>1, <1>8, <2>1 DEF Start, graph, registry, evolution, history
<1>9. CASE EnumerateLinks
  BY <1>1, <1>c, <1>9 DEF EnumerateLinks, ToLink, graph, registry, control, evolution, history
<1>10. ASSUME NEW final \in BOOLEAN, MaybeEvolve(final), pc' \in {pc, "final"}
       PROVE  TypeOK'
  <2>1. after' \subseteq Chunks /\ evolving' \in {"no", "propose", "activate"}
    BY <1>1, <1>10 DEF MaybeEvolve
  <2>2. window' \subseteq Pairs
    BY <1>1, <1>10 DEF MaybeEvolve, Unseen
  <2>3. tried' \in [SUBSET Pairs -> Tries]
    <3>1. Unseen \in SUBSET Pairs
      BY DEF Unseen
    <3>2. tried[Unseen].attempts + 1 \in Nat /\ 1 \in Nat
      BY <1>1, <3>1 DEF Tries
    <3>3. Claimed(Unseen) \in Tries
      BY <1>a, <1>b, <3>2 DEF Claimed, Tries, Versions
    <3>4. tried' = tried \/ tried' = [tried EXCEPT ![Unseen] = Claimed(Unseen)]
      BY <1>10 DEF MaybeEvolve
    <3> QED
      BY <1>1, <3>3, <3>4
  <2> QED
    BY <1>1, <1>10, <2>1, <2>2, <2>3 DEF MaybeEvolve, graph, control, history
<1>11. CASE AfterItem
  BY <1>10, <1>11 DEF AfterItem
<1>12. CASE Finalize
  BY <1>10, <1>12 DEF Finalize
<1>13. ASSUME NEW kept \in BOOLEAN, Propose(kept)
       PROVE  TypeOK'
  <2>0. window \subseteq Pairs /\ edge \in [Pairs -> Edges \cup {NoEdge}] /\ \A p \in window : edge[p] # NoEdge
    BY <1>1 DEF Examining
  <2>1. \A p \in window : [edge[p] EXCEPT !.seen = TRUE] \in Edges
    BY ONLY ZenonT(40), <2>0 DEF Edges
  <2>2. edge' \in [Pairs -> Edges \cup {NoEdge}]
    BY <1>1, <1>13, <2>1 DEF Propose
  <2>3. approved = 0
    BY <1>1, <1>13 DEF Propose, Examining
  <2>4. approved' \in 0..MaxVersion - active
    <3>1. 0 \in 0..MaxVersion - active /\ (active < MaxVersion => 1 \in 0..MaxVersion - active)
      BY <1>a, <1>b, <1>1 DEF Versions
    <3>2. approved' = IF kept THEN 1 ELSE 0
      BY <1>13, <2>3 DEF Propose
    <3> QED
      BY <1>13, <3>1, <3>2 DEF Propose
  <2>5. evolving' \in {"no", "activate"} /\ window' \subseteq Pairs /\ after' \subseteq Chunks
    BY <1>1, <1>13 DEF Propose
  <2>6. tried' \in [SUBSET Pairs -> Tries]
    <3>1. NotTried \in Tries
      BY <1>a DEF NotTried, Tries
    <3> QED
      BY <1>1, <1>13, <3>1 DEF Propose
  <2> QED
    BY <1>1, <1>13, <2>2, <2>4, <2>5, <2>6 DEF Propose, control, history
<1>14. CASE Activate
  <2>1. active + approved \in Versions /\ 0 \in 0..MaxVersion - (active + approved)
        /\ loaded \in 1..(active + approved)
    BY <1>1, <1>a DEF Versions
  <2>2. after' \subseteq Chunks
    BY <1>14 DEF Activate
  <2> QED
    BY <1>1, <1>14, <2>1, <2>2 DEF Activate, graph, control, history
<1>15. ASSUME Ended
       PROVE  /\ pc' = "idle" /\ round' \in 0..MaxRounds /\ pass' \in 0..MaxReopen
              /\ todo' \subseteq SUBSET Chunks /\ failed' \subseteq SUBSET Chunks
              /\ reopened' \in BOOLEAN /\ evolved' \in BOOLEAN /\ after' \subseteq Chunks
              /\ evolving' = "no" /\ window' \subseteq Pairs
              /\ how' = how /\ loaded' = loaded
  <2>1. 0 \in 0..MaxRounds /\ 0 \in 0..MaxReopen
    BY <1>a
  <2> QED
    BY <1>c, <1>15, <2>1 DEF Ended
<1>16. \A s \in Stages : Covered(s) \in [Stages -> SUBSET Chunks]
  BY <1>1 DEF Covered
<1>17. CASE FinishLinks
  <2>1. new' \in [Stages -> SUBSET Chunks]
    BY <1>16, <1>17 DEF FinishLinks, Stages
  <2>2. CASE GivesUp
    BY <1>1, <1>15, <1>17, <2>1, <2>2 DEF FinishLinks, registry, history
  <2>3. CASE ~GivesUp
    BY <1>1, <1>17, <2>1, <2>3 DEF FinishLinks, registry, control, evolution, history
  <2> QED
    BY <2>2, <2>3
<1>18. CASE StartAudit
  <2>1. todo' \subseteq SUBSET Chunks
    <3>1. \A s \in todo' : s \in Pairs \/ \E d \in present : s = {d}
      BY <1>18 DEF StartAudit
    <3> QED
      BY <1>1, <3>1, PairFacts
  <2> QED
    BY <1>1, <1>18, <2>1 DEF StartAudit, graph, registry, control, evolution, history
<1>19. ASSUME NEW s \in todo, JudgeEdge(s)
       PROVE  TypeOK'
  <2>1. s \in Pairs /\ edge[s] \in Edges
    BY <1>19, EdgeFacts DEF JudgeEdge, Inv, Judging
  <2>2. [edge[s] EXCEPT !.status = "review"] \in Edges
    BY <2>1 DEF Edges
  <2>3. edge' \in [Pairs -> Edges \cup {NoEdge}]
    BY <1>1, <1>19, <2>1, <2>2 DEF JudgeEdge
  <2>4. judged' \in [Pairs \cup kSubset(1, Chunks) -> 0..MaxVersion]
    BY <1>1, <1>a, <1>b, <1>19, <2>1 DEF JudgeEdge, Settle, Versions
  <2> QED
    BY <1>1, <1>19, <2>3, <2>4 DEF JudgeEdge, Settle, registry, control, evolution, history
<1>20. ASSUME NEW s \in todo, FailAudit(s)
       PROVE  TypeOK'
  <2>1. faults' \in 0..MaxFaults
    BY <1>a, <1>b, <1>20 DEF FailAudit
  <2> QED
    BY <1>1, <1>20, <2>1 DEF FailAudit, graph, registry, control, evolution
<1>21. CASE FinishAudit
  <2>1. new' \in [Stages -> SUBSET Chunks]
    BY <1>16, <1>21 DEF FinishAudit, Stages
  <2>2. CASE how = "update"
    <3>1. ok' \in BOOLEAN
      BY <1>21, <2>2 DEF FinishAudit
    <3> QED
      BY <1>1, <1>15, <1>21, <2>1, <2>2, <3>1 DEF FinishAudit, registry, history
  <2>3. CASE how # "update"
    <3>1. /\ pc' \in {"graph", "verify"} /\ reopened' = FALSE /\ evolved' \in BOOLEAN
          /\ loaded' \in {loaded, active} /\ round' \in 0..MaxRounds /\ pass' \in 0..MaxReopen
      <4>1. pass < MaxReopen => pass + 1 \in 0..MaxReopen
        BY <1>1, <1>a
      <4>2. round < MaxRounds => round + 1 \in 0..MaxRounds
        BY <1>1, <1>a
      <4>3. 0 \in 0..MaxReopen
        BY <1>a
      <4> QED
        BY <1>1, <1>21, <2>3, <4>1, <4>2, <4>3 DEF FinishAudit
    <3>2. loaded' \in 1..active
      BY <1>1, <1>b, <3>1
    <3> QED
      BY <1>1, <1>21, <2>1, <2>3, <3>1, <3>2 DEF FinishAudit, registry, history
  <2> QED
    BY <2>2, <2>3
<1>22. CASE Verify
  <2>1. ok' \in BOOLEAN
    BY <1>22 DEF Verify
  <2> QED
    BY <1>1, <1>15, <1>22, <2>1 DEF Verify, graph, registry, history
<1>23. CASE Kill
  <2>1. faults' \in 0..MaxFaults
    BY <1>a, <1>b, <1>23 DEF Kill
  <2> QED
    BY <1>1, <1>15, <1>23, <2>1 DEF Kill, graph, registry
<1>24. ASSUME NEW a \in Chunks
       PROVE  SentBack(a) \in [Chunks -> Rows]
  <2>1. [row[a] EXCEPT !.status = "pending"] \in Rows
    BY <1>1 DEF Rows
  <2> QED
    BY <1>1, <2>1 DEF SentBack
<1>25. CASE FailEvolution
  <2>1. faults' \in 0..MaxFaults
    BY <1>a, <1>b, <1>25 DEF FailEvolution
  <2>2. tried' \in [SUBSET Pairs -> Tries]
    <3>0. tried[window] \in Tries /\ (tried[window].attempts >= MaxAttempts) \in BOOLEAN
      BY <1>1
    <3>1. [tried[window] EXCEPT !.failed = tried[window].attempts >= MaxAttempts] \in Tries
      BY ONLY ZenonT(40), <3>0 DEF Tries
    <3>2. tried' = tried \/ tried' = [tried EXCEPT ![window].failed = tried[window].attempts >= MaxAttempts]
      BY <1>25 DEF FailEvolution
    <3> QED
      BY <1>1, <3>1, <3>2
  <2>3. ASSUME NEW a \in after, row' = SentBack(a), failed' = failed \cup {{a}}, evolving' = "no",
               window' = {}, after' = {}, UNCHANGED <<control, pc, todo, reopened, evolved>>
        PROVE  TypeOK'
    <3>1. row' \in [Chunks -> Rows] /\ failed' \subseteq SUBSET Chunks
      BY <1>1, <1>24, <2>3
    <3> QED
      BY <1>1, <1>25, <2>1, <2>2, <2>3, <3>1 DEF FailEvolution, graph, control
  <2>4. CASE Ended /\ UNCHANGED row
    BY <1>1, <1>15, <1>25, <2>1, <2>2, <2>4 DEF FailEvolution, graph
  <2> QED
    BY <1>25, <2>3, <2>4 DEF FailEvolution
<1>26. CASE StopEvolution
  <2>1. faults' \in 0..MaxFaults
    BY <1>a, <1>b, <1>26 DEF StopEvolution
  <2>2. tried' \in [SUBSET Pairs -> Tries]
    <3>1. tried[window] \in Tries /\ tried[window].attempts >= 1
      BY <1>1, <1>26 DEF StopEvolution, Examining
    <3>2. tried[window].attempts - 1 \in Nat
      BY <3>1 DEF Tries
    <3>3. [tried[window] EXCEPT !.attempts = @ - 1] \in Tries
      BY <3>1, <3>2 DEF Tries
    <3> QED
      BY <1>1, <1>26, <3>3 DEF StopEvolution
  <2>3. row' \in [Chunks -> Rows]
    BY <1>1, <1>24, <1>26 DEF StopEvolution
  <2> QED
    BY <1>1, <1>15, <1>26, <2>1, <2>2, <2>3 DEF StopEvolution, graph
<1> QED
  BY <1>2, <1>3, <1>4, <1>5, <1>6, <1>7, <1>8, <1>9, <1>11, <1>12, <1>13, <1>14, <1>17, <1>18, <1>19,
     <1>20, <1>21, <1>22, <1>23, <1>25, <1>26 DEF Next

-----------------------------------------------------------------------------
(* Edges. *)

(* What writes edges: a drop, a decision, evolution and the audit.            *)
LEMMA EdgeWriters ==
    ASSUME [Next]_vars
    PROVE  \/ edge' = edge
           \/ \E c \in Chunks : Drop(c) \/ Decide(c)
           \/ \E kept \in BOOLEAN : Propose(kept)
           \/ \E s \in todo : JudgeEdge(s)
<1>1. UNCHANGED vars => edge' = edge
  BY DEF vars, graph
<1>2. \A c \in Chunks : \/ Accept(c) \/ FailLink(c)
                        \/ \E connects \in BOOLEAN : JudgeOrphan(c, connects)
                        => edge' = edge
  BY DEF Accept, FailLink, JudgeOrphan, graph
<1>3. \A h \in {"build", "update"} : Start(h) => edge' = edge
  BY DEF Start, graph
<1>4. EnumerateLinks \/ AfterItem \/ Finalize => edge' = edge
  BY DEF EnumerateLinks, AfterItem, Finalize, MaybeEvolve, graph
<1>5. Activate \/ FailEvolution \/ StopEvolution \/ FinishLinks \/ StartAudit => edge' = edge
  BY DEF Activate, FailEvolution, StopEvolution, FinishLinks, StartAudit, graph
<1>6. \A s \in todo : FailAudit(s) => edge' = edge
  BY DEF FailAudit, graph
<1>7. FinishAudit \/ Verify \/ Kill => edge' = edge
  BY DEF FinishAudit, Verify, Kill, graph
<1> QED
  BY <1>1, <1>2, <1>3, <1>4, <1>5, <1>6, <1>7 DEF Next

(* No step takes an edge away, or changes its pick or its version.            *)
LEMMA EdgeStays ==
    ASSUME Inv, [Next]_vars, NEW p \in Pairs, edge[p] # NoEdge
    PROVE  /\ edge'[p] # NoEdge
           /\ edge'[p].pick = edge[p].pick /\ edge'[p].under = edge[p].under
           /\ edge'[p].status # edge[p].status =>
                  ~(p \subseteq present') \/ (p \cap new["audit"] # {} /\ edge[p].status = "accepted")
<1>1. TypeOK /\ Examining /\ Judging
  BY DEF Inv
<1>2. edge[p] \in Edges /\ edge \in [Pairs -> Edges \cup {NoEdge}] /\ \A e \in Edges : e # NoEdge
  BY <1>1, EdgeFacts DEF TypeOK
<1>3. ASSUME NEW e, NEW status \in {"superseded", "review"}, e = [edge[p] EXCEPT !.status = status]
      PROVE  e \in Edges /\ e.pick = edge[p].pick /\ e.under = edge[p].under
  BY <1>2, <1>3 DEF Edges
<1>4. CASE edge' = edge
  BY <1>4
<1>5. ASSUME NEW c \in Chunks, Drop(c)
      PROVE  edge'[p] = edge[p] \/ (edge'[p] = [edge[p] EXCEPT !.status = "superseded"] /\ ~(p \subseteq present'))
  BY <1>5 DEF Drop
<1>6. ASSUME NEW c \in Chunks, Decide(c)
      PROVE  edge'[p] = edge[p]
  <2>1. p \notin PairsOf(c)
    BY PairsOfFacts
  <2> QED
    BY <1>6, <2>1 DEF Decide
<1>7. ASSUME NEW kept \in BOOLEAN, Propose(kept)
      PROVE  edge'[p] = edge[p] \/ edge'[p] = [edge[p] EXCEPT !.seen = TRUE]
  BY <1>7 DEF Propose
<1>8. [edge[p] EXCEPT !.seen = TRUE] \in Edges /\ [edge[p] EXCEPT !.seen = TRUE].pick = edge[p].pick
      /\ [edge[p] EXCEPT !.seen = TRUE].under = edge[p].under
      /\ [edge[p] EXCEPT !.seen = TRUE].status = edge[p].status
  BY <1>2 DEF Edges
<1>9. ASSUME NEW s \in todo, JudgeEdge(s)
      PROVE  \/ edge'[p] = edge[p]
             \/ /\ edge'[p] = [edge[p] EXCEPT !.status = "review"]
                /\ p \cap new["audit"] # {} /\ edge[p].status = "accepted"
  <2>1. s \in todo \cap Pairs /\ pc = "audit"
    BY <1>9 DEF JudgeEdge
  <2>2. s \cap new["audit"] # {} /\ edge[s].status = "accepted"
    BY <1>1, <2>1 DEF Judging
  <2> QED
    BY <1>2, <1>9, <2>1, <2>2 DEF JudgeEdge
<1>10. \/ edge'[p] = edge[p]
       \/ edge'[p] = [edge[p] EXCEPT !.status = "superseded"] /\ ~(p \subseteq present')
       \/ edge'[p] = [edge[p] EXCEPT !.seen = TRUE]
       \/ /\ edge'[p] = [edge[p] EXCEPT !.status = "review"]
          /\ p \cap new["audit"] # {} /\ edge[p].status = "accepted"
  BY <1>4, <1>5, <1>6, <1>7, <1>9, EdgeWriters
<1> QED
  BY <1>2, <1>3, <1>8, <1>10

-----------------------------------------------------------------------------
(* Evolution. *)

LEMMA ExaminingKept ==
    ASSUME Inv, [Next]_vars
    PROVE  Examining'
<1>1. TypeOK /\ Examining
  BY DEF Inv
<1>2. ASSUME NEW p \in window'
      PROVE  edge'[p] # NoEdge
  <2>1. window' = window \/ window' = Unseen \/ window' = {}
    <3>1. UNCHANGED vars => window' = window
      BY DEF vars, evolution
    <3>2. \A c \in Chunks : \/ Accept(c) \/ Drop(c) \/ Decide(c) \/ FailLink(c)
                            \/ \E connects \in BOOLEAN : JudgeOrphan(c, connects)
                            => window' = window
      BY DEF Accept, Drop, Decide, FailLink, JudgeOrphan, evolution
    <3>3. \A h \in {"build", "update"} : Start(h) => window' = window
      BY DEF Start, evolution
    <3>4. EnumerateLinks => window' = window
      BY DEF EnumerateLinks, evolution
    <3>5. AfterItem \/ Finalize => window' = window \/ window' = Unseen
      BY DEF AfterItem, Finalize, MaybeEvolve
    <3>6. \A kept \in BOOLEAN : Propose(kept) => window' = {}
      BY DEF Propose
    <3>7. Activate \/ StartAudit => window' = window
      BY DEF Activate, StartAudit, evolution
    <3>8. FinishLinks => window' = window \/ window' = {}
      BY DEF FinishLinks, Ended, evolution
    <3>9. \A s \in todo : JudgeEdge(s) \/ FailAudit(s) => window' = window
      BY DEF JudgeEdge, FailAudit, evolution
    <3>10. FinishAudit \/ Verify \/ Kill => window' = window \/ window' = {}
      BY DEF FinishAudit, Verify, Kill, Ended
    <3>11. FailEvolution \/ StopEvolution => window' = {}
      BY DEF FailEvolution, StopEvolution, Ended
    <3> QED
      BY <3>1, <3>2, <3>3, <3>4, <3>5, <3>6, <3>7, <3>8, <3>9, <3>10, <3>11 DEF Next
  <2>2. p \in Pairs /\ edge[p] # NoEdge
    BY <1>1, <1>2, <2>1 DEF Examining, TypeOK, Unseen
  <2> QED
    BY <2>2, EdgeStays
<1> DEFINE E == /\ evolving # "no" => pc \in {"links", "final"}
                /\ evolving = "propose" => approved = 0
                /\ evolving = "propose" => tried[window].attempts >= 1
                /\ evolved => approved = 0 /\ evolving = "no"
                /\ pc # "idle" /\ ~evolved => loaded = active
<1>3. E
  BY <1>1 DEF Examining
<1>4. UNCHANGED <<pc, evolving, evolved, approved, tried, window, loaded, active>> => E'
  BY <1>3
<1>5. Ended => E'
  BY DEF Ended
<1>6. E'
  <2>1. UNCHANGED vars => E'
    BY <1>4 DEF vars, evolution, registry, control
  <2>2. \A c \in Chunks : \/ Accept(c) \/ Drop(c) \/ FailLink(c)
                          \/ \E connects \in BOOLEAN : JudgeOrphan(c, connects)
                          => E'
    BY <1>4 DEF Accept, Drop, FailLink, JudgeOrphan, evolution, registry, control
  <2>3. \A c \in Chunks : Decide(c) => E'
    BY <1>4 DEF Decide, registry, control
  <2>4. \A h \in {"build", "update"} : Start(h) => E'
    BY <1>3 DEF Start, evolution, registry
  <2>5. EnumerateLinks => E'
    BY <1>3 DEF EnumerateLinks, evolution, registry, control
  <2>6. ASSUME NEW final \in BOOLEAN, MaybeEvolve(final), pc' \in {pc, "final"}, pc \in {"links"}
        PROVE  E'
    <3>1. approved = 0 \/ approved > 0
      BY <1>1, BuildAssumption DEF TypeOK, Versions
    <3>2. UNCHANGED <<evolved, approved, loaded, active>>
      BY <2>6 DEF MaybeEvolve, control
    <3>3. CASE UNCHANGED <<evolving, window, tried>>
      BY <1>3, <2>6, <3>2, <3>3
    <3>4. CASE evolving' = "activate" /\ ~evolved
      BY <1>3, <2>6, <3>2, <3>4
    <3>5. CASE /\ evolving' = "propose" /\ ~evolved /\ ~(approved > 0) /\ window' = Unseen
               /\ tried' = [tried EXCEPT ![Unseen] = Claimed(Unseen)]
      <4>1. Unseen \in SUBSET Pairs
        BY DEF Unseen
      <4>2. tried[Unseen].attempts \in Nat /\ tried'[window'] = Claimed(Unseen)
        BY <1>1, <3>5, <4>1 DEF TypeOK, Tries
      <4>3. Claimed(Unseen).attempts >= 1
        BY <4>2 DEF Claimed
      <4> QED
        BY <1>3, <2>6, <3>1, <3>2, <3>5, <4>2, <4>3
    <3> QED
      BY <2>6, <3>3, <3>4, <3>5 DEF MaybeEvolve
  <2>7. AfterItem \/ Finalize => E'
    BY <2>6 DEF AfterItem, Finalize
  <2>8. \A kept \in BOOLEAN : Propose(kept) => E'
    BY <1>3 DEF Propose, control
  <2>9. Activate => E'
    BY <1>3 DEF Activate
  <2>10. FinishLinks => E'
    BY <1>3, <1>5 DEF FinishLinks, evolution, registry, control
  <2>11. StartAudit => E'
    BY <1>3 DEF StartAudit, evolution, registry, control
  <2>12. \A s \in todo : JudgeEdge(s) \/ FailAudit(s) => E'
    BY <1>4 DEF JudgeEdge, FailAudit, evolution, registry, control
  <2>13. FinishAudit => E'
    BY <1>3, <1>5 DEF FinishAudit, registry
  <2>14. Verify \/ Kill => E'
    BY <1>5 DEF Verify, Kill, registry
  <2>15. FailEvolution \/ StopEvolution => E'
    BY <1>3, <1>5 DEF FailEvolution, StopEvolution, control
  <2> QED
    BY <2>1, <2>2, <2>3, <2>4, <2>5, <2>7, <2>8, <2>9, <2>10, <2>11, <2>12, <2>13, <2>14, <2>15 DEF Next
<1> QED
  BY <1>2, <1>6 DEF Examining

(* Only evolution marks an edge as examined, and only it changes approvals.   *)
LEMMA SettlingKept ==
    ASSUME Inv, [Next]_vars
    PROVE  Settling'
<1>1. TypeOK /\ Examining /\ Settling
  BY DEF Inv
<1>2. ASSUME UNCHANGED <<edge, approved, evolved, tried>>, evolved \/ loaded' = loaded, Settled
      PROVE  Settled'
  BY <1>2 DEF Settled, Unseen, Others, Spent
<1>3. ASSUME UNCHANGED <<edge, approved, evolved, tried, loaded, evolving, pc, window, round>>
      PROVE  Settling'
  <2>1. Unseen' = Unseen
    BY <1>3 DEF Unseen
  <2> QED
    BY <1>1, <1>2, <1>3, <2>1 DEF Settling
<1>4. ASSUME pc' \in {"idle", "graph", "links"}
      PROVE  Settling'
  BY <1>4 DEF Settling
<1>5. CASE UNCHANGED vars
  BY <1>3, <1>5 DEF vars, graph, registry, control, evolution
<1>6. ASSUME NEW c \in Chunks, \/ Accept(c) \/ Drop(c) \/ Decide(c) \/ FailLink(c)
      PROVE  Settling'
  BY <1>4, <1>6 DEF Accept, Drop, Decide, FailLink
<1>7. ASSUME NEW c \in Chunks, NEW connects \in BOOLEAN, JudgeOrphan(c, connects)
      PROVE  Settling'
  BY <1>3, <1>7 DEF JudgeOrphan, registry, control, evolution
<1>8. ASSUME NEW h \in {"build", "update"}, Start(h)
      PROVE  Settling'
  BY <1>4, <1>8 DEF Start
<1>9. CASE EnumerateLinks \/ AfterItem
  BY <1>4, <1>9 DEF EnumerateLinks, AfterItem
<1>10. CASE Finalize
  <2>1. UNCHANGED <<edge, approved, evolved, loaded>> /\ pc' = "final" /\ evolving = "no"
    BY <1>10 DEF Finalize, MaybeEvolve, graph, control
  <2>2. Unseen' = Unseen
    BY <2>1 DEF Unseen
  <2>3. evolving' = "propose" => window' = Unseen'
    BY <1>10, <2>1, <2>2 DEF Finalize, MaybeEvolve
  <2>4. ASSUME evolving' = "no"
        PROVE  Settled /\ tried' = tried
    <3>0. tried' = tried
      BY <1>10, <2>4 DEF Finalize, MaybeEvolve
    <3>1. CASE evolved
      BY <1>1, <3>0, <3>1 DEF Examining, Settled
    <3>2. CASE ~evolved
      <4>1. ~(approved > 0) /\ (~Due(TRUE) \/ Spent(Unseen))
        BY <1>10, <2>4, <3>2 DEF Finalize, MaybeEvolve
      <4>2. approved = 0
        BY <1>1, <4>1, BuildAssumption DEF TypeOK, Versions
      <4>3. Due(TRUE) <=> Cardinality(Others(Unseen)) >= Enough
        BY DEF Due
      <4>4. IsFiniteSet(Others(Unseen))
        BY PairFacts, FS_Subset DEF Others, Unseen
      <4>5. Cardinality(Others(Unseen)) \in Nat /\ Enough \in Nat
        BY <4>4, FS_CardinalityType, BuildAssumption
      <4>6. Cardinality(Others(Unseen)) < Enough \/ Spent(Unseen)
        <5>1. Spent(Unseen) \/ ~(Cardinality(Others(Unseen)) >= Enough)
          BY <4>1, <4>3
        <5> QED
          BY ONLY <4>5, <5>1
      <4> QED
        BY <3>0, <4>2, <4>6 DEF Settled
    <3> QED
      BY <3>1, <3>2
  <2> QED
    BY <1>2, <2>1, <2>3, <2>4 DEF Settling
<1>11. ASSUME NEW kept \in BOOLEAN, Propose(kept)
       PROVE  Settling'
  <2>1. pc' = pc /\ pc \in {"links", "final"} /\ approved = 0 /\ evolving = "propose"
    BY <1>1, <1>11 DEF Propose, Examining, control
  <2>2. CASE pc = "links" \/ kept
    BY <1>11, <2>1, <2>2 DEF Propose, Settling
  <2>3. CASE pc = "final" /\ ~kept
    <3>1. window = Unseen /\ window \subseteq Pairs
      BY <1>1, <2>1, <2>3 DEF Settling, TypeOK
    <3>2. \A p \in window : edge'[p] = [edge[p] EXCEPT !.seen = TRUE] /\ edge[p] \in Edges
      BY <1>1, <1>11, <3>1 DEF Propose, Examining, TypeOK
    <3>3. \A p \in window : edge'[p].seen
      BY <3>2 DEF Edges
    <3>4. \A p \in Pairs \ window : edge'[p] = edge[p]
      BY <1>11 DEF Propose
    <3>5. Unseen' = {}
      BY <3>1, <3>3, <3>4 DEF Unseen
    <3>6. Others(Unseen)' = {}
      BY <3>5 DEF Others
    <3>7. Cardinality(Others(Unseen)') = 0 /\ Enough > 0
      BY <3>6, FS_EmptySet, BuildAssumption
    <3>8. Settled'
      BY <1>11, <2>1, <2>3, <3>7 DEF Propose, Settled
    <3> QED
      BY <1>11, <2>1, <2>3, <3>8 DEF Propose, Settling
  <2> QED
    BY <2>1, <2>2, <2>3
<1>12. CASE Activate
  <2>1. pc' = pc /\ pc \in {"links", "final"} /\ evolving' = "no" /\ Settled'
    BY <1>1, <1>12 DEF Activate, Examining, control, Settled
  <2> QED
    BY <2>1 DEF Settling
<1>13. CASE FinishLinks
  <2>1. UNCHANGED <<edge, approved, tried>> /\ Settled
    BY <1>1, <1>13 DEF FinishLinks, registry, Settling
  <2>2. CASE GivesUp
    BY <1>4, <1>13, <2>2 DEF FinishLinks, Ended
  <2>3. CASE ~GivesUp
    BY <1>2, <1>13, <2>1, <2>3 DEF FinishLinks, Settling, evolution, control
  <2> QED
    BY <2>2, <2>3
<1>14. CASE StartAudit
  <2>1. UNCHANGED <<edge, approved, evolved, tried, loaded>> /\ Settled /\ pc' = "audit"
    BY <1>1, <1>14 DEF StartAudit, graph, registry, control, evolution, Settling
  <2> QED
    BY <1>2, <2>1 DEF Settling
<1>15. ASSUME NEW s \in todo, JudgeEdge(s)
       PROVE  Settling'
  <2>1. s \in todo \cap Pairs /\ pc = "audit" /\ pc' = pc /\ UNCHANGED <<approved, evolved, tried, loaded>>
    BY <1>15 DEF JudgeEdge, registry, control, evolution
  <2>2. edge[s] \in Edges /\ edge[s] # NoEdge /\ edge[s].status = "accepted"
    BY <2>1, EdgeFacts DEF Inv, Judging
  <2>3. \A p \in Pairs : p # s => edge'[p] = edge[p]
    BY <1>1, <1>15 DEF JudgeEdge, TypeOK
  <2>4. edge'[s] = edge[s] \/ edge'[s] = [edge[s] EXCEPT !.status = "review"]
    BY <1>1, <1>15, <2>1 DEF JudgeEdge, TypeOK
  <2>5. edge'[s].seen = edge[s].seen /\ edge'[s].pick = edge[s].pick
        /\ edge'[s].status # "superseded" /\ edge'[s] # NoEdge
    BY <2>1, <2>2, <2>4, EdgeFacts DEF Edges, Inv
  <2>6. Unseen' = Unseen
    BY <2>2, <2>3, <2>5 DEF Unseen
  <2>7. Others(Unseen)' = Others(Unseen)
    BY <2>3, <2>5, <2>6 DEF Others, Unseen
  <2>8. Settled'
    BY <1>1, <2>1, <2>6, <2>7 DEF Settling, Settled, Spent
  <2> QED
    BY <2>1, <2>8 DEF Settling
<1>16. ASSUME NEW s \in todo, FailAudit(s)
       PROVE  Settling'
  BY <1>3, <1>16 DEF FailAudit, graph, registry, control, evolution
<1>17. CASE FinishAudit
  <2>1. CASE how = "update"
    BY <1>4, <1>17, <2>1 DEF FinishAudit, Ended
  <2>2. CASE how # "update" /\ pc' = "verify"
    <3>1. UNCHANGED <<edge, approved, evolved, round, tried>> /\ Settled /\ (evolved \/ loaded' = loaded)
      BY <1>1, <1>17, <2>2 DEF FinishAudit, registry, Settling, Examining
    <3>2. evolved => round = MaxRounds
      <4>1. evolved => ~(round < MaxRounds)
        BY <1>17, <2>2 DEF FinishAudit
      <4>2. round \in 0..MaxRounds /\ MaxRounds \in Nat
        BY <1>1, BuildAssumption DEF TypeOK
      <4> QED
        BY <4>1, <4>2
    <3> QED
      BY <1>2, <2>2, <3>1, <3>2 DEF Settling
  <2>3. CASE how # "update" /\ pc' # "verify"
    BY <1>4, <1>17, <2>3 DEF FinishAudit
  <2> QED
    BY <2>1, <2>2, <2>3
<1>18. CASE Verify \/ Kill \/ FailEvolution \/ StopEvolution
  BY <1>4, <1>18 DEF Verify, Kill, FailEvolution, StopEvolution, Ended
<1> QED
  BY <1>5, <1>6, <1>7, <1>8, <1>9, <1>10, <1>11, <1>12, <1>13, <1>14, <1>15, <1>16, <1>17, <1>18 DEF Next

(* The edges that the audit is to judge are accepted; orphans are no pairs.   *)
LEMMA JudgingKept ==
    ASSUME Inv, [Next]_vars
    PROVE  Judging'
<1>1. TypeOK /\ Judging
  BY DEF Inv
<1>2. ASSUME pc' = "audit"
      PROVE  \/ UNCHANGED <<pc, edge, new, todo>>
             \/ StartAudit
             \/ \E s \in todo : /\ UNCHANGED <<pc, new>> /\ todo' = todo \ {s}
                                /\ \A p \in Pairs : p # s => edge'[p] = edge[p]
  <2>1. UNCHANGED vars => UNCHANGED <<pc, edge, new, todo>>
    BY DEF vars, graph
  <2>2. \A c \in Chunks : ~(Accept(c) \/ Drop(c) \/ Decide(c) \/ FailLink(c))
    BY <1>2 DEF Accept, Drop, Decide, FailLink
  <2>3. \A c \in Chunks, connects \in BOOLEAN : JudgeOrphan(c, connects) =>
            {c} \in todo /\ UNCHANGED <<pc, new, edge>> /\ todo' = todo \ {{c}}
    BY DEF JudgeOrphan, Settle
  <2>4. ~(\E h \in {"build", "update"} : Start(h)) /\ ~EnumerateLinks /\ ~AfterItem /\ ~Finalize
    BY <1>2 DEF Start, EnumerateLinks, AfterItem, Finalize
  <2>5. ~(\E kept \in BOOLEAN : Propose(kept)) /\ ~Activate /\ ~FinishLinks
    BY <1>2 DEF Propose, Activate, FinishLinks, Ended, Inv, Examining, control
  <2>6. \A s \in todo : JudgeEdge(s) =>
            /\ UNCHANGED <<pc, new>> /\ todo' = todo \ {s}
            /\ \A p \in Pairs : p # s => edge'[p] = edge[p]
    BY <1>1 DEF JudgeEdge, Settle, TypeOK
  <2>7. \A s \in todo : FailAudit(s) => UNCHANGED <<pc, new, edge>> /\ todo' = todo \ {s}
    BY DEF FailAudit, graph
  <2>8. ~FinishAudit /\ ~Verify /\ ~Kill /\ ~FailEvolution /\ ~StopEvolution
    BY <1>2 DEF FinishAudit, Verify, Kill, FailEvolution, StopEvolution, Ended
  <2> QED
    BY <2>1, <2>2, <2>3, <2>4, <2>5, <2>6, <2>7, <2>8 DEF Next
<1>3. ASSUME StartAudit, NEW p \in todo' \cap Pairs
      PROVE  edge'[p] # NoEdge /\ edge'[p].status = "accepted" /\ p \cap new["audit"]' # {}
  <2>1. UNCHANGED <<edge, new>>
    BY <1>3 DEF StartAudit, graph
  <2>2. \/ p \cap new["audit"] # {} /\ edge[p] # NoEdge /\ edge[p].status = "accepted"
        \/ \E c : p = {c}
    BY <1>3 DEF StartAudit
  <2> QED
    BY <1>3, <2>1, <2>2, PairFacts
<1>4. CASE UNCHANGED <<pc, edge, new, todo>>
  BY <1>1, <1>4 DEF Judging
<1>5. CASE StartAudit
  BY <1>3, <1>5 DEF Judging
<1>6. ASSUME NEW s \in todo, UNCHANGED <<pc, new>>, todo' = todo \ {s},
             \A p \in Pairs : p # s => edge'[p] = edge[p]
      PROVE  Judging'
  BY <1>1, <1>6 DEF Judging
<1> QED
  BY <1>2, <1>4, <1>5, <1>6 DEF Judging

-----------------------------------------------------------------------------
(* What is still to be decided. *)

(* Only a decision takes pairs from the items of anchors in a link stage.     *)
LEMMA NoEdgeStays ==
    ASSUME Inv, [Next]_vars, NEW p \in Pairs, edge'[p] = NoEdge
    PROVE  edge[p] = NoEdge
BY EdgeStays

(* What changes which pairs are candidates, and which chunks are new.         *)
LEMMA CorpusWriters ==
    ASSUME [Next]_vars
    PROVE  \/ UNCHANGED <<present, new, away>>
           \/ \E c \in Chunks : Accept(c) \/ Drop(c)
           \/ FinishLinks \/ FinishAudit
<1>1. UNCHANGED vars => UNCHANGED <<present, new, away>>
  BY DEF vars, graph, history
<1>2. \A c \in Chunks : \/ Decide(c) \/ FailLink(c)
                        \/ \E connects \in BOOLEAN : JudgeOrphan(c, connects)
                        => UNCHANGED <<present, new, away>>
  BY DEF Decide, FailLink, JudgeOrphan, graph, history
<1>3. \A h \in {"build", "update"} : Start(h) => UNCHANGED <<present, new, away>>
  BY DEF Start, graph, history
<1>4. EnumerateLinks \/ AfterItem \/ Finalize => UNCHANGED <<present, new, away>>
  BY DEF EnumerateLinks, AfterItem, Finalize, MaybeEvolve, graph, history
<1>5. \A kept \in BOOLEAN : Propose(kept) => UNCHANGED <<present, new, away>>
  BY DEF Propose, history
<1>6. Activate \/ StartAudit => UNCHANGED <<present, new, away>>
  BY DEF Activate, StartAudit, graph, history
<1>7. \A s \in todo : JudgeEdge(s) \/ FailAudit(s) => UNCHANGED <<present, new, away>>
  BY DEF JudgeEdge, FailAudit, graph, history
<1>8. Verify \/ Kill \/ FailEvolution \/ StopEvolution => UNCHANGED <<present, new, away>>
  BY DEF Verify, Kill, FailEvolution, StopEvolution, graph, history
<1> QED
  BY <1>1, <1>2, <1>3, <1>4, <1>5, <1>6, <1>7, <1>8 DEF Next

(* A row says failed only when its pairs are lost.                            *)
LEMMA RowWriters ==
    ASSUME Inv, [Next]_vars
    PROVE  /\ lost \subseteq lost'
           /\ \A a \in Chunks : row'[a].status = "failed" => row'[a].hash[2] \subseteq lost'
<1>1. TypeOK /\ Outstanding
  BY DEF Inv
<1>2. row \in [Chunks -> Rows]
  BY <1>1 DEF TypeOK
<1>3. ASSUME UNCHANGED <<row, lost>>
      PROVE  /\ lost \subseteq lost'
             /\ \A a \in Chunks : row'[a].status = "failed" => row'[a].hash[2] \subseteq lost'
  BY <1>1, <1>3 DEF Outstanding
<1>4. ASSUME NEW c \in Chunks, Decide(c)
      PROVE  /\ lost \subseteq lost'
             /\ \A a \in Chunks : row'[a].status = "failed" => row'[a].hash[2] \subseteq lost'
  <2>1. lost' = lost /\ row' = [row EXCEPT ![c] = [Fresh EXCEPT !.status = "done"]]
    BY <1>4 DEF Decide, history
  <2>2. row'[c].status = "done"
    BY <1>2, <2>1 DEF Fresh
  <2>3. \A a \in Chunks : a # c => row'[a] = row[a]
    BY <1>2, <2>1
  <2> QED
    BY <1>1, <2>1, <2>2, <2>3 DEF Outstanding
<1>5. ASSUME NEW c \in Chunks, FailLink(c)
      PROVE  /\ lost \subseteq lost'
             /\ \A a \in Chunks : row'[a].status = "failed" => row'[a].hash[2] \subseteq lost'
  <2>1. /\ row'[c].status = "failed" => lost' = lost \cup PairsOf(c)
        /\ row'[c].hash = Hash(c, loaded)
        /\ lost' = lost \/ lost' = lost \cup PairsOf(c)
        /\ \A a \in Chunks : a # c => row'[a] = row[a]
    BY <1>2, <1>5 DEF FailLink
  <2>2. Hash(c, loaded)[2] = PairsOf(c)
    BY DEF Hash
  <2> QED
    BY <1>1, <2>1, <2>2 DEF Outstanding
<1>6. ASSUME NEW c \in Chunks, NEW connects \in BOOLEAN, JudgeOrphan(c, connects)
      PROVE  /\ lost \subseteq lost'
             /\ \A a \in Chunks : row'[a].status = "failed" => row'[a].hash[2] \subseteq lost'
  <2>1. lost' = lost /\ (row' = row \/ row' = [row EXCEPT ![c].status = "pending"])
    BY <1>6 DEF JudgeOrphan, history
  <2>2. row' = row \/ (row'[c].status = "pending" /\ \A a \in Chunks : a # c => row'[a] = row[a])
    BY <1>2, <2>1 DEF Rows
  <2> QED
    BY <1>1, <2>1, <2>2 DEF Outstanding
<1>8. ASSUME FailEvolution \/ StopEvolution
      PROVE  /\ lost \subseteq lost'
             /\ \A a \in Chunks : row'[a].status = "failed" => row'[a].hash[2] \subseteq lost'
  <2>1. lost' = lost /\ (row' = row \/ \E c \in after : row' = SentBack(c))
    BY <1>8 DEF FailEvolution, StopEvolution
  <2>2. ASSUME NEW c \in after, row' = SentBack(c)
        PROVE  row'[c].status = "pending" /\ \A a \in Chunks : a # c => row'[a] = row[a]
    BY <1>1, <1>2, <2>2 DEF SentBack, Rows, TypeOK
  <2> QED
    BY <1>1, <2>1, <2>2 DEF Outstanding
<1>7. \/ UNCHANGED <<row, lost>> \/ FailEvolution \/ StopEvolution
      \/ \E c \in Chunks : \/ Decide(c) \/ FailLink(c)
                           \/ \E connects \in BOOLEAN : JudgeOrphan(c, connects)
  <2>1. UNCHANGED vars => UNCHANGED <<row, lost>>
    BY DEF vars, history
  <2>2. \A c \in Chunks : Accept(c) \/ Drop(c) => UNCHANGED <<row, lost>>
    BY DEF Accept, Drop
  <2>3. \A h \in {"build", "update"} : Start(h) => UNCHANGED <<row, lost>>
    BY DEF Start, history
  <2>4. EnumerateLinks \/ AfterItem \/ Finalize => UNCHANGED <<row, lost>>
    BY DEF EnumerateLinks, AfterItem, Finalize, MaybeEvolve, history
  <2>5. \A kept \in BOOLEAN : Propose(kept) => UNCHANGED <<row, lost>>
    BY DEF Propose, history
  <2>6. Activate \/ FinishLinks \/ StartAudit => UNCHANGED <<row, lost>>
    BY DEF Activate, FinishLinks, StartAudit, history
  <2>7. \A s \in todo : JudgeEdge(s) \/ FailAudit(s) => UNCHANGED <<row, lost>>
    BY DEF JudgeEdge, FailAudit, history
  <2>8. FinishAudit \/ Verify \/ Kill => UNCHANGED <<row, lost>>
    BY DEF FinishAudit, Verify, Kill, history
  <2> QED
    BY <2>1, <2>2, <2>3, <2>4, <2>5, <2>6, <2>7, <2>8 DEF Next
<1> QED
  BY <1>3, <1>4, <1>5, <1>6, <1>7, <1>8

(* At the end of a link stage without failures, what is undecided is lost.    *)
LEMMA LinksCover ==
    ASSUME Inv, pc = "final", failed = {}, away = {}, NEW p \in Candidates, edge[p] = NoEdge
    PROVE  p \in lost
<1>1. Outstanding /\ Enumerated
  BY DEF Inv
<1>2. CASE p \in lost
  BY <1>2
<1>3. CASE p \cap new["links"] # {}
  <2>1. Min(p) \in Chunks /\ p \in PairsOf(Min(p))
    BY <1>3, AnchorOf
  <2>2. PairsOf(Min(p)) \subseteq lost
    BY <1>1, <2>1 DEF Enumerated
  <2> QED
    BY <2>1, <2>2
<1> QED
  BY <1>1, <1>2, <1>3 DEF Outstanding

LEMMA OutstandingKept ==
    ASSUME Inv, [Next]_vars
    PROVE  Outstanding'
<1>1. TypeOK /\ Outstanding
  BY DEF Inv
<1>2. lost \subseteq lost' /\ \A a \in Chunks : row'[a].status = "failed" => row'[a].hash[2] \subseteq lost'
  BY RowWriters
<1>3. ASSUME away' = {}, NEW p \in Candidates', edge'[p] = NoEdge
      PROVE  p \cap new'["links"] # {} \/ p \in lost'
  <2>1. p \in Pairs
    BY <1>3 DEF Candidates
  <2>2. edge[p] = NoEdge
    BY <1>3, <2>1, NoEdgeStays
  <2>3. CASE UNCHANGED <<present, new, away>>
    <3>1. p \in Candidates
      BY <1>3, <2>3 DEF Candidates, Neighbours, Ahead
    <3> QED
      BY <1>1, <1>2, <1>3, <2>2, <2>3, <3>1 DEF Outstanding
  <2>4. ASSUME NEW c \in Chunks, Accept(c)
        PROVE  p \cap new'["links"] # {} \/ p \in lost'
    <3>1. away = {} /\ present' = present \cup {c} /\ new'["links"] = new["links"] \cup {c}
      BY <1>1, <1>3, <2>4 DEF Accept, TypeOK, Stages
    <3>2. c \notin p => p \in Candidates
      BY <1>3, <3>1, CandidatesOfOldChunks
    <3> QED
      BY <1>1, <1>2, <2>2, <3>1, <3>2 DEF Outstanding
  <2>5. ASSUME NEW c \in Chunks, Drop(c)
        PROVE  FALSE
    BY <1>3, <2>5 DEF Drop
  <2>6. CASE FinishLinks
    <3>1. pc = "final" /\ UNCHANGED <<present, away>> /\ new' = Covered("links")
      BY <2>6 DEF FinishLinks, history
    <3>2. p \in Candidates /\ away = {}
      BY <1>3, <3>1 DEF Candidates, Neighbours, Ahead
    <3>3. CASE failed = {}
      BY <1>2, <2>2, <3>1, <3>2, <3>3, LinksCover
    <3>4. CASE failed # {}
      BY <1>1, <1>2, <2>2, <3>1, <3>2, <3>4 DEF Outstanding, Covered
    <3> QED
      BY <3>3, <3>4
  <2>7. CASE FinishAudit
    <3>1. UNCHANGED <<present, away>> /\ new'["links"] = new["links"]
      BY <1>1, <2>7 DEF FinishAudit, Covered, TypeOK, Stages, history
    <3>2. p \in Candidates /\ away = {}
      BY <1>3, <3>1 DEF Candidates, Neighbours, Ahead
    <3> QED
      BY <1>1, <1>2, <2>2, <3>1, <3>2 DEF Outstanding
  <2> QED
    BY <2>3, <2>4, <2>5, <2>6, <2>7, CorpusWriters
<1> QED
  BY <1>2, <1>3 DEF Outstanding

(* Over a link stage, pairs only get decided.                                 *)
LEMMA PairsOfShrink ==
    ASSUME Inv, [Next]_vars, UNCHANGED <<present, new>>, NEW b
    PROVE  PairsOf(b)' \subseteq PairsOf(b)
<1>1. \A p \in Undecided' : p \in Undecided
  <2>1. Candidates' = Candidates
    BY DEF Candidates, Neighbours, Ahead
  <2> QED
    BY <2>1, NoEdgeStays DEF Undecided, Candidates
<1> QED
  BY <1>1 DEF PairsOf

LEMMA EnumeratedKept ==
    ASSUME Inv, [Next]_vars
    PROVE  Enumerated'
<1>1. TypeOK /\ Enumerated /\ Outstanding
  BY DEF Inv
<1> DEFINE Has(b) == PairsOf(b) # {} => {b} \in todo \cup failed \/ PairsOf(b) \subseteq lost
<1> DEFINE Goal == /\ pc \in {"links", "final"} => \A b \in Chunks : Has(b)
                   /\ pc = "final" => todo = {}
                   /\ pc \in {"linked", "audit"} /\ how = "update" => new["links"] = {}
<1>2. Goal
  BY <1>1 DEF Enumerated
<1>3. ASSUME UNCHANGED <<present, new, todo, failed>>, NEW b \in Chunks, Has(b)
      PROVE  Has(b)'
  <2>1. PairsOf(b)' \subseteq PairsOf(b) /\ lost \subseteq lost'
    BY <1>3, PairsOfShrink, RowWriters
  <2> QED
    BY <1>3, <2>1
<1>4. ASSUME UNCHANGED <<present, new, todo, failed, pc, how>>
      PROVE  Goal'
  BY <1>2, <1>3, <1>4
<1>5. ASSUME pc' \in {"idle", "graph", "verify"}
      PROVE  Goal'
  BY <1>5
<1>6. ASSUME pc' = "audit", pc \in {"linked", "audit"}, UNCHANGED <<how, new>>
      PROVE  Goal'
  BY <1>2, <1>6
<1> SUFFICES Goal'
  BY DEF Enumerated
<1> HIDE DEF Goal
<1>7. CASE UNCHANGED vars
  BY <1>4, <1>7 DEF vars, graph, control
<1>8. ASSUME NEW c \in Chunks, Accept(c) \/ Drop(c)
      PROVE  Goal'
  BY <1>5, <1>8 DEF Accept, Drop
<1>9. ASSUME NEW c \in Chunks, Decide(c)
      PROVE  Goal'
  <2>1. UNCHANGED <<present, new, failed, pc, lost>> /\ pc = "links" /\ todo' = todo \ {{c}}
    BY <1>9 DEF Decide, history
  <2>2. PairsOf(c)' = {}
    <3>1. ASSUME NEW p \in PairsOf(c)'
          PROVE  FALSE
      <4>1. p \in PairsOf(c) /\ p \in Pairs /\ edge'[p] = NoEdge
        BY <2>1, <3>1, PairsOfShrink, PairsOfFacts DEF PairsOf, Undecided
      <4>2. PICK answer \in [PairsOf(c) -> Answers] :
                edge'[p] = [pick |-> answer[p].pick, status |-> Resolve(answer[p]),
                            seen |-> FALSE, under |-> loaded]
        BY <1>9, <4>1 DEF Decide
      <4>3. answer[p] \in Asked /\ loaded \in Versions
        BY <1>1, <4>1, <4>2, BuildAssumption DEF TypeOK, Versions
      <4>4. edge'[p] \in Edges
        BY <4>2, <4>3 DEF Asked, Resolve, Edges
      <4> QED
        BY <4>1, <4>4, BuildAssumption
    <3> QED
      BY <3>1
  <2>3. ASSUME NEW b \in Chunks
        PROVE  Has(b)'
    <3>1. PairsOf(b)' \subseteq PairsOf(b) /\ Has(b)
      BY <1>2, <2>1, PairsOfShrink DEF Goal
    <3>2. {b} = {c} => b = c
      OBVIOUS
    <3> QED
      BY <2>1, <2>2, <3>1, <3>2
  <2> QED
    BY <2>1, <2>3 DEF Goal
<1>10. ASSUME NEW c \in Chunks, FailLink(c)
       PROVE  Goal'
  <2>1. UNCHANGED <<present, new, pc>> /\ pc = "links" /\ todo' = todo \ {{c}} /\ failed' = failed \cup {{c}}
    BY <1>10 DEF FailLink, graph
  <2>2. ASSUME NEW b \in Chunks
        PROVE  Has(b)'
    <3>1. PairsOf(b)' \subseteq PairsOf(b) /\ lost \subseteq lost' /\ Has(b)
      BY <1>2, <2>1, PairsOfShrink, RowWriters DEF Goal
    <3> QED
      BY <2>1, <3>1
  <2> QED
    BY <2>1, <2>2 DEF Goal
<1>11. ASSUME NEW c \in Chunks, NEW connects \in BOOLEAN, JudgeOrphan(c, connects)
       PROVE  Goal'
  BY <1>6, <1>11 DEF JudgeOrphan, control
<1>12. ASSUME NEW h \in {"build", "update"}, Start(h)
       PROVE  Goal'
  BY <1>5, <1>12 DEF Start
<1>13. CASE EnumerateLinks
  <2>1. UNCHANGED <<present, new, edge, row, lost>> /\ pc' = "links" /\ todo' = ToLink(loaded)
    BY <1>13 DEF EnumerateLinks, graph, history
  <2>2. ASSUME NEW b \in Chunks, PairsOf(b)' # {}, {b} \notin todo'
        PROVE  PairsOf(b)' \subseteq lost'
    <3>1. PairsOf(b)' \subseteq PairsOf(b)
      BY <2>1, PairsOfShrink
    <3>2. FailedForGood(b, loaded)
      BY <2>1, <2>2, <3>1 DEF ToLink
    <3>3. row[b].hash[2] = PairsOf(b) /\ row[b].hash[2] \subseteq lost
      BY <1>1, <3>2 DEF FailedForGood, Hash, Outstanding
    <3> QED
      BY <2>1, <3>1, <3>3
  <2> QED
    BY <2>1, <2>2 DEF Goal
<1>14. CASE AfterItem
  BY <1>4, <1>14 DEF AfterItem, MaybeEvolve, graph, control
<1>15. CASE Finalize
  <2>1. UNCHANGED <<present, new, todo, failed>> /\ pc = "links" /\ pc' = "final" /\ todo = {}
    BY <1>15 DEF Finalize, MaybeEvolve, graph
  <2> QED
    BY <1>2, <1>3, <2>1 DEF Goal
<1>16. ASSUME NEW kept \in BOOLEAN, Propose(kept)
       PROVE  Goal'
  BY <1>4, <1>16 DEF Propose, control
<1>17. CASE Activate
  BY <1>4, <1>17 DEF Activate, graph, control
<1>18. CASE FinishLinks
  <2>1. CASE GivesUp
    BY <1>5, <1>18, <2>1 DEF FinishLinks, Ended
  <2>2. CASE ~GivesUp
    <3>1. pc' = "linked" /\ how' = how /\ new' = Covered("links")
      BY <1>18, <2>2 DEF FinishLinks, control
    <3>2. how = "update" => new'["links"] = {}
      BY <1>1, <2>2, <3>1 DEF GivesUp, Covered, TypeOK, Stages
    <3> QED
      BY <3>1, <3>2 DEF Goal
  <2> QED
    BY <2>1, <2>2
<1>19. CASE StartAudit
  BY <1>6, <1>19 DEF StartAudit, graph, control
<1>20. ASSUME NEW s \in todo, JudgeEdge(s) \/ FailAudit(s)
       PROVE  Goal'
  BY <1>6, <1>20 DEF JudgeEdge, FailAudit, graph, control
<1>21. CASE FinishAudit
  <2>1. pc' \in {"idle", "graph", "verify"}
    BY <1>21 DEF FinishAudit, Ended
  <2> QED
    BY <1>5, <2>1
<1>22. CASE Verify \/ Kill \/ StopEvolution
  BY <1>5, <1>22 DEF Verify, Kill, StopEvolution, Ended
<1>23. CASE FailEvolution
  <2>1. CASE pc = "final"
    BY <1>5, <1>23, <2>1 DEF FailEvolution, Ended
  <2>2. CASE pc = "links"
    <3>1. UNCHANGED <<present, new, pc, todo>> /\ failed \subseteq failed'
      BY <1>23, <2>2 DEF FailEvolution, graph
    <3>2. ASSUME NEW b \in Chunks
          PROVE  Has(b)'
      <4>1. PairsOf(b)' \subseteq PairsOf(b) /\ lost \subseteq lost' /\ Has(b)
        BY <1>2, <2>2, <3>1, PairsOfShrink, RowWriters DEF Goal
      <4> QED
        BY <3>1, <4>1
    <3> QED
      BY <2>2, <3>1, <3>2 DEF Goal
  <2> QED
    BY <1>23, <2>1, <2>2 DEF FailEvolution
<1> QED
  BY <1>7, <1>8, <1>9, <1>10, <1>11, <1>12, <1>13, <1>14, <1>15, <1>16, <1>17, <1>18, <1>19, <1>20, <1>21,
     <1>22, <1>23 DEF Next

(* A verified build has no item left; an update that ended well has covered   *)
(* all chunks.                                                                *)
LEMMA EndingKept ==
    ASSUME Inv, [Next]_vars
    PROVE  Ending'
<1>1. TypeOK /\ Ending /\ Outstanding /\ Enumerated
  BY DEF Inv
<1>2. ASSUME UNCHANGED <<ok, pc, present, edge, away, lost>>
      PROVE  Ending'
  <2>1. Candidates' = Candidates
    BY <1>2 DEF Candidates, Neighbours, Ahead
  <2> QED
    BY <1>1, <1>2, <2>1 DEF Ending, NothingForgotten
<1>3. ASSUME ok' = FALSE \/ (ok' = ok /\ pc # "idle")
      PROVE  Ending'
  BY <1>1, <1>3 DEF Ending
<1>4. CASE UNCHANGED vars
  BY <1>2, <1>4 DEF vars, graph, history
<1>5. ASSUME NEW c \in Chunks, \/ Accept(c) \/ Drop(c) \/ Decide(c) \/ FailLink(c)
                               \/ \E connects \in BOOLEAN : JudgeOrphan(c, connects)
      PROVE  Ending'
  BY <1>3, <1>5 DEF Accept, Drop, Decide, FailLink, JudgeOrphan
<1>6. ASSUME NEW h \in {"build", "update"}, Start(h)
      PROVE  Ending'
  BY <1>3, <1>6 DEF Start
<1>7. CASE EnumerateLinks \/ AfterItem \/ Finalize \/ FinishLinks \/ StartAudit
  BY <1>3, <1>7 DEF EnumerateLinks, AfterItem, Finalize, MaybeEvolve, FinishLinks, StartAudit
<1>8. ASSUME evolving # "no"
      PROVE  pc # "idle"
  BY <1>8 DEF Inv, Examining
<1>9. ASSUME NEW kept \in BOOLEAN, Propose(kept)
      PROVE  Ending'
  BY <1>3, <1>8, <1>9 DEF Propose
<1>10. CASE Activate
  BY <1>3, <1>8, <1>10 DEF Activate
<1>11. ASSUME NEW s \in todo, JudgeEdge(s) \/ FailAudit(s)
       PROVE  Ending'
  BY <1>3, <1>11 DEF JudgeEdge, FailAudit
<1>12. CASE Kill \/ FailEvolution \/ StopEvolution
  BY <1>3, <1>8, <1>12 DEF Kill, FailEvolution, StopEvolution
<1>13. ASSUME away = {}, NEW p \in Candidates, edge[p] = NoEdge,
              \/ pc = "audit" /\ how = "update"
              \/ RunnableItems = {}
       PROVE  p \in lost
  <2>1. p \in lost \/ p \cap new["links"] # {}
    BY <1>1, <1>13 DEF Outstanding
  <2>2. CASE pc = "audit" /\ how = "update"
    BY <1>1, <2>1, <2>2 DEF Enumerated
  <2>3. CASE RunnableItems = {} /\ p \cap new["links"] # {}
    <3>1. Min(p) \in Chunks /\ p \in PairsOf(Min(p))
      BY <1>13, <2>3, AnchorOf
    <3>2. FailedForGood(Min(p), loaded)
      BY <2>3, <3>1 DEF RunnableItems, ToLink
    <3> QED
      BY <1>1, <3>1, <3>2 DEF FailedForGood, Hash, Outstanding
  <2> QED
    BY <1>13, <2>1, <2>2, <2>3
<1>14. ASSUME UNCHANGED <<present, edge, away, lost>>, pc' = "idle",
              \/ pc = "audit" /\ how = "update"
              \/ ok' => RunnableItems = {}
       PROVE  Ending'
  <2>1. Candidates' = Candidates
    BY <1>14 DEF Candidates, Neighbours, Ahead
  <2>2. ok' /\ away' = {} => \A p \in Candidates' : edge'[p] # NoEdge \/ p \in lost'
    BY <1>13, <1>14, <2>1
  <2> QED
    BY <1>14, <2>2 DEF Ending, NothingForgotten
<1>15. CASE FinishAudit
  <2>1. CASE how = "update"
    BY <1>14, <1>15, <2>1 DEF FinishAudit, Ended, history
  <2>2. CASE how # "update"
    BY <1>3, <1>15, <2>2 DEF FinishAudit
  <2> QED
    BY <2>1, <2>2
<1>16. CASE Verify
  <2>1. ok' => RunnableItems = {}
    BY <1>16 DEF Verify
  <2> QED
    BY <1>14, <1>16, <2>1 DEF Verify, Ended, graph, history
<1> QED
  BY <1>4, <1>5, <1>6, <1>7, <1>9, <1>10, <1>11, <1>12, <1>15, <1>16 DEF Next

-----------------------------------------------------------------------------
(* The theorems. *)

LEMMA InitInv ==
    ASSUME Init
    PROVE  Inv
<1>1. TypeOK
  BY InitTyped
<1>2. pc = "idle" /\ window = {} /\ evolving = "no" /\ ~evolved /\ ok = FALSE /\ present = {}
  BY DEF Init, AtRest
<1>3. Candidates \subseteq {{}}
  BY <1>2 DEF Candidates
<1>4. {} \notin Pairs
  BY PairFacts
<1>5. \A a \in Chunks : row[a].status # "failed"
  BY DEF Init, Fresh
<1>6. Outstanding
  BY <1>3, <1>4, <1>5 DEF Outstanding, Candidates
<1> QED
  BY <1>1, <1>2, <1>6 DEF Inv, Examining, Settling, Judging, Enumerated, Ending

THEOREM Invariant == Spec => []Inv
<1>1. Init => Inv
  BY InitInv
<1>2. Inv /\ [Next]_vars => Inv'
  BY TypesKept, ExaminingKept, SettlingKept, JudgingKept, OutstandingKept, EnumeratedKept, EndingKept DEF Inv
<1> QED
  BY <1>1, <1>2, PTL DEF Spec

(* When a build or update has ended well and the corpus only grew, every      *)
(* candidate pair is decided, or its item failed for good: whatever failed,   *)
(* was killed or went round again before (build.py, s6_links.py, common.py).  *)
THEOREM NothingIsForgotten == Spec => []NothingForgotten
<1>1. Inv => NothingForgotten
  BY DEF Inv, Ending, NothingForgotten
<1> QED
  BY <1>1, Invariant, PTL

(* When the links of a build or update end, nothing approved is inactive, and *)
(* the `other` picks left unexamined are too few to support a type, or there  *)
(* is another round, or the rounds have run out, or the proposal for just     *)
(* these picks has failed for good (evolution.py, build.py, common.py).       *)
THEOREM EvolutionSettles == Spec => []EvolutionSettled
<1>1. Inv => EvolutionSettled
  BY DEF Inv, Settling, Settled, EvolutionSettled
<1> QED
  BY <1>1, Invariant, PTL

(* No step decides a pair again, or changes a decided pair but by dropping    *)
(* its chunks or by the audit of an accepted edge of a new chunk              *)
(* (s6_links.py undecided, s7_audit.py, evolution.py).                        *)
THEOREM LinksStand == Spec => ExistingLinksStand
<1>1. Inv /\ [Next]_vars =>
          [\A p \in Pairs : edge[p] # NoEdge =>
               /\ edge'[p].pick = edge[p].pick /\ edge'[p].under = edge[p].under
               /\ edge'[p].status # edge[p].status =>
                      ~(p \subseteq present') \/ (p \cap new["audit"] # {} /\ edge[p].status = "accepted")
          ]_vars
  BY EdgeStays
<1> QED
  BY <1>1, Invariant, PTL DEF Spec, ExistingLinksStand

(* The link stages of a run of GraphStages are such a build, and stand still  *)
(* while entities are resolved: what is proved of a build holds there.        *)
THEOREM StagesBuild == StagesSpec => Spec
<1>1. InitStages => Init
  BY DEF InitStages
<1>2. [Link \/ ResolveEntities]_stageVars => [Next]_vars
  BY DEF Link, ResolveEntities, stageVars
<1> QED
  BY <1>1, <1>2, PTL DEF StagesSpec, Spec

-----------------------------------------------------------------------------
(* Entities: the least and the greatest of a set of entities, a pair, and the *)
(* order in which merges are made.                                            *)

LEMMA FiniteSetsAsHere ==
    /\ \A S : R!IsFiniteSet(S) <=> IsFiniteSet(S)
    /\ \A S : R!Cardinality(S) = Cardinality(S)
<1>1. ASSUME NEW S PROVE R!IsFiniteSet(S) <=> IsFiniteSet(S)
  BY DEF R!IsFiniteSet, IsFiniteSet
<1>2. ASSUME NEW S PROVE R!Cardinality(S) = Cardinality(S)
  BY DEF R!Cardinality, Cardinality
<1> QED
  BY <1>1, <1>2

LEMMA EntityFacts ==
    /\ EntityIds \subseteq Nat /\ IsFiniteSet(EntityIds)
    /\ Key \in [EntityIds -> Nat] /\ Form \in [EntityIds -> STRING]
    /\ Close \subseteq R!Pairs /\ MaxMoves \in Nat /\ MaxBreaks \in Nat
BY ResolutionAssumption, FiniteSetsAsHere DEF R!EntitiesAssumption

LEMMA LeastOf ==
    ASSUME NEW S \in SUBSET Nat, S # {}
    PROVE  R!Min(S) \in S /\ \A x \in S : R!Min(S) <= x
<1>1. \E x \in S : \A y \in S : ~(<<y, x>> \in OpToRel(<, Nat))
  BY NatLessThanWellFounded, WFMin
<1>2. ASSUME NEW x \in Nat, NEW y \in Nat, <<y, x>> \notin OpToRel(<, Nat) PROVE x <= y
  BY <1>2 DEF OpToRel
<1>3. \E x \in S : \A y \in S : x <= y
  BY <1>1, <1>2
<1> QED
  BY <1>3 DEF R!Min

(* The least set without a greatest, of the subsets of S, would have one more *)
(* element than a set that has one.                                           *)
LEMMA GreatestOf ==
    ASSUME NEW S \in SUBSET Nat, IsFiniteSet(S), S # {}
    PROVE  R!Max(S) \in S /\ \A x \in S : x <= R!Max(S)
<1> DEFINE HasMax(T) == \E x \in T : \A y \in T : y <= x
           Without == {T \in FiniteSubsetsOf(S) : T # {} /\ ~HasMax(T)}
<1>0. SUFFICES ASSUME Without # {} PROVE FALSE
  <2>1. HasMax(S)
    BY <1>0 DEF FiniteSubsetsOf
  <2> QED
    BY <2>1 DEF R!Max
<1>1. PICK T \in Without : \A U \in Without : <<U, T>> \notin StrictSubsetOrdering(S)
  <2>1. Without \subseteq FiniteSubsetsOf(S)
    OBVIOUS
  <2>2. IsWellFoundedOn(StrictSubsetOrdering(S), FiniteSubsetsOf(S))
    BY FS_StrictSubsetOrderingWellFounded
  <2> HIDE DEF Without
  <2> QED
    BY <1>0, <2>1, <2>2, WFMin
<1>2. PICK t \in T : TRUE
  OBVIOUS
<1>3. IsFiniteSet(T) /\ T \subseteq Nat /\ ~HasMax(T)
  BY DEF FiniteSubsetsOf
<1>4. T \ {t} = {} \/ HasMax(T \ {t})
  <2>1. IsFiniteSet(T \ {t})
    BY <1>3, FS_RemoveElement
  <2>2. <<T \ {t}, T>> \in StrictSubsetOrdering(S)
    BY <1>2 DEF StrictSubsetOrdering, FiniteSubsetsOf
  <2>3. T \ {t} \in FiniteSubsetsOf(S)
    BY <2>1 DEF FiniteSubsetsOf
  <2> QED
    BY <1>1, <2>2, <2>3
<1>5. CASE T \ {t} = {}
  <2>1. \A y \in T : y = t
    BY <1>5
  <2> QED
    BY <1>2, <1>3, <2>1
<1>6. CASE HasMax(T \ {t})
  <2>1. PICK x \in T \ {t} : \A y \in T \ {t} : y <= x
    BY <1>6
  <2>2. x \in Nat /\ t \in Nat
    BY <1>2, <1>3
  <2>3. CASE t <= x
    BY <1>3, <2>1, <2>3
  <2>4. CASE x <= t
    BY <1>2, <1>3, <2>1, <2>2, <2>4
  <2> QED
    BY <2>2, <2>3, <2>4
<1> QED
  BY <1>4, <1>5, <1>6

LEMMA PairOfTwo ==
    ASSUME NEW p \in R!Pairs
    PROVE  /\ p \subseteq EntityIds /\ p \subseteq Nat /\ IsFiniteSet(p)
           /\ \E e, f \in p : e # f /\ p = {e, f}
<1>1. p \subseteq EntityIds /\ Cardinality(p) = 2
  BY FiniteSetsAsHere DEF R!Pairs, R!kSubset
<1>2. p \subseteq Nat /\ IsFiniteSet(p)
  BY <1>1, EntityFacts, FS_Subset
<1>3. PICK e : e \in p
  BY <1>1, <1>2, FS_EmptySet
<1>4. IsFiniteSet(p \ {e}) /\ Cardinality(p \ {e}) = 1
  BY <1>1, <1>2, <1>3, FS_RemoveElement
<1>5. PICK f : p \ {e} = {f}
  BY <1>4, FS_Singleton
<1>6. e \in p /\ f \in p /\ e # f /\ p = {e, f}
  BY <1>3, <1>5
<1> QED
  BY <1>1, <1>2, <1>6

LEMMA PairsAreFinite == IsFiniteSet(R!Pairs)
<1>1. R!Pairs \subseteq SUBSET EntityIds
  BY DEF R!Pairs, R!kSubset
<1>2. IsFiniteSet(SUBSET EntityIds)
  BY EntityFacts, FS_SUBSET
<1> QED
  BY <1>1, <1>2, FS_Subset

(* A pair is known by its two entities.                                       *)
LEMMA PairOfEnds ==
    ASSUME NEW p \in R!Pairs, NEW q \in R!Pairs, R!Min(p) = R!Min(q), R!Max(p) = R!Max(q)
    PROVE  p = q
<1>1. ASSUME NEW s \in R!Pairs
      PROVE  s = {R!Min(s), R!Max(s)}
  <2>1. PICK e \in s, f \in s : e # f /\ s = {e, f}
    BY PairOfTwo
  <2>2. s \in SUBSET Nat /\ IsFiniteSet(s) /\ s # {}
    BY <2>1, PairOfTwo
  <2>3. /\ R!Min(s) \in s /\ \A x \in s : R!Min(s) <= x
        /\ R!Max(s) \in s /\ \A x \in s : x <= R!Max(s)
    BY <2>2, LeastOf, GreatestOf
  <2>4. e \in Nat /\ f \in Nat
    BY <2>2
  <2>5. R!Min(s) # R!Max(s)
    BY <2>1, <2>3, <2>4
  <2> QED
    BY <2>1, <2>3, <2>5
<1> QED
  BY <1>1

(* Of pairs left to merge, one comes before all others.                       *)
LEMMA OneIsFirst ==
    ASSUME NEW pairs \in SUBSET R!Pairs, pairs # {}
    PROVE  R!First(pairs) \in pairs
<1> DEFINE Ranks == {R!Rank(p) : p \in pairs}
<1>1. \A p \in R!Pairs : R!Rank(p) \in Nat /\ R!Min(p) \in Nat /\ R!Max(p) \in Nat
  <2> TAKE p \in R!Pairs
  <2>1. p \in SUBSET Nat /\ IsFiniteSet(p) /\ p # {}
    BY PairOfTwo
  <2>2. R!Min(p) \in Nat /\ R!Max(p) \in Nat
    BY <2>1, LeastOf, GreatestOf
  <2> QED
    BY <2>2 DEF R!Rank
<1>2. PICK p0 \in pairs : \A q \in pairs : R!Rank(p0) <= R!Rank(q)
  <2>1. Ranks \in SUBSET Nat /\ Ranks # {}
    BY <1>1
  <2>2. R!Min(Ranks) \in Ranks /\ \A x \in Ranks : R!Min(Ranks) <= x
    BY <2>1, LeastOf
  <2> QED
    BY <2>2
<1> DEFINE Level == {p \in pairs : R!Rank(p) = R!Rank(p0)}
           Mins == {R!Min(p) : p \in Level}
<1>3. PICK p1 \in Level : \A q \in Level : R!Min(p1) <= R!Min(q)
  <2>1. Mins \in SUBSET Nat /\ Mins # {}
    BY <1>1
  <2>2. R!Min(Mins) \in Mins /\ \A x \in Mins : R!Min(Mins) <= x
    BY <2>1, LeastOf
  <2> QED
    BY <2>2
<1> DEFINE Same == {p \in Level : R!Min(p) = R!Min(p1)}
           Maxs == {R!Max(p) : p \in Same}
<1>4. PICK p2 \in Same : \A q \in Same : R!Max(p2) <= R!Max(q)
  <2>1. Maxs \in SUBSET Nat /\ Maxs # {}
    BY <1>1
  <2>2. R!Min(Maxs) \in Maxs /\ \A x \in Maxs : R!Min(Maxs) <= x
    BY <2>1, LeastOf
  <2> QED
    BY <2>2
<1>5. ASSUME NEW q \in pairs, q # p2
      PROVE  R!Before(p2, q)
  <2>0. /\ R!Rank(q) \in Nat /\ R!Rank(p2) \in Nat /\ R!Min(q) \in Nat /\ R!Min(p2) \in Nat
        /\ R!Max(q) \in Nat /\ R!Max(p2) \in Nat /\ R!Rank(p2) = R!Rank(p0) /\ R!Min(p2) = R!Min(p1)
    BY <1>1
  <2>1. CASE q \notin Level
    <3>1. R!Rank(p2) <= R!Rank(q) /\ R!Rank(p2) # R!Rank(q)
      BY <1>2, <2>0, <2>1
    <3> QED
      BY <2>0, <3>1 DEF R!Before
  <2>2. CASE q \in Level /\ q \notin Same
    <3>1. R!Min(p2) <= R!Min(q) /\ R!Min(p2) # R!Min(q) /\ R!Rank(p2) = R!Rank(q)
      BY <1>3, <2>0, <2>2
    <3> QED
      BY <2>0, <3>1 DEF R!Before
  <2>3. CASE q \in Same
    <3>1. R!Max(p2) <= R!Max(q) /\ R!Min(p2) = R!Min(q) /\ R!Rank(p2) = R!Rank(q)
      BY <1>4, <2>0, <2>3
    <3>2. R!Max(p2) # R!Max(q)
      BY <1>5, <3>1, PairOfEnds
    <3> QED
      BY <2>0, <3>1, <3>2 DEF R!Before
  <2> QED
    BY <2>1, <2>2, <2>3
<1>6. \E p \in pairs : \A q \in pairs \ {p} : R!Before(p, q)
  BY <1>5
<1> QED
  BY <1>6 DEF R!First
-----------------------------------------------------------------------------
(* The forest that union-find keeps, and its clusters. *)

(* Whatever goes up from an entity meets a root.                              *)
Rooted(parent) ==
    \A S \in SUBSET DOMAIN parent : S # {} /\ R!Closed(parent, S) => \E e \in S : parent[e] = e

Partition(of) ==
    /\ of \in [entities -> SUBSET entities]
    /\ \A e \in entities : e \in of[e]
    /\ \A e \in entities : \A f \in of[e] : of[f] = of[e]

(* The forest hangs an entity under one of its cluster, whose first is root.  *)
Forest(of, parent) ==
    /\ parent \in [entities -> entities] /\ Rooted(parent)
    /\ \A e \in entities : parent[e] \in of[e] /\ (parent[e] = e => e = R!Min(of[e]))

LEMMA AboveFacts ==
    ASSUME NEW X, NEW parent \in [X -> X], NEW e \in X
    PROVE  /\ e \in R!Above(parent, e) /\ R!Above(parent, e) \subseteq X
           /\ R!Closed(parent, R!Above(parent, e))
           /\ \A S \in SUBSET X : e \in S /\ R!Closed(parent, S) => R!Above(parent, e) \subseteq S
<1>1. e \in R!Above(parent, e) /\ R!Above(parent, e) \subseteq X
  BY DEF R!Above
<1>2. \A S \in SUBSET X : e \in S /\ R!Closed(parent, S) => R!Above(parent, e) \subseteq S
  BY DEF R!Above
<1>3. ASSUME NEW f \in R!Above(parent, e)
      PROVE  parent[f] \in R!Above(parent, e)
  <2>1. f \in X /\ parent[f] \in X
    BY <1>1
  <2>2. \A S \in SUBSET X : e \in S /\ R!Closed(parent, S) => parent[f] \in S
    BY <1>2 DEF R!Closed
  <2> QED
    BY <2>1, <2>2 DEF R!Above
<1>4. R!Closed(parent, R!Above(parent, e))
  BY <1>3 DEF R!Closed
<1> QED
  BY <1>1, <1>2, <1>4

LEMMA FindFacts ==
    ASSUME NEW X, NEW parent \in [X -> X], Rooted(parent), NEW e \in X
    PROVE  /\ R!Find(parent, e) \in R!Above(parent, e) /\ R!Find(parent, e) \in X
           /\ parent[R!Find(parent, e)] = R!Find(parent, e)
<1>1. \E f \in R!Above(parent, e) : parent[f] = f
  BY AboveFacts DEF Rooted
<1> QED
  BY <1>1, AboveFacts DEF R!Find

LEMMA FindNext ==
    ASSUME NEW X, NEW parent \in [X -> X], NEW e \in X, parent[parent[e]] = parent[e]
    PROVE  R!Find(parent, e) = parent[e]
<1>1. R!Above(parent, e) \subseteq {e, parent[e]}
  <2>1. R!Closed(parent, {e, parent[e]}) /\ {e, parent[e]} \in SUBSET X
    BY DEF R!Closed
  <2> QED
    BY <2>1, AboveFacts
<1>2. parent[e] \in R!Above(parent, e)
  BY AboveFacts DEF R!Closed
<1> QED
  BY <1>1, <1>2 DEF R!Find

(* Within one set that has one root, find finds it.                           *)
LEMMA FindWithin ==
    ASSUME NEW X, NEW parent \in [X -> X], Rooted(parent), NEW S \in SUBSET X, NEW r,
           R!Closed(parent, S), \A f \in S : parent[f] = f => f = r,
           NEW e \in S
    PROVE  R!Find(parent, e) = r
<1>1. R!Above(parent, e) \subseteq S
  BY AboveFacts
<1> QED
  BY <1>1, FindFacts

LEMMA RootOf ==
    ASSUME NEW of, NEW parent, Partition(of), Forest(of, parent), entities \subseteq Nat,
           NEW e \in entities
    PROVE  /\ R!Min(of[e]) \in of[e] /\ R!Min(of[e]) \in entities
           /\ \A f \in of[e] : R!Min(of[e]) <= f
           /\ parent[R!Min(of[e])] = R!Min(of[e]) /\ of[R!Min(of[e])] = of[e]
<1>1. of[e] \in SUBSET Nat /\ of[e] # {} /\ of[e] \subseteq entities
  BY DEF Partition
<1>2. R!Min(of[e]) \in of[e] /\ \A f \in of[e] : R!Min(of[e]) <= f
  BY <1>1, LeastOf
<1>3. R!Closed(parent, of[e])
  BY <1>1 DEF R!Closed, Partition, Forest
<1>4. PICK f \in of[e] : parent[f] = f
  BY <1>1, <1>3 DEF Forest, Rooted
<1>5. f = R!Min(of[e])
  BY <1>1, <1>4 DEF Forest, Partition
<1> QED
  BY <1>1, <1>2, <1>4, <1>5 DEF Partition
-----------------------------------------------------------------------------
(* The loop over the pairs: what holds before each. *)

States ==
    [of : [entities -> SUBSET entities], parent : [entities -> entities],
     refused : SUBSET R!Pairs, left : SUBSET R!Pairs]

(* No cluster has a pair of which Jev said that it differs.                   *)
Agrees(of) ==
    \A p \in R!Pairs : said[p] = "different" => \A e \in entities : ~(p \subseteq of[e])

Looped(state) ==
    /\ state \in States /\ state.left \subseteq R!Mergeable
    /\ Partition(state.of) /\ Forest(state.of, state.parent) /\ Agrees(state.of)
    /\ \A e \in entities : \A r, s \in R!Held(state.of[e]) : r = s
    /\ \A p \in R!Mergeable \ state.left :
          p \in state.refused \/ \E e \in entities : p \subseteq state.of[e]

LEMMA MergeableFacts ==
    /\ R!Mergeable \subseteq R!Pairs /\ IsFiniteSet(R!Mergeable)
    /\ \A p \in R!Mergeable : p \subseteq entities
<1>1. R!Mergeable \subseteq R!Pairs /\ \A p \in R!Mergeable : p \subseteq entities
  BY DEF R!Mergeable, R!Identical, R!Accepted
<1> QED
  BY <1>1, PairsAreFinite, FS_Subset

LEMMA AloneLooped ==
    ASSUME R!TypeOK
    PROVE  Looped(R!Alone)
<1> DEFINE of == [e \in entities |-> {e}]
           parent == [e \in entities |-> e]
<1>1. entities \subseteq Nat
  BY EntityFacts DEF R!TypeOK
<1>2. Partition(of)
  BY DEF Partition
<1>3. Rooted(parent)
  BY DEF Rooted
<1>4. ASSUME NEW e \in entities PROVE e = R!Min({e})
  <2>1. {e} \in SUBSET Nat /\ {e} # {}
    BY <1>1
  <2>2. R!Min({e}) \in {e}
    BY <2>1, LeastOf
  <2> QED
    BY <2>2
<1>5. Forest(of, parent)
  BY <1>3, <1>4 DEF Forest
<1>6. \A e \in entities : \A r, s \in R!Held(of[e]) : r = s
  BY DEF R!Held
<1>6a. Agrees(of)
  <2>1. ASSUME NEW p \in R!Pairs, NEW e \in entities, p \subseteq of[e] PROVE FALSE
    BY <2>1, PairOfTwo
  <2> QED
    BY <2>1 DEF Agrees
<1>7. R!Alone = [of |-> of, parent |-> parent, refused |-> {}, left |-> R!Mergeable]
  BY DEF R!Alone
<1>8. R!Alone \in States
  BY <1>7, MergeableFacts DEF States
<1> HIDE DEF of, parent
<1> QED
  BY <1>2, <1>5, <1>6, <1>6a, <1>7, <1>8 DEF Looped

(* find hangs what it passes under the root: the forest stays one.            *)
LEMMA ShortenedForest ==
    ASSUME R!TypeOK, NEW state, Looped(state), NEW p \in R!Mergeable
    PROVE  Forest(state.of, R!Shortened(state, p))
<1> DEFINE of == state.of
           short == R!Shortened(state, p)
           path == UNION {R!Above(state.parent, e) : e \in p}
<1>1. entities \subseteq Nat /\ Partition(of) /\ Forest(of, state.parent)
  BY EntityFacts DEF R!TypeOK, Looped
<1>2. DOMAIN state.parent = entities /\ state.parent \in [entities -> entities]
  BY <1>1 DEF Forest
<1>3. short = [e \in entities |-> IF e \in path THEN R!Min(of[e]) ELSE state.parent[e]]
  BY <1>2 DEF R!Shortened
<1> HIDE DEF short, path, of
<1>4. ASSUME NEW e \in entities
      PROVE  /\ R!Min(of[e]) \in entities /\ R!Min(of[e]) \in of[e]
             /\ R!Min(of[R!Min(of[e])]) = R!Min(of[e])
             /\ state.parent[R!Min(of[e])] = R!Min(of[e])
  <2>1. of[R!Min(of[e])] = of[e]
    BY <1>1, RootOf
  <2> QED
    BY <1>1, <2>1, RootOf
<1>5. short \in [entities -> entities]
  BY <1>2, <1>3, <1>4
<1>6. \A e \in entities : short[e] \in of[e] /\ (short[e] = e => e = R!Min(of[e]))
  BY <1>1, <1>3, <1>4 DEF Forest
<1>7. ASSUME NEW S \in SUBSET entities, S # {}, R!Closed(short, S)
      PROVE  \E e \in S : short[e] = e
  <2>1. CASE \E e \in S : e \in path
    <3>1. PICK e \in S : e \in path
      BY <2>1
    <3>2. short[e] = R!Min(of[e]) /\ short[e] \in S
      BY <1>3, <1>7, <3>1 DEF R!Closed
    <3>3. short[short[e]] = short[e]
      BY <1>3, <1>4, <3>2
    <3> QED
      BY <3>2, <3>3
  <2>2. CASE S \cap path = {}
    <3>1. \A e \in S : short[e] = state.parent[e]
      BY <1>3, <2>2
    <3>2. R!Closed(state.parent, S)
      BY <1>7, <3>1 DEF R!Closed
    <3> QED
      BY <1>1, <1>2, <1>7, <3>1, <3>2 DEF Forest, Rooted
  <2> QED
    BY <2>1, <2>2
<1>8. Rooted(short)
  BY <1>5, <1>7 DEF Rooted
<1>9. Forest(of, short)
  BY <1>5, <1>6, <1>8 DEF Forest
<1> QED
  BY <1>9 DEF of, short

LEMMA RefuseLooped ==
    ASSUME R!TypeOK, NEW state, Looped(state), NEW p \in R!Mergeable
    PROVE  LET next == R!Refuse(state, p) IN
           /\ Looped(next) /\ next.left = state.left
           /\ p \in next.refused \/ \E e \in entities : p \subseteq next.of[e]
<1> DEFINE next == R!Refuse(state, p)
<1>1. state \in States /\ Forest(state.of, R!Shortened(state, p))
  BY ShortenedForest DEF Looped
<1>2. /\ next.of = state.of /\ next.left = state.left /\ next.parent = R!Shortened(state, p)
      /\ next.refused = IF \E e, f \in p : state.of[e] # state.of[f]
                        THEN state.refused \cup {p} ELSE state.refused
  BY <1>1 DEF R!Refuse, States
<1>3. next \in States
  <2>1. R!Shortened(state, p) \in [entities -> entities]
    BY <1>1 DEF Forest
  <2>2. p \in R!Pairs
    BY MergeableFacts
  <2> QED
    BY <1>1, <2>1, <2>2 DEF R!Refuse, States
<1> HIDE DEF next
<1>4. p \in next.refused \/ \E e \in entities : p \subseteq next.of[e]
  <2>1. PICK e \in p, f \in p : p = {e, f}
    BY PairOfTwo, MergeableFacts
  <2>2. e \in entities /\ f \in entities
    BY MergeableFacts
  <2>3. CASE state.of[e] = state.of[f]
    <3>1. p \subseteq state.of[e]
      BY <2>1, <2>2, <2>3 DEF Looped, Partition
    <3> QED
      BY <1>2, <2>2, <3>1
  <2> QED
    BY <1>2, <2>3
<1>5. state.refused \subseteq next.refused
  BY <1>2
<1>6. Looped(next)
  BY <1>1, <1>2, <1>3, <1>5 DEF Looped
<1> QED
  BY <1>2, <1>4, <1>6 DEF next

(* The roots of two clusters: the greater goes under the lesser.              *)
LEMMA TwoRoots ==
    ASSUME NEW a \in Nat, NEW b \in Nat
    PROVE  /\ R!Min({a, b}) = IF a <= b THEN a ELSE b
           /\ R!Max({a, b}) = IF a <= b THEN b ELSE a
<1>1. IsFiniteSet({a, b}) /\ {a, b} \in SUBSET Nat
  <2>1. IsFiniteSet({a}) /\ {a, b} = {a} \cup {b}
    BY FS_Singleton
  <2> QED
    BY <2>1, FS_AddElement
<1>2. /\ R!Min({a, b}) \in {a, b} /\ \A x \in {a, b} : R!Min({a, b}) <= x
      /\ R!Max({a, b}) \in {a, b} /\ \A x \in {a, b} : x <= R!Max({a, b})
  BY <1>1, LeastOf, GreatestOf
<1> QED
  BY <1>2

LEMMA UniteLooped ==
    ASSUME R!TypeOK, NEW state, Looped(state), NEW p \in R!Mergeable,
           \A r, s \in R!Held(R!Joined(state.of, p)) : r = s, ~R!Differ(state.of, p)
    PROVE  LET next == R!Unite(state, p) IN
           /\ Looped(next) /\ next.left = state.left
           /\ \E e \in entities : p \subseteq next.of[e]
<1> DEFINE of == state.of
           short == R!Shortened(state, p)
           all == R!Joined(of, p)
           roots == {R!Min(of[e]) : e \in p}
           next == R!Unite(state, p)
<1>1. /\ entities \subseteq Nat /\ state \in States /\ Partition(of) /\ Forest(of, short)
      /\ of \in [entities -> SUBSET entities] /\ short \in [entities -> entities]
  BY ShortenedForest, EntityFacts DEF R!TypeOK, Looped, Partition, Forest
<1>2. PICK a \in p, b \in p : p = {a, b}
  BY PairOfTwo, MergeableFacts
<1>3. a \in entities /\ b \in entities /\ p \subseteq entities
  BY MergeableFacts
<1>4. all = of[a] \cup of[b]
  BY <1>2 DEF R!Joined
<1>5. /\ \A e \in entities : /\ R!Min(of[e]) \in of[e] /\ R!Min(of[e]) \in entities
                             /\ \A f \in of[e] : R!Min(of[e]) <= f
                             /\ short[R!Min(of[e])] = R!Min(of[e])
                             /\ of[R!Min(of[e])] = of[e]
  BY <1>1, RootOf
<1>6. PICK lo \in entities, hi \in entities :
          /\ lo = R!Min(roots) /\ hi = R!Max(roots) /\ lo <= hi
          /\ {lo, hi} = {R!Min(of[a]), R!Min(of[b])}
  <2>1. roots = {R!Min(of[a]), R!Min(of[b])}
    BY <1>2
  <2>2. R!Min(of[a]) \in Nat /\ R!Min(of[b]) \in Nat /\ R!Min(of[a]) \in entities /\ R!Min(of[b]) \in entities
    BY <1>1, <1>3, <1>5
  <2> HIDE DEF of, roots
  <2>3. CASE R!Min(of[a]) <= R!Min(of[b])
    BY <2>1, <2>2, <2>3, TwoRoots
  <2>4. CASE R!Min(of[b]) < R!Min(of[a])
    BY <2>1, <2>2, <2>4, TwoRoots
  <2> QED
    BY <2>2, <2>3, <2>4
<1> DEFINE of2 == [e \in entities |-> IF e \in all THEN all ELSE of[e]]
           parent2 == [short EXCEPT ![hi] = lo]
<1>7. /\ next.of = of2 /\ next.parent = parent2
      /\ next.refused = state.refused /\ next.left = state.left
  BY <1>1, <1>6 DEF R!Unite, States
<1>8. next \in States
  <2>1. of2 \in [entities -> SUBSET entities]
    BY <1>1, <1>3, <1>4
  <2>2. parent2 \in [entities -> entities]
    BY <1>1, <1>6
  <2> QED
    BY <1>1, <1>6, <2>1, <2>2 DEF R!Unite, States
<1>9. lo \in all /\ hi \in all /\ short[lo] = lo /\ \A e \in all : lo <= e
  <2>1. lo \in all /\ hi \in all /\ short[lo] = lo
    <3>1. R!Min(of[a]) \in all /\ short[R!Min(of[a])] = R!Min(of[a])
      BY <1>3, <1>4, <1>5
    <3>2. R!Min(of[b]) \in all /\ short[R!Min(of[b])] = R!Min(of[b])
      BY <1>3, <1>4, <1>5
    <3>3. lo \in {R!Min(of[a]), R!Min(of[b])} /\ hi \in {R!Min(of[a]), R!Min(of[b])}
      BY <1>6
    <3> HIDE DEF all, short, of
    <3> QED
      BY <3>1, <3>2, <3>3
  <2>2. lo <= R!Min(of[a]) /\ lo <= R!Min(of[b])
    BY <1>1, <1>6
  <2>3. ASSUME NEW e \in all PROVE lo <= e
    <3>1. e \in Nat /\ lo \in Nat /\ R!Min(of[a]) \in Nat /\ R!Min(of[b]) \in Nat
      BY <1>1, <1>3, <1>4, <1>5
    <3>2. R!Min(of[a]) <= e \/ R!Min(of[b]) <= e
      BY <1>3, <1>4, <1>5
    <3> QED
      BY <2>2, <3>1, <3>2
  <2> QED
    BY <2>1, <2>3
<1>10. \A e \in all : e \in entities /\ (of[e] = of[a] \/ of[e] = of[b]) /\ of[e] \subseteq all
  BY <1>1, <1>3, <1>4 DEF Partition
<1>11. lo = R!Min(all)
  <2>1. all \in SUBSET Nat /\ all # {}
    BY <1>1, <1>9, <1>10
  <2>2. R!Min(all) \in all /\ R!Min(all) <= lo
    BY <1>9, <2>1, LeastOf
  <2>3. lo <= R!Min(all) /\ lo \in Nat /\ R!Min(all) \in Nat
    BY <1>1, <1>9, <2>1, <2>2
  <2> HIDE DEF all, of, roots
  <2> QED
    BY <2>2, <2>3
<1> HIDE DEF all, next, short, of
<1>12. Partition(of2)
  <2>1. of2 \in [entities -> SUBSET entities] /\ \A e \in entities : e \in of2[e]
    BY <1>1, <1>10 DEF Partition
  <2>2. ASSUME NEW e \in entities, NEW f \in of2[e] PROVE of2[f] = of2[e]
    <3>1. CASE e \in all
      BY <1>10, <3>1
    <3>2. CASE e \notin all
      <4>1. f \in of[e] /\ f \in entities /\ of[f] = of[e]
        BY <1>1, <3>2 DEF Partition
      <4>2. f \notin all
        BY <1>1, <1>10, <3>2, <4>1 DEF Partition
      <4> QED
        BY <3>2, <4>1, <4>2
    <3> QED
      BY <3>1, <3>2
  <2> QED
    BY <2>1, <2>2 DEF Partition
<1>13. parent2 \in [entities -> entities] /\ \A e \in entities : parent2[e] = IF e = hi THEN lo ELSE short[e]
  BY <1>1, <1>6
<1>14. ASSUME NEW e \in entities
       PROVE  parent2[e] \in of2[e] /\ (parent2[e] = e => e = R!Min(of2[e]))
  <2>0. short[e] \in of[e] /\ (short[e] = e => e = R!Min(of[e]))
    BY <1>1 DEF Forest
  <2>1. CASE e \in all
    <3>1. of2[e] = all /\ parent2[e] \in all
      BY <1>9, <1>10, <1>13, <2>0, <2>1
    <3>2. ASSUME parent2[e] = e PROVE e = lo
      <4>1. CASE e = hi
        BY <1>13, <3>2, <4>1
      <4>2. CASE e # hi
        <5>1. e = R!Min(of[e])
          BY <1>13, <2>0, <3>2, <4>2
        <5>2. e = R!Min(of[a]) \/ e = R!Min(of[b])
          BY <1>10, <2>1, <5>1
        <5> QED
          BY <1>6, <4>2, <5>2
      <4> QED
        BY <4>1, <4>2
    <3> QED
      BY <1>11, <3>1, <3>2
  <2>2. CASE e \notin all
    BY <1>9, <1>13, <2>0, <2>2
  <2> QED
    BY <2>1, <2>2
<1>15. ASSUME NEW S \in SUBSET entities, S # {}, R!Closed(parent2, S)
       PROVE  \E e \in S : parent2[e] = e
  <2>1. CASE hi \in S
    <3>1. lo \in S /\ parent2[lo] = lo
      BY <1>9, <1>13, <1>15, <2>1 DEF R!Closed
    <3> QED
      BY <3>1
  <2>2. CASE hi \notin S
    <3>1. R!Closed(short, S)
      BY <1>13, <1>15, <2>2 DEF R!Closed
    <3>2. PICK e \in S : short[e] = e
      BY <1>1, <1>15, <3>1 DEF Forest, Rooted
    <3> QED
      BY <1>13, <2>2, <3>2
  <2> QED
    BY <2>1, <2>2
<1>16. Forest(of2, parent2)
  <2>1. Rooted(parent2)
    BY <1>13, <1>15 DEF Rooted
  <2> QED
    BY <1>13, <1>14, <2>1 DEF Forest
<1>17. \A e \in entities : \A r, s \in R!Held(of2[e]) : r = s
  BY DEF Looped, all, of
<1>18. \A e \in entities : of[e] \subseteq of2[e]
  BY <1>10
<1>19. p \subseteq of2[a]
  BY <1>1, <1>2, <1>3, <1>4 DEF Partition
<1>19a. Agrees(of2)
  <2> SUFFICES ASSUME NEW q \in R!Pairs, said[q] = "different", NEW x \in entities, q \subseteq of2[x]
               PROVE  FALSE
    BY DEF Agrees
  <2>1. \A y \in entities : ~(q \subseteq of[y])
    BY DEF Looped, Agrees, of
  <2>2. q \subseteq all
    BY <2>1
  <2>3. PICK e \in q, f \in q : q = {e, f}
    BY PairOfTwo
  <2>4. e \in all /\ f \in all /\ e \in entities /\ f \in entities
    BY <1>10, <2>2, <2>3
  <2>5. of[e] # of[f]
    BY <1>1, <2>1, <2>3, <2>4 DEF Partition
  <2> QED
    BY <2>3, <2>4, <2>5 DEF R!Differ, all, of
<1> HIDE DEF of2, parent2
<1>20. Looped(next)
  <2>1. \A q \in R!Mergeable \ state.left : q \in state.refused \/ \E e \in entities : q \subseteq of2[e]
    BY <1>18 DEF Looped, of
  <2> QED
    BY <1>7, <1>8, <1>12, <1>16, <1>17, <1>19a, <2>1 DEF Looped
<1> QED
  BY <1>3, <1>7, <1>19, <1>20 DEF next

(* One turn of the loop: the pair is refused or within a cluster, and gone.   *)
LEMMA TurnLooped ==
    ASSUME R!TypeOK, NEW state, Looped(state), state.left # {}
    PROVE  LET p == R!First(state.left)
               next == [R!Join(state, p) EXCEPT !.left = @ \ {p}]
           IN Looped(next) /\ Cardinality(next.left) = Cardinality(state.left) - 1
<1> DEFINE p == R!First(state.left)
           joined == R!Join(state, p)
           next == [joined EXCEPT !.left = @ \ {p}]
<1>1. p \in state.left /\ p \in R!Mergeable
  BY OneIsFirst, MergeableFacts DEF Looped, States
<1> HIDE DEF p
<1>2. /\ Looped(joined) /\ joined.left = state.left
      /\ p \in joined.refused \/ \E e \in entities : p \subseteq joined.of[e]
  <2>1. CASE (\E r, s \in R!Held(R!Joined(state.of, p)) : r # s) \/ R!Differ(state.of, p)
    BY <1>1, <2>1, RefuseLooped DEF R!Join
  <2>2. CASE ~((\E r, s \in R!Held(R!Joined(state.of, p)) : r # s) \/ R!Differ(state.of, p))
    BY <1>1, <2>2, UniteLooped DEF R!Join
  <2> QED
    BY <2>1, <2>2
<1> HIDE DEF joined
<1>3. /\ next.of = joined.of /\ next.parent = joined.parent /\ next.refused = joined.refused
      /\ next.left = state.left \ {p} /\ next \in States
  BY <1>2 DEF Looped, States
<1> HIDE DEF next
<1>4. Looped(next)
  BY <1>2, <1>3 DEF Looped
<1>5. Cardinality(state.left \ {p}) = Cardinality(state.left) - 1
  <2>1. IsFiniteSet(state.left)
    BY MergeableFacts, FS_Subset DEF Looped
  <2> QED
    BY <1>1, <2>1, FS_RemoveElement
<1> QED
  BY <1>3, <1>4, <1>5 DEF next, joined, p

(* The loop is well defined: the least number of turns it could not make      *)
(* would be one more than a number it could.                                  *)
Turn(state) ==
    LET p == R!First(state.left)
    IN [R!Join(state, p) EXCEPT !.left = @ \ {p}]

LEMMA UnionsByTurn ==
    /\ R!Unions[0] = R!Alone
    /\ \A k \in 1..Cardinality(R!Mergeable) : R!Unions[k] = Turn(R!Unions[k - 1])
<1> DEFINE N == Cardinality(R!Mergeable)
           Loop(u, m) == u = [k \in 0..m |-> IF k = 0 THEN R!Alone ELSE Turn(u[k - 1])]
           Without == {m \in 0..N : ~ \E u : Loop(u, m)}
<1>1. N \in Nat
  BY MergeableFacts, FS_CardinalityType
<1>2. Without = {}
  <2>1. SUFFICES ASSUME Without # {} PROVE FALSE
    OBVIOUS
  <2>2. PICK m \in Without : \A k \in Without : m <= k
    <3>1. Without \in SUBSET Nat
      BY <1>1
    <3> HIDE DEF Without
    <3> QED
      BY <2>1, <3>1, LeastOf
  <2>3. CASE m = 0
    <3>1. Loop([k \in 0..0 |-> R!Alone], 0)
      OBVIOUS
    <3> QED
      BY <2>2, <2>3, <3>1
  <2>4. CASE m # 0
    <3>1. m \in 0..N /\ m - 1 \in 0..N /\ ~(m <= m - 1)
      BY <1>1, <2>2, <2>4
    <3>2. PICK u : Loop(u, m - 1)
      BY <2>2, <3>1
    <3> DEFINE v == [k \in 0..m |-> IF k = m THEN Turn(u[m - 1]) ELSE u[k]]
    <3>3. ASSUME NEW k \in 0..m
          PROVE  v[k] = IF k = 0 THEN R!Alone ELSE Turn(v[k - 1])
      <4>1. CASE k = 0
        <5>1. k # m /\ k \in 0..(m - 1)
          BY <2>4, <3>1, <4>1
        <5>2. u[k] = R!Alone
          BY <3>2, <4>1, <5>1
        <5> QED
          BY <4>1, <5>1, <5>2
      <4>2. CASE k # 0 /\ k # m
        <5>1. k \in 0..(m - 1) /\ k - 1 \in 0..m /\ k - 1 # m
          BY <3>1, <4>2
        <5>2. u[k] = Turn(u[k - 1])
          BY <3>2, <4>2, <5>1
        <5> QED
          BY <4>2, <5>1, <5>2
      <4>3. CASE k # 0 /\ k = m
        <5>1. k - 1 \in 0..m /\ k - 1 # m
          BY <3>1, <4>3
        <5> QED
          BY <4>3, <5>1
      <4> QED
        BY <4>1, <4>2, <4>3
    <3>4. v = [k \in 0..m |-> IF k = 0 THEN R!Alone ELSE Turn(v[k - 1])]
      BY <3>3, Zenon
    <3> QED
      BY <2>2, <3>4
  <2> QED
    BY <2>3, <2>4
<1>3. PICK u : Loop(u, N)
  <2>1. N \in 0..N
    BY <1>1
  <2> QED
    BY <1>2, <2>1
<1>4. R!Unions = [k \in 0..N |-> IF k = 0 THEN R!Alone ELSE Turn(R!Unions[k - 1])]
  BY <1>3, FiniteSetsAsHere, Zenon DEF R!Unions, Turn
<1>5. ASSUME NEW k \in 0..N PROVE R!Unions[k] = IF k = 0 THEN R!Alone ELSE Turn(R!Unions[k - 1])
  BY <1>4
<1> QED
  BY <1>1, <1>5

LEMMA UnionsLooped ==
    ASSUME R!TypeOK
    PROVE  LET last == R!Unions[R!Cardinality(R!Mergeable)] IN
           Looped(last) /\ last.left = {}
<1> DEFINE N == Cardinality(R!Mergeable)
           Good(k) == /\ Looped(R!Unions[k])
                      /\ Cardinality(R!Unions[k].left) = N - k
           Bad == {k \in 0..N : ~Good(k)}
<1>1. N \in Nat
  BY MergeableFacts, FS_CardinalityType
<1>2. Good(0)
  <2>1. R!Unions[0].left = R!Mergeable
    BY UnionsByTurn DEF R!Alone
  <2> QED
    BY <1>1, <2>1, UnionsByTurn, AloneLooped
<1>3. ASSUME NEW k \in 1..N, Good(k - 1)
      PROVE  Good(k)
  <2> DEFINE state == R!Unions[k - 1]
  <2>1. Looped(state) /\ Cardinality(state.left) = N - (k - 1)
    BY <1>3
  <2>2. R!Unions[k] = Turn(state)
    BY <1>3, UnionsByTurn
  <2> HIDE DEF state
  <2>3. state.left # {}
    <3>1. Cardinality(state.left) # 0
      BY <1>1, <1>3, <2>1
    <3> QED
      BY <3>1, FS_EmptySet
  <2>4. Looped(Turn(state)) /\ Cardinality(Turn(state).left) = Cardinality(state.left) - 1
    BY <2>1, <2>3, TurnLooped DEF Turn
  <2>5. Cardinality(Turn(state).left) = N - k
    BY <1>1, <2>1, <2>4
  <2> QED
    BY <2>2, <2>4, <2>5
<1> HIDE DEF Good
<1>4. Bad = {}
  <2>1. SUFFICES ASSUME Bad # {} PROVE FALSE
    OBVIOUS
  <2>2. PICK k \in Bad : \A j \in Bad : k <= j
    <3>1. Bad \in SUBSET Nat
      BY <1>1
    <3> HIDE DEF Bad
    <3> QED
      BY <2>1, <3>1, LeastOf
  <2>3. k # 0 /\ k \in 1..N /\ k - 1 \in 0..N /\ ~(k <= k - 1)
    BY <1>1, <1>2, <2>2
  <2> QED
    BY <1>3, <2>2, <2>3
<1>5. Good(N)
  BY <1>1, <1>4
<1>6. Looped(R!Unions[N]) /\ Cardinality(R!Unions[N].left) = 0
  BY <1>1, <1>5 DEF Good
<1>7. R!Unions[N].left = {}
  <2>1. IsFiniteSet(R!Unions[N].left)
    BY <1>6, MergeableFacts, FS_Subset DEF Looped
  <2> QED
    BY <1>6, <2>1, FS_EmptySet
<1> QED
  BY <1>6, <1>7, FiniteSetsAsHere
-----------------------------------------------------------------------------
(* Clusters that hold an existing one are hung under its root. *)

(* A root is under no other.                                                  *)
Flat == \A e \in EntityIds : root[root[e]] = root[e]

LEMMA FindIsOne ==
    ASSUME NEW X, NEW parent \in [X -> X], Rooted(parent), NEW e \in X,
           NEW r \in R!Above(parent, e), parent[r] = r
    PROVE  R!Find(parent, e) = r
<1> DEFINE s == R!Find(parent, e)
           Both == {f \in X : r \in R!Above(parent, f) /\ s \in R!Above(parent, f)}
<1>1. s \in R!Above(parent, e) /\ parent[s] = s /\ s \in X /\ r \in X
  BY FindFacts, AboveFacts
<1> HIDE DEF s
<1>2. ASSUME NEW f \in X
      PROVE  /\ R!Above(parent, f) \subseteq {f} \cup R!Above(parent, parent[f])
             /\ parent[f] = f => R!Above(parent, f) \subseteq {f}
  <2>1. R!Closed(parent, {f} \cup R!Above(parent, parent[f]))
    BY AboveFacts DEF R!Closed
  <2>2. {f} \cup R!Above(parent, parent[f]) \in SUBSET X
    BY AboveFacts
  <2>3. parent[f] = f => R!Closed(parent, {f})
    BY DEF R!Closed
  <2> QED
    BY <2>1, <2>2, <2>3, AboveFacts
<1>3. SUFFICES ASSUME r # s PROVE FALSE
  BY DEF s
<1>4. R!Closed(parent, Both)
  <2>1. ASSUME NEW f \in Both PROVE parent[f] \in Both
    <3>1. f # r /\ f # s
      BY <1>1, <1>2, <1>3
    <3> QED
      BY <1>2, <3>1
  <2> QED
    BY <2>1 DEF R!Closed
<1>5. PICK f \in Both : parent[f] = f
  <2>1. Both # {} /\ Both \in SUBSET DOMAIN parent
    BY <1>1
  <2> HIDE DEF Both
  <2> QED
    BY <1>4, <2>1 DEF Rooted
<1> QED
  BY <1>2, <1>3, <1>5

LEMMA FindThrough ==
    ASSUME NEW X, NEW parent \in [X -> X], Rooted(parent), NEW e \in X
    PROVE  R!Find(parent, e) = R!Find(parent, parent[e])
<1>1. R!Above(parent, parent[e]) \subseteq R!Above(parent, e)
  BY AboveFacts DEF R!Closed
<1>2. /\ R!Find(parent, parent[e]) \in R!Above(parent, e)
      /\ parent[R!Find(parent, parent[e])] = R!Find(parent, parent[e])
  BY <1>1, FindFacts
<1> QED
  BY <1>2, FindIsOne

LEMMA RehungFacts ==
    ASSUME R!TypeOK, NEW state, Looped(state)
    PROVE  /\ IsFiniteSet(R!Rehung(state.of)) /\ entities \subseteq Nat
           /\ \A S \in R!Rehung(state.of) :
                 /\ S \subseteq entities /\ R!Min(S) \in S
                 /\ \A e \in S : state.of[e] = S
                 /\ \E w \in entities : R!Held(S) = {w}
<1> DEFINE of == state.of
<1>1. /\ entities \subseteq Nat /\ IsFiniteSet(entities)
      /\ Partition(of) /\ Forest(of, state.parent) /\ DOMAIN of = entities
      /\ \A e \in entities : \A r, s \in R!Held(of[e]) : r = s
  BY EntityFacts, FS_Subset DEF R!TypeOK, Looped, Partition
<1>2. IsFiniteSet(R!Rehung(of))
  <2> HIDE DEF of
  <2>1. R!Rehung(of) \subseteq SUBSET entities
    <3>1. ASSUME NEW S \in R!Rehung(of) PROVE S \in SUBSET entities
      <4>1. PICK e \in entities : S = of[e]
        BY <1>1 DEF R!Rehung
      <4> QED
        BY <1>1, <4>1 DEF Partition
    <3> QED
      BY <3>1
  <2>2. IsFiniteSet(SUBSET entities)
    BY <1>1, FS_SUBSET
  <2> QED
    BY <2>1, <2>2, FS_Subset
<1> HIDE DEF of
<1>3. ASSUME NEW S \in R!Rehung(of)
      PROVE  /\ S \subseteq entities /\ R!Min(S) \in S
             /\ \A e \in S : of[e] = S
             /\ \E w \in entities : R!Held(S) = {w}
  <2>1. PICK e \in entities : S = of[e]
    BY <1>1 DEF R!Rehung
  <2>2. S \subseteq entities /\ R!Min(S) \in S /\ \A f \in S : of[f] = S
    BY <1>1, <2>1, RootOf DEF Partition
  <2>3. PICK w : w \in R!Held(S)
    BY DEF R!Rehung
  <2>4. w \in entities /\ R!Held(S) = {w}
    BY <1>1, <2>1, <2>3 DEF R!Rehung
  <2> QED
    BY <2>2, <2>4
<1> QED
  BY <1>1, <1>2, <1>3 DEF of

(* An entity hangs as it did, or under the root its last rehung cluster holds.*)
LEMMA HungFacts ==
    ASSUME R!TypeOK, NEW state, Looped(state), NEW e \in entities
    PROVE  /\ R!Over(state.of, e) = {} => R!Rehang(state)[e] = state.parent[e]
           /\ R!Over(state.of, e) # {} =>
                 \E S \in R!Over(state.of, e) :
                     /\ R!Held(S) = {R!Rehang(state)[e]}
                     /\ \A T \in R!Over(state.of, e) : R!Min(T) <= R!Min(S)
<1> DEFINE over == R!Over(state.of, e)
           firsts == {R!Min(S) : S \in over}
<1>1. DOMAIN state.parent = entities
  BY DEF Looped, Forest
<1>2. over = {} => R!Rehang(state)[e] = state.parent[e]
  BY <1>1 DEF R!Rehang
<1>3. ASSUME over # {}
      PROVE  \E S \in over : /\ R!Held(S) = {R!Rehang(state)[e]}
                             /\ \A T \in over : R!Min(T) <= R!Min(S)
  <2>1. over \subseteq R!Rehung(state.of)
    BY DEF R!Over
  <2>2. firsts \in SUBSET entities /\ firsts # {}
    BY <1>3, <2>1, RehungFacts
  <2>3. firsts \in SUBSET Nat /\ IsFiniteSet(firsts)
    BY <2>2, EntityFacts, FS_Subset DEF R!TypeOK
  <2>4. \E S \in over : \A T \in over : R!Min(T) <= R!Min(S)
    BY <2>2, <2>3, GreatestOf
  <2>5. R!Last(over) \in over /\ \A T \in over : R!Min(T) <= R!Min(R!Last(over))
    BY <2>4 DEF R!Last
  <2>6. R!Rehang(state)[e] = CHOOSE w \in R!Held(R!Last(over)) : TRUE
    BY <1>1, <1>3 DEF R!Rehang
  <2>7. PICK w \in entities : R!Held(R!Last(over)) = {w}
    BY <2>1, <2>5, RehungFacts
  <2>8. R!Rehang(state)[e] = w
    BY <2>6, <2>7
  <2> QED
    BY <2>5, <2>7, <2>8
<1> QED
  BY <1>2, <1>3

LEMMA HungTyped ==
    ASSUME R!TypeOK, NEW state, Looped(state)
    PROVE  R!Rehang(state) \in [entities -> entities]
<1>1. DOMAIN state.parent = entities /\ state.parent \in [entities -> entities]
  BY DEF Looped, Forest
<1>2. ASSUME NEW e \in entities PROVE R!Rehang(state)[e] \in entities
  <2>1. CASE R!Over(state.of, e) = {}
    BY <1>1, <2>1, HungFacts
  <2>2. CASE R!Over(state.of, e) # {}
    <3>1. PICK S \in R!Rehung(state.of) : R!Held(S) = {R!Rehang(state)[e]}
      BY <2>2, HungFacts DEF R!Over
    <3> QED
      BY <3>1, RehungFacts
  <2> QED
    BY <2>1, <2>2
<1> QED
  BY <1>1, <1>2 DEF R!Rehang

(* Going up through clusters hung one after another ends: under the root that *)
(* the last of those on the way holds.                                        *)
LEMMA HungRooted ==
    ASSUME R!TypeOK, NEW state, Looped(state)
    PROVE  Rooted(R!Rehang(state))
<1> DEFINE hung == R!Rehang(state)
           of == state.of
<1>1. hung \in [entities -> entities]
  BY HungTyped
<1> HIDE DEF hung, of
<1>2. ASSUME NEW S \in SUBSET entities, S # {}, R!Closed(hung, S)
      PROVE  \E e \in S : hung[e] = e
  <2> DEFINE above == {T \in R!Rehung(of) : \E e \in S : T \in R!Over(of, e)}
             firsts == {R!Min(T) : T \in above}
  <2>1. CASE above = {}
    <3>1. \A e \in S : R!Over(of, e) = {}
      BY <2>1 DEF R!Over
    <3>2. \A e \in S : hung[e] = state.parent[e]
      BY <3>1, HungFacts DEF hung, of
    <3>3. R!Closed(state.parent, S)
      BY <1>2, <3>2 DEF R!Closed
    <3>4. S \in SUBSET DOMAIN state.parent /\ Rooted(state.parent)
      BY DEF Looped, Forest
    <3> QED
      BY <1>2, <3>2, <3>3, <3>4 DEF Rooted
  <2>2. CASE above # {}
    <3>1. firsts \in SUBSET Nat /\ firsts # {} /\ IsFiniteSet(firsts)
      <4>1. firsts \in SUBSET entities /\ firsts # {}
        BY <2>2, RehungFacts DEF of
      <4> QED
        BY <4>1, EntityFacts, FS_Subset DEF R!TypeOK
    <3>2. PICK T \in above : \A U \in above : R!Min(U) <= R!Min(T)
      BY <3>1, GreatestOf
    <3>3. ASSUME NEW e \in S, T \in R!Over(of, e)
          PROVE  R!Held(T) = {hung[e]}
      <4>1. PICK U \in R!Over(of, e) : R!Held(U) = {hung[e]} /\ R!Min(T) <= R!Min(U)
        BY <1>2, <3>3, HungFacts DEF hung, of
      <4>2. U \in above /\ U \in R!Rehung(of) /\ T \in R!Rehung(of)
        BY <4>1 DEF R!Over
      <4>3. R!Min(T) \in Nat /\ R!Min(U) \in Nat /\ R!Min(U) <= R!Min(T)
        BY <3>1, <3>2, <4>2
      <4>4. R!Min(U) = R!Min(T)
        BY <4>1, <4>3
      <4>5. U = T
        BY <4>2, <4>4, RehungFacts DEF of
      <4> QED
        BY <4>1, <4>5
    <3>4. PICK e \in S : T \in R!Over(of, e)
      OBVIOUS
    <3>5. hung[e] \in S /\ R!Held(T) = {hung[e]}
      BY <1>2, <3>3, <3>4 DEF R!Closed
    <3>6. T \in R!Over(of, hung[e])
      BY <3>4, <3>5 DEF R!Over
    <3>7. R!Held(T) = {hung[hung[e]]}
      BY <3>3, <3>5, <3>6
    <3> QED
      BY <3>5, <3>7
  <2> QED
    BY <2>1, <2>2
<1>3. Rooted(hung)
  BY <1>1, <1>2 DEF Rooted
<1> QED
  BY <1>3 DEF hung

-----------------------------------------------------------------------------
(* What a merge does to the clusters there are. *)

(* The root of a covered entity is in no cluster but its own root's.          *)
LEMMA RootIsHeld ==
    ASSUME R!TypeOK, Flat, NEW state, Looped(state), NEW S \in SUBSET entities, NEW e \in entities,
           e \in R!Held(S), e \notin fresh
    PROVE  root[e] = e /\ R!Held(state.of[e]) = {e}
<1>1. PICK f \in S \ fresh : e = root[f]
  BY DEF R!Held
<1>2. root[e] = e
  BY <1>1 DEF Flat, R!TypeOK
<1>3. e \in state.of[e] /\ e \in R!Held(state.of[e])
  BY <1>2 DEF Looped, Partition, R!Held
<1>4. \A r \in R!Held(state.of[e]) : r = e
  BY <1>3 DEF Looped
<1> QED
  BY <1>1, <1>2, <1>3, <1>4

(* What find gives an entity is the first of its cluster, or a root that a    *)
(* covered entity had.                                                        *)
LEMMA FirstOrStanding ==
    ASSUME R!TypeOK, NEW state, Looped(state), NEW x \in entities
    PROVE  R!Find(R!Rehang(state), x) \in {R!Min(state.of[x])} \cup R!Standing
<1> DEFINE hung == R!Rehang(state)
           of == state.of
           standing == {f \in entities : \E S \in R!Rehung(of) : f \in R!Held(S)}
           r == R!Find(hung, x)
<1>1. /\ hung \in [entities -> entities] /\ Rooted(hung) /\ Partition(of) /\ Forest(of, state.parent)
      /\ entities \subseteq Nat
  BY HungTyped, HungRooted, EntityFacts DEF Looped, R!TypeOK
<1> HIDE DEF hung
<1>2. ASSUME NEW e \in entities, R!Over(of, e) # {}
      PROVE  hung[e] \in standing
  <2>1. PICK S \in R!Over(of, e) : R!Held(S) = {hung[e]}
    BY <1>2, HungFacts DEF hung
  <2> QED
    BY <1>1, <2>1 DEF R!Over
<1>3. ASSUME NEW e \in standing
      PROVE  R!Over(of, e) # {}
  BY DEF R!Over
<1>4. ASSUME NEW e \in of[x], R!Over(of, e) = {}
      PROVE  hung[e] \in of[x] /\ (hung[e] = e => e = R!Min(of[x]))
  <2>1. e \in entities /\ of[e] = of[x]
    BY <1>1 DEF Partition
  <2>2. hung[e] = state.parent[e]
    BY <1>4, <2>1, HungFacts DEF hung
  <2> QED
    BY <1>1, <2>1, <2>2 DEF Forest
<1>5. r \in of[x] \cup standing /\ hung[r] = r
  <2>1. of[x] \cup standing \in SUBSET entities /\ x \in of[x]
    BY <1>1 DEF Partition
  <2>2. R!Closed(hung, of[x] \cup standing)
    BY <1>2, <1>3, <1>4, <2>1 DEF R!Closed
  <2> HIDE DEF of, standing
  <2>3. R!Above(hung, x) \subseteq of[x] \cup standing
    BY <1>1, <2>1, <2>2, AboveFacts
  <2> QED
    BY <1>1, <2>3, FindFacts
<1>6. standing \subseteq R!Standing
  <2>1. \A S \in R!Rehung(of) : S \subseteq entities
    BY RehungFacts
  <2> QED
    BY <2>1 DEF R!Held, R!Standing
<1>7. r \in entities
  BY <1>1, FindFacts
<1> HIDE DEF r
<1>8. ASSUME R!Over(of, r) = {} PROVE r = R!Min(of[x])
  BY <1>3, <1>4, <1>5, <1>8
<1>9. ASSUME R!Over(of, r) # {} PROVE r \in R!Standing
  BY <1>2, <1>5, <1>6, <1>7, <1>9
<1> QED
  BY <1>8, <1>9 DEF r, hung

(* A root is taken out of the cluster it has joined only if it is new and a   *)
(* covered entity's, which then keeps it.                                     *)
LEMMA TakenRoot ==
    ASSUME R!TypeOK, Flat, NEW state, Looped(state), NEW e \in entities,
           NEW T \in R!Over(state.of, e), e \in R!Held(T), R!Rehang(state)[e] = e,
           R!Held(state.of[e]) # {e}
    PROVE  \E f \in entities \ fresh :
              root[f] = e /\ e \in fresh /\ R!Find(R!Rehang(state), f) = e
<1>1. T \in R!Rehung(state.of) /\ T \subseteq entities /\ R!Held(T) = {e}
  BY RehungFacts DEF R!Over
<1>2. e \in fresh
  BY <1>1, RootIsHeld
<1>3. PICK f \in T \ fresh : root[f] = e
  BY DEF R!Held
<1>4. f \in entities /\ state.of[f] = T
  BY <1>1, <1>3, RehungFacts
<1>5. ASSUME NEW U \in R!Over(state.of, f)
      PROVE  U = T
  <2>1. U \in R!Rehung(state.of) /\ U \subseteq entities
    BY RehungFacts DEF R!Over
  <2>2. CASE f \in U
    BY <1>4, <2>1, <2>2, RehungFacts
  <2>3. CASE f \in R!Held(U)
    <3>1. root[f] = f
      BY <1>3, <1>4, <2>1, <2>3, RootIsHeld
    <3> QED
      BY <1>2, <1>3, <3>1
  <2> QED
    BY <2>2, <2>3 DEF R!Over
<1>6. T \in R!Over(state.of, f)
  BY <1>1, <1>3 DEF R!Over
<1>7. R!Rehang(state)[f] = e
  BY <1>1, <1>4, <1>5, <1>6, HungFacts
<1>8. R!Find(R!Rehang(state), f) = e
  BY <1>4, <1>7, HungTyped, FindNext
<1> QED
  BY <1>2, <1>3, <1>4, <1>8

LEMMA OneRootOrTaken ==
    ASSUME R!TypeOK, Flat, NEW state, Looped(state), NEW x \in entities
    PROVE  \/ \A e \in state.of[x] : R!Find(R!Rehang(state), e) = R!Find(R!Rehang(state), x)
           \/ \E f \in entities \ fresh :
                 root[f] \in fresh /\ R!Find(R!Rehang(state), f) = root[f]
<1> DEFINE hung == R!Rehang(state)
           of == state.of
           S == of[x]
           Taken == \E f \in entities \ fresh : root[f] \in fresh /\ R!Find(hung, f) = root[f]
<1>1. /\ hung \in [entities -> entities] /\ Rooted(hung) /\ Partition(of) /\ Forest(of, state.parent)
      /\ S \in SUBSET entities /\ x \in S /\ entities \subseteq Nat
      /\ \A e \in S : e \in entities /\ of[e] = S
  BY HungTyped, HungRooted, EntityFacts DEF Looped, Partition, R!TypeOK
<1> HIDE DEF hung
<1>2. SUFFICES ASSUME ~Taken PROVE \A e \in S : R!Find(hung, e) = R!Find(hung, x)
  BY DEF hung
<1>3. ASSUME NEW e \in S, NEW T \in R!Over(of, e), e \notin T \/ R!Held(S) # {hung[e]}, R!Held(T) = {hung[e]}
      PROVE  hung[e] = e /\ R!Held(S) = {e}
  <2>1. e \notin T
    BY <1>1, <1>3, RehungFacts DEF R!Over
  <2>2. e \in R!Held(T) /\ hung[e] = e
    BY <1>3, <2>1 DEF R!Over
  <2>3. ASSUME R!Held(S) # {e} PROVE FALSE
    <3>1. e \in entities /\ R!Held(of[e]) # {e} /\ R!Rehang(state)[e] = e
      BY <1>1, <2>2, <2>3 DEF hung
    <3>2. PICK f \in entities \ fresh :
             root[f] = e /\ e \in fresh /\ R!Find(R!Rehang(state), f) = e
      BY <2>2, <3>1, TakenRoot
    <3> QED
      BY <1>2, <3>2 DEF hung
  <2> QED
    BY <2>2, <2>3
<1>4. R!Min(S) \in S /\ state.parent[R!Min(S)] = R!Min(S)
  BY <1>1, RootOf
<1>5. CASE S \in R!Rehung(of)
  <2>1. PICK w \in entities : R!Held(S) = {w}
    BY <1>5, RehungFacts
  <2>2. ASSUME NEW e \in S PROVE hung[e] = w
    <3>1. S \in R!Over(of, e) /\ e \in entities
      BY <1>1, <1>5 DEF R!Over
    <3>2. PICK T \in R!Over(of, e) : R!Held(T) = {hung[e]}
      BY <3>1, HungFacts DEF hung
    <3> HIDE DEF S, of
    <3>3. CASE R!Held(S) # {hung[e]}
      BY <1>3, <2>1, <3>2, <3>3
    <3> QED
      BY <2>1, <3>3
  <2>3. \A e \in S : R!Find(hung, e) = R!Find(hung, w)
    BY ZenonT(40), <1>1, <2>2, FindThrough
  <2> QED
    BY <1>1, <2>3
<1>6. CASE S \notin R!Rehung(of)
  <2>1. ASSUME NEW e \in S, R!Over(of, e) # {}
        PROVE  e = R!Min(S) /\ hung[e] = e
    <3>1. PICK T \in R!Over(of, e) : R!Held(T) = {hung[e]}
      BY <1>1, <2>1, HungFacts DEF hung
    <3>2. e \notin T
      BY <1>1, <1>6, <3>1, RehungFacts DEF R!Over
    <3>3. hung[e] = e /\ R!Held(S) = {e}
      BY <1>3, <3>1, <3>2
    <3>4. e = R!Min(S)
      BY <1>1, <1>6, <3>3 DEF R!Rehung, Partition
    <3> QED
      BY <3>3, <3>4
  <2>2. ASSUME NEW e \in S
        PROVE  hung[e] \in S /\ (hung[e] = e => e = R!Min(S))
    <3>1. CASE R!Over(of, e) = {}
      <4>1. hung[e] = state.parent[e]
        BY <1>1, <3>1, HungFacts DEF hung
      <4> QED
        BY <1>1, <4>1 DEF Forest
    <3> QED
      BY <2>1, <3>1
  <2>3. R!Closed(hung, S)
    BY <2>2 DEF R!Closed
  <2>4. ASSUME NEW e \in S PROVE R!Find(hung, e) = R!Min(S)
    <3>1. /\ hung \in [entities -> entities] /\ Rooted(hung) /\ S \in SUBSET entities
          /\ \A f \in S : hung[f] = f => f = R!Min(S)
      BY <1>1, <2>2
    <3> HIDE DEF S, of
    <3> QED
      BY ONLY <2>3, <2>4, <3>1, FindWithin
  <2> QED
    BY <1>1, <2>4
<1> QED
  BY <1>5, <1>6

(* Merges leave covered entities under the root they have.                    *)
LEMMA RootStands ==
    ASSUME R!TypeOK, Flat, R!Settled, NEW state, Looped(state),
           NEW e \in entities \ fresh, root[e] \in entities \ fresh
    PROVE  R!Find(R!Rehang(state), e) = root[e]
<1> DEFINE hung == R!Rehang(state)
           of == state.of
           w == root[e]
<1>1. /\ hung \in [entities -> entities] /\ Rooted(hung) /\ Partition(of) /\ Forest(of, state.parent)
      /\ entities \subseteq Nat /\ entities \subseteq rows /\ entities \subseteq EntityIds
      /\ DOMAIN of = entities
  BY HungTyped, HungRooted, EntityFacts DEF Looped, Partition, R!TypeOK
<1>2. /\ \A f \in of[e] : R!Find(hung, f) = R!Find(hung, e)
      /\ \A f \in entities : f \in of[f] /\ of[f] \subseteq entities
  BY <1>1, OneRootOrTaken DEF R!Settled, Partition
<1> HIDE DEF hung
<1>3. w \in entities /\ w \notin fresh /\ root[w] = w
  BY <1>1 DEF Flat
<1> HIDE DEF w
<1>4. R!Held(of[e]) = {w} /\ R!Held(of[w]) = {w}
  <2>1. w \in R!Held(of[e]) /\ w \in R!Held(of[w])
    BY <1>2, <1>3 DEF R!Held, w
  <2>2. \A f \in entities : \A r, s \in R!Held(of[f]) : r = s
    BY DEF Looped
  <2> QED
    BY <1>3, <2>1, <2>2
<1>5. R!Over(of, w) # {} => hung[w] = w
  <2>1. SUFFICES ASSUME R!Over(of, w) # {} PROVE hung[w] = w
    OBVIOUS
  <2>2. PICK T \in R!Over(of, w) : R!Held(T) = {hung[w]}
    BY <1>3, <2>1, HungFacts DEF hung
  <2>3. CASE w \in T
    <3>1. T = of[w]
      BY <2>2, <2>3, RehungFacts DEF R!Over
    <3> QED
      BY <1>4, <2>2, <3>1
  <2> QED
    BY <2>2, <2>3 DEF R!Over
<1>6. CASE w \in of[e]
  <2>1. of[w] = of[e]
    BY <1>1, <1>6 DEF Partition
  <2>2. CASE R!Over(of, w) = {}
    <3>1. of[e] \notin R!Rehung(of)
      BY <1>6, <2>2 DEF R!Over
    <3>2. w = R!Min(of[e])
      BY <1>1, <1>3, <1>4, <3>1 DEF R!Rehung
    <3>3. hung[w] = w
      <4>1. state.parent[w] = w
        BY <1>1, <3>2, RootOf
      <4> QED
        BY <1>3, <2>2, <4>1, HungFacts DEF hung
    <3>4. R!Find(hung, w) = w
      BY <1>1, <1>3, <3>3, FindNext
    <3> QED
      BY <1>2, <1>6, <3>4 DEF hung, w
  <2>3. CASE R!Over(of, w) # {}
    <3>1. R!Find(hung, w) = w
      BY <1>1, <1>3, <1>5, <2>3, FindNext
    <3> QED
      BY <1>2, <1>6, <3>1 DEF hung, w
  <2> QED
    BY <2>2, <2>3
<1>7. CASE w \notin of[e]
  <2>1. of[e] \in R!Rehung(of)
    <3>1. R!Min(of[e]) \in of[e]
      BY <1>1, RootOf
    <3> QED
      BY <1>1, <1>3, <1>4, <1>7, <3>1 DEF R!Rehung
  <2>2. of[e] \in R!Over(of, e) /\ of[e] \in R!Over(of, w)
    BY <1>2, <1>4, <2>1 DEF R!Over
  <2>3. PICK T \in R!Over(of, e) : R!Held(T) = {hung[e]}
    BY <2>2, HungFacts DEF hung
  <2>4. e \in T
    <3>1. T \in R!Rehung(of) /\ T \subseteq entities
      BY RehungFacts DEF R!Over
    <3>2. e \in R!Held(T) => root[e] = e
      BY <3>1, RootIsHeld
    <3> QED
      BY <1>2, <1>7, <3>2 DEF R!Over, w
  <2>5. hung[e] = w /\ hung[w] = w
    <3>1. T = of[e]
      BY <2>3, <2>4, RehungFacts DEF R!Over
    <3> QED
      BY <1>4, <1>5, <2>2, <2>3, <3>1
  <2> QED
    BY ZenonT(40), <1>1, <2>5, FindNext DEF hung, w
<1> QED
  BY <1>6, <1>7

-----------------------------------------------------------------------------
(* The inductive invariant of entity resolution. *)

(* A pair with a new entity that the merges of now were made from is under    *)
(* one root, unless it was refused, or a run was cut short.                   *)
Merged ==
    merged # <<>> => \A p \in merged[2] \cup merged[3] :
        /\ p \subseteq rows
        /\ p \cap fresh # {} => \/ p \in merged[1]
                                \/ \E r \in EntityIds : \A e \in p : root[e] = r
                                \/ ~R!Settled

Resolved == R!TypeOK /\ Flat /\ Merged

LEMMA MergeFacts ==
    ASSUME R!TypeOK
    PROVE  \E state : /\ Looped(state) /\ state.left = {}
                      /\ R!Merge.root = [e \in entities |-> R!Find(R!Rehang(state), e)]
                      /\ R!Merge.refused = state.refused
<1> DEFINE state == R!Unions[R!Cardinality(R!Mergeable)]
<1>1. Looped(state) /\ state.left = {}
  BY UnionsLooped
<1>2. R!Merge = [root |-> [e \in entities |-> R!Find(R!Rehang(state), e)], refused |-> state.refused]
  BY DEF R!Merge
<1> HIDE DEF state
<1>3. /\ R!Merge.root = [e \in entities |-> R!Find(R!Rehang(state), e)]
      /\ R!Merge.refused = state.refused
  BY <1>2
<1> QED
  BY <1>1, <1>3

LEMMA MergeKeeps ==
    ASSUME Resolved, R!MergeAll
    PROVE  /\ Resolved' /\ (R!Settled => R!RootsStand) /\ R!RootsAreRoots /\ (R!Settled => R!PairsAreMerged)
           /\ merged' # merged => R!DifferentStayApart
<1>1. PICK state : /\ Looped(state) /\ state.left = {}
                   /\ R!Merge.root = [e \in entities |-> R!Find(R!Rehang(state), e)]
                   /\ R!Merge.refused = state.refused
  BY MergeFacts DEF Resolved
<1> DEFINE hung == R!Rehang(state)
           find == [e \in entities |-> R!Find(hung, e)]
           skip == merged = R!MergeHash
<1>2. /\ root' = IF skip THEN root ELSE [e \in EntityIds |-> IF e \in entities THEN find[e] ELSE e]
      /\ merged' = R!MergeHash /\ at' = "name"
      /\ UNCHANGED <<rows, entities, fresh, said, name, named, broken, moves, breaks>>
  BY <1>1 DEF R!MergeAll
<1>3. /\ merged' = <<state.refused, R!Accepted("surely") \cup R!Accepted("likely"), R!Identical>>
      /\ merged'[1] = state.refused /\ merged'[2] \cup merged'[3] = R!Mergeable
      /\ merged' # <<>>
  <2>1. merged' = <<state.refused, R!Accepted("surely") \cup R!Accepted("likely"), R!Identical>>
    BY <1>1, <1>2 DEF R!MergeHash
  <2>2. merged' # <<>>
    BY ONLY <2>1
  <2> QED
    BY <2>1, <2>2 DEF R!Mergeable
<1>4. /\ R!TypeOK /\ Flat /\ Merged /\ entities \subseteq EntityIds /\ entities \subseteq rows
      /\ root \in [EntityIds -> EntityIds]
  BY DEF Resolved, R!TypeOK
<1>5. \A e \in entities : /\ find[e] \in entities /\ hung[find[e]] = find[e]
                          /\ find[e] = R!Find(hung, e) /\ find[find[e]] = find[e]
  <2>1. hung \in [entities -> entities] /\ Rooted(hung)
    BY <1>1, <1>4, HungTyped, HungRooted
  <2> HIDE DEF hung
  <2>2. \A e \in entities : R!Find(hung, e) \in entities /\ hung[R!Find(hung, e)] = R!Find(hung, e)
    BY <2>1, FindFacts
  <2>3. \A e \in entities : R!Find(hung, R!Find(hung, e)) = R!Find(hung, e)
    BY <2>1, <2>2, FindNext
  <2> QED
    BY <2>2, <2>3
<1> HIDE DEF find, skip
<1>6. R!TypeOK'
  <2>1. root' \in [EntityIds -> EntityIds]
    BY <1>2, <1>4, <1>5
  <2>2. left' \subseteq EntityIds \X SUBSET EntityIds
    <3>1. left' = {c \in {<<r, {e \in entities : R!Merge.root[e] = r}>> : r \in entities} : R!Cardinality(c[2]) > 1}
      BY DEF R!MergeAll
    <3> QED
      BY <1>4, <3>1
  <2> QED
    BY <1>2, <1>4, <2>1, <2>2 DEF R!TypeOK
<1>7. Flat'
  <2>1. CASE skip
    BY <1>2, <1>4, <2>1 DEF Flat
  <2>2. CASE ~skip
    <3>1. \A e \in EntityIds : root'[e] = IF e \in entities THEN find[e] ELSE e
      BY <1>2, <2>2
    <3>2. \A e \in EntityIds : root'[root'[e]] = root'[e]
      BY <1>4, <1>5, <3>1
    <3> QED
      BY <3>2 DEF Flat
  <2> QED
    BY <2>1, <2>2
(* A pair that is not refused is in one cluster; written, it is under one     *)
(* root, or the root of a covered entity is new and stays.                    *)
<1>8. ASSUME NEW p \in R!Mergeable, p \notin state.refused
      PROVE  \E x \in entities : p \subseteq state.of[x]
  BY <1>1, <1>8 DEF Looped
<1>9. ASSUME ~skip, NEW p \in R!Mergeable, p \notin state.refused
      PROVE  \/ \E r \in EntityIds : \A e \in p : root'[e] = r
             \/ \E f \in entities \ fresh : root[f] \in fresh /\ root'[f] = root[f]
  <2>1. PICK x \in entities : p \subseteq state.of[x]
    BY <1>8, <1>9
  <2>2. \A e \in entities : root'[e] = R!Find(hung, e)
    BY <1>2, <1>4, <1>5, <1>9
  <2>3. CASE \A e \in state.of[x] : R!Find(hung, e) = R!Find(hung, x)
    <3>1. p \subseteq entities /\ root'[x] \in EntityIds
      BY <1>4, <1>5, <2>2, MergeableFacts
    <3> QED
      BY <2>1, <2>2, <2>3, <3>1
  <2>4. CASE \E f \in entities \ fresh : root[f] \in fresh /\ R!Find(hung, f) = root[f]
    BY <2>2, <2>4
  <2> QED
    BY <1>1, <1>4, <2>3, <2>4, OneRootOrTaken
<1>10. Merged'
  <2> SUFFICES ASSUME NEW p \in R!Mergeable
               PROVE  /\ p \subseteq rows
                      /\ p \cap fresh # {} => \/ p \in state.refused
                                              \/ \E r \in EntityIds : \A e \in p : root'[e] = r
                                              \/ ~R!Settled'
    BY <1>2, <1>3 DEF Merged
  <2>1. p \subseteq rows
    BY <1>4, MergeableFacts
  <2>2. CASE skip
    <3>1. merged = merged' /\ merged # <<>> /\ root' = root
      BY <1>2, <1>3, <2>2 DEF skip
    <3>2. R!Settled' = R!Settled
      BY <1>2, <3>1 DEF R!Settled
    <3> QED
      BY <1>3, <1>4, <2>1, <3>1, <3>2 DEF Merged
  <2>3. CASE ~skip
    <3>1. (\E f \in entities \ fresh : root[f] \in fresh /\ root'[f] = root[f]) => ~R!Settled'
      BY <1>2, <1>4 DEF R!Settled
    <3> QED
      BY <1>9, <2>1, <2>3, <3>1
  <2> QED
    BY <2>2, <2>3
<1>11. R!Settled => R!RootsStand
  <2> SUFFICES ASSUME R!Settled, NEW e \in entities \ fresh, NEW f \in entities \ fresh,
                      {root[e], root[f]} \subseteq entities \ fresh
               PROVE  root'[e] = root[e] /\ root'[f] = root[f]
    BY <1>2 DEF R!RootsStand
  <2>1. CASE skip
    BY <1>2, <2>1
  <2>2. CASE ~skip
    <3>1. R!Find(hung, e) = root[e] /\ R!Find(hung, f) = root[f]
      BY <1>1, <1>4, RootStands
    <3> QED
      BY <1>2, <1>4, <1>5, <2>2, <3>1
  <2> QED
    BY <2>1, <2>2
<1>12. R!RootsAreRoots
  <2>1. \A e \in entities : root'[root'[e]] = root'[e]
    BY <1>2, <1>4, <1>7 DEF Flat
  <2>2. ASSUME merged' # merged, NEW e \in entities PROVE root'[e] \in entities
    BY <1>2, <1>4, <1>5, <2>2 DEF skip
  <2> QED
    BY <2>1, <2>2 DEF R!RootsAreRoots
<1>13. R!Settled => R!PairsAreMerged
  <2> SUFFICES ASSUME R!Settled, NEW p \in R!Mergeable, p \notin state.refused
               PROVE  \E r \in EntityIds : \A e \in p : root'[e] = r
    BY <1>3 DEF R!PairsAreMerged
  <2>1. CASE ~skip
    BY <1>4, <1>9, <2>1 DEF R!Settled
  <2>2. CASE skip /\ p \cap fresh # {}
    <3>1. merged = merged' /\ merged # <<>> /\ root' = root
      BY <1>2, <1>3, <2>2 DEF skip
    <3> QED
      BY <1>3, <1>4, <2>2, <3>1 DEF Merged
  <2>3. CASE skip /\ p \cap fresh = {}
    <3>1. PICK x \in entities : p \subseteq state.of[x]
      BY <1>8
    <3>2. p \subseteq entities /\ \A e \in p : root[e] \in R!Held(state.of[x]) /\ root[e] \in EntityIds
      BY <1>4, <2>3, <3>1, MergeableFacts DEF R!Held
    <3>3. \A e, f \in p : root[e] = root[f]
      BY <1>1, <3>2 DEF Looped
    <3>4. PICK e \in p : TRUE
      BY PairOfTwo, MergeableFacts
    <3> QED
      BY <1>2, <2>3, <3>2, <3>3, <3>4
  <2> QED
    BY <2>1, <2>2, <2>3
(* Two that differ are of different clusters, and so have different firsts.   *)
<1>14. ASSUME ~skip
       PROVE  R!DifferentStayApart
  <2> SUFFICES ASSUME NEW p \in R!Pairs, p \subseteq entities, said[p] = "different",
                      NEW e \in p, NEW f \in p, e # f, root'[e] = root'[f], root'[e] \notin R!Standing
               PROVE  FALSE
    BY DEF R!DifferentStayApart
  <2>1. /\ root'[e] = R!Find(hung, e) /\ root'[f] = R!Find(hung, f)
        /\ e \in entities /\ f \in entities /\ p = {e, f}
    BY <1>2, <1>4, <1>5, <1>14, PairOfTwo
  <2>2. R!Min(state.of[e]) = R!Min(state.of[f])
    <3>1. R!Find(hung, e) \in {R!Min(state.of[e])} \cup R!Standing
      BY <1>1, <1>4, <2>1, FirstOrStanding
    <3>2. R!Find(hung, f) \in {R!Min(state.of[f])} \cup R!Standing
      BY <1>1, <1>4, <2>1, FirstOrStanding
    <3> QED
      BY <2>1, <3>1, <3>2
  <2>3. Partition(state.of) /\ Forest(state.of, state.parent) /\ entities \subseteq Nat
    BY <1>1, <1>4, EntityFacts DEF Looped
  <2>4. state.of[e] = state.of[f]
    BY <2>1, <2>2, <2>3, RootOf
  <2>5. p \subseteq state.of[e]
    BY <2>1, <2>3, <2>4 DEF Partition
  <2> QED
    BY <1>1, <2>1, <2>5 DEF Looped, Agrees
<1>15. merged' # merged => ~skip
  BY <1>2 DEF skip
<1> QED
  BY <1>6, <1>7, <1>10, <1>11, <1>12, <1>13, <1>14, <1>15 DEF Resolved

(* The steps that are not the merges leave the roots as they are.             *)
LEMMA RootsKept ==
    ASSUME R!TypeOK, [R!Next]_(R!vars), ~R!MergeAll
    PROVE  root' = root /\ merged' = merged /\ ~(at = "align" /\ at' = "name")
<1>1. CASE UNCHANGED R!vars
  BY <1>1 DEF R!vars
<1>2. CASE R!Next
  BY <1>2 DEF R!Next, R!Come, R!Go, R!Start, R!Align, R!FailAlign, R!NameCluster, R!FailName, R!Finish, R!Kill
<1> QED
  BY <1>1, <1>2

LEMMA EntityTypesKept ==
    ASSUME R!TypeOK, [R!Next]_(R!vars), ~R!MergeAll
    PROVE  R!TypeOK'
<1>1. CASE UNCHANGED R!vars
  BY <1>1 DEF R!vars, R!TypeOK
<1>2. ASSUME NEW e \in EntityIds, R!Come(e) \/ R!Go(e) PROVE R!TypeOK'
  <2>1. moves' \in 0..MaxMoves
    BY <1>2, EntityFacts DEF R!Come, R!Go, R!TypeOK
  <2>2. rows' \subseteq EntityIds /\ entities' \subseteq rows' /\ fresh' \subseteq rows'
    BY <1>2 DEF R!Come, R!Go, R!TypeOK
  <2>3. UNCHANGED <<said, root, name, named, at, left, broken, breaks>>
    BY <1>2 DEF R!Come, R!Go
  <2> QED
    BY <2>1, <2>2, <2>3 DEF R!TypeOK
<1>3. CASE R!Start
  BY <1>3, EntityFacts DEF R!Start, R!TypeOK, R!Undecided, R!Candidates
<1>4. ASSUME NEW p \in R!Pairs, R!Align(p) PROVE R!TypeOK'
  <2>1. PICK answer \in R!Said : said' = [said EXCEPT ![p] = answer]
    BY <1>4 DEF R!Align
  <2> QED
    BY <1>4, <2>1 DEF R!Align, R!TypeOK
<1>5. ASSUME NEW p \in R!Pairs, R!FailAlign(p) PROVE R!TypeOK'
  BY <1>5, EntityFacts DEF R!FailAlign, R!TypeOK
<1>6. ASSUME NEW c \in left, R!NameCluster(c) PROVE R!TypeOK'
  <2>1. c[1] \in EntityIds /\ c[2] \in SUBSET EntityIds /\ left \subseteq EntityIds \X SUBSET EntityIds
    BY <1>6 DEF R!NameCluster, R!TypeOK
  <2>2. R!Names(c[1], c[2]) \subseteq R!Forms
    BY <2>1 DEF R!Names, R!Forms, R!TypeOK
  <2>3. name' \in [EntityIds -> R!Forms] /\ named' \in [EntityIds -> SUBSET EntityIds]
    <3>1. CASE named[c[1]] = c[2]
      BY <1>6, <3>1 DEF R!NameCluster, R!TypeOK
    <3>2. CASE named[c[1]] # c[2]
      <4>1. PICK n \in R!Names(c[1], c[2]) : name' = [name EXCEPT ![c[1]] = n]
        BY <1>6, <3>2 DEF R!NameCluster
      <4>2. named' = [named EXCEPT ![c[1]] = c[2]]
        BY <1>6, <3>2 DEF R!NameCluster
      <4> QED
        BY <2>1, <2>2, <4>1, <4>2 DEF R!TypeOK
    <3> QED
      BY <3>1, <3>2
  <2> QED
    BY <1>6, <2>1, <2>3 DEF R!NameCluster, R!TypeOK
<1>7. ASSUME NEW c \in left, R!FailName(c) PROVE R!TypeOK'
  BY <1>7, EntityFacts DEF R!FailName, R!TypeOK
<1>8. CASE R!Finish
  BY <1>8 DEF R!Finish, R!TypeOK
<1>9. CASE R!Kill
  <2>1. breaks' \in 0..MaxBreaks
    BY <1>9, EntityFacts DEF R!Kill, R!TypeOK
  <2>2. /\ at' = "idle" /\ left' = {} /\ broken' = FALSE
        /\ UNCHANGED <<rows, entities, fresh, said, root, name, named, moves>>
    BY <1>9 DEF R!Kill
  <2> QED
    BY <2>1, <2>2 DEF R!TypeOK
<1> QED
  BY <1>1, <1>2, <1>3, <1>4, <1>5, <1>6, <1>7, <1>8, <1>9 DEF R!Next

LEMMA MergedKept ==
    ASSUME R!TypeOK, Merged, [R!Next]_(R!vars), ~R!MergeAll
    PROVE  Merged'
<1>1. root' = root /\ merged' = merged /\ fresh \subseteq rows
  BY RootsKept DEF R!TypeOK
<1>2. CASE rows' = rows /\ fresh' = fresh
  BY <1>1, <1>2 DEF Merged, R!Settled
<1>3. ASSUME NEW e \in EntityIds, R!Come(e) PROVE Merged'
  <2>1. /\ rows \subseteq rows' /\ fresh \subseteq fresh' /\ rows' \ fresh' = rows \ fresh
        /\ fresh' \cap rows = fresh
    BY <1>1, <1>3 DEF R!Come
  <2>2. ~R!Settled => ~R!Settled'
    BY <1>1, <2>1 DEF R!Settled
  <2> SUFFICES ASSUME merged # <<>>, NEW p \in merged[2] \cup merged[3]
               PROVE  /\ p \subseteq rows'
                      /\ p \cap fresh' # {} => \/ p \in merged[1]
                                               \/ \E r \in EntityIds : \A f \in p : root[f] = r
                                               \/ ~R!Settled'
    BY <1>1 DEF Merged
  <2>3. p \subseteq rows /\ (p \cap fresh' # {} => p \cap fresh # {})
    BY <2>1 DEF Merged
  <2> QED
    BY <2>1, <2>2, <2>3 DEF Merged
<1>4. CASE rows' = rows /\ fresh' = {}
  BY <1>1, <1>4 DEF Merged
<1>5. \/ rows' = rows /\ fresh' = fresh
      \/ \E e \in EntityIds : R!Come(e)
      \/ rows' = rows /\ fresh' = {}
  <2>1. CASE UNCHANGED R!vars
    BY <2>1 DEF R!vars
  <2>2. CASE R!Next
    BY <2>2 DEF R!Next, R!Go, R!Start, R!Align, R!FailAlign, R!NameCluster, R!FailName, R!Finish, R!Kill
  <2> QED
    BY <2>1, <2>2
<1> QED
  BY <1>2, <1>3, <1>4, <1>5

(* Naming changes the names of new roots only.                                *)
LEMMA NamesKept ==
    ASSUME R!TypeOK, [R!Next]_(R!vars)
    PROVE  R!NamesStand
<1>1. CASE name' = name
  BY <1>1 DEF R!NamesStand
<1>2. ASSUME NEW c \in left, R!NameCluster(c) PROVE R!NamesStand
  <2>1. CASE named[c[1]] = c[2]
    BY <1>2, <1>1, <2>1 DEF R!NameCluster
  <2>2. CASE named[c[1]] # c[2]
    <3>1. PICK n \in R!Names(c[1], c[2]) : name' = [name EXCEPT ![c[1]] = n]
      BY <1>2, <2>2 DEF R!NameCluster
    <3>2. c[1] \notin fresh => n = name[c[1]]
      BY <3>1 DEF R!Names
    <3>3. name \in [EntityIds -> R!Forms] /\ entities \subseteq EntityIds
      BY DEF R!TypeOK
    <3> QED
      BY <3>1, <3>2, <3>3 DEF R!NamesStand
  <2> QED
    BY <2>1, <2>2
<1>3. name' = name \/ \E c \in left : R!NameCluster(c)
  <2>1. CASE UNCHANGED R!vars
    BY <2>1 DEF R!vars
  <2>2. CASE R!Next
    BY <2>2 DEF R!Next, R!Come, R!Go, R!Start, R!Align, R!FailAlign, R!MergeAll, R!FailName, R!Finish, R!Kill
  <2> QED
    BY <2>1, <2>2
<1> QED
  BY <1>1, <1>2, <1>3

LEMMA ResolvedKept ==
    ASSUME Resolved, [R!Next]_(R!vars)
    PROVE  /\ Resolved' /\ (R!Settled => R!RootsStand) /\ R!NamesStand
           /\ at = "align" /\ at' = "name" => R!RootsAreRoots /\ (R!Settled => R!PairsAreMerged)
           /\ at = "align" /\ merged' # merged => R!DifferentStayApart
<1>1. R!NamesStand
  BY NamesKept DEF Resolved
<1>2. CASE R!MergeAll
  BY <1>1, <1>2, MergeKeeps
<1>3. CASE ~R!MergeAll
  <2>1. root' = root /\ merged' = merged /\ ~(at = "align" /\ at' = "name")
    BY <1>3, RootsKept DEF Resolved
  <2>2. R!TypeOK' /\ Merged'
    BY <1>3, EntityTypesKept, MergedKept DEF Resolved
  <2>3. Flat' /\ R!RootsStand
    BY <2>1 DEF Flat, R!RootsStand, Resolved
  <2> QED
    BY <1>1, <2>1, <2>2, <2>3 DEF Resolved
<1> QED
  BY <1>2, <1>3

LEMMA InitResolved == R!Init => Resolved
<1> SUFFICES ASSUME R!Init PROVE Resolved
  OBVIOUS
<1>1. root = [e \in EntityIds |-> e] /\ merged = <<>>
  BY DEF R!Init, R!Unmerged
<1>2. name \in [EntityIds -> R!Forms]
  BY EntityFacts DEF R!Init, R!Forms
<1>3. R!TypeOK
  <2>1. moves = 0 /\ 0 \in 0..MaxMoves /\ breaks = 0 /\ 0 \in 0..MaxBreaks
    BY EntityFacts DEF R!Init
  <2>2. said \in [R!Pairs -> R!Said] /\ named \in [EntityIds -> SUBSET EntityIds]
    BY DEF R!Init, R!Said
  <2>3. rows = {} /\ entities = {} /\ fresh = {} /\ at = "idle" /\ left = {} /\ broken = FALSE
    BY DEF R!Init
  <2> QED
    BY <1>1, <1>2, <2>1, <2>2, <2>3 DEF R!TypeOK
<1>4. Flat /\ Merged
  BY <1>1 DEF Flat, Merged
<1> QED
  BY <1>3, <1>4 DEF Resolved

LEMMA StagesResolve ==
    /\ InitStages => R!Init
    /\ [Link \/ ResolveEntities]_stageVars => [R!Next]_(R!vars)
<1>1. InitStages => R!Init
  BY DEF InitStages
<1>2. [Link \/ ResolveEntities]_stageVars => [R!Next]_(R!vars)
  BY DEF Link, ResolveEntities, stageVars, entityVars, R!vars
<1> QED
  BY <1>1, <1>2

THEOREM EntitiesResolved == StagesSpec => []Resolved
<1>1. Resolved /\ [R!Next]_(R!vars) => Resolved'
  BY ResolvedKept
<1> QED
  BY <1>1, InitResolved, StagesResolve, PTL DEF StagesSpec

(* Whatever entities come and go, whatever Jev says and wherever runs are cut *)
(* short: covered entities stay under the root they are under, clusters are   *)
(* not joined, and an existing root keeps its name (s5_entities.py finalize,  *)
(* unionfind.py merge).                                                       *)
THEOREM StandingClusters == StagesSpec => ClustersStand
<1>1. Resolved /\ [Link \/ ResolveEntities]_stageVars => [(R!Settled => R!RootsStand) /\ R!NamesStand]_(R!vars)
  BY ResolvedKept, StagesResolve
<1> QED
  BY <1>1, EntitiesResolved, PTL DEF StagesSpec, ClustersStand, R!ClustersStand

(* After the merges of a run, written or skipped, no root is under another,   *)
(* and pairs found to be one entity are under one root unless refused; and a  *)
(* cluster that is new when they are written has no two of which Jev said     *)
(* that they differ (s5_entities.py finalize, unionfind.py merge and find).   *)
THEOREM CompleteMerges == StagesSpec => MergesAreComplete
<1>1. Resolved /\ [Link \/ ResolveEntities]_stageVars =>
          [/\ R!TypeOK'
           /\ at = "align" /\ at' = "name" => R!RootsAreRoots /\ (R!Settled => R!PairsAreMerged)
           /\ at = "align" /\ merged' # merged => R!DifferentStayApart]_(R!vars)
  BY ResolvedKept, StagesResolve DEF Resolved
<1> QED
  BY <1>1, EntitiesResolved, PTL DEF StagesSpec, MergesAreComplete, R!MergesAreComplete

=============================================================================
