--------------------------- MODULE TrainingProofs ---------------------------
(***************************************************************************)
(* Theorems about Training for any documents, chunks, facts and edges, any *)
(* templates, and any number of runs, edits, faults and verdicts.          *)
(***************************************************************************)
EXTENDS Training, FiniteSetTheorems, WellFoundedInduction, TLAPS

-----------------------------------------------------------------------------
(* Types. *)

Example == [status : Statuses, split : SplitNames \cup {None, CrossSplit}, chunks : SUBSET Chunks]
Templates == Generated \cup Derived

(* The source keys of a template. *)
KeyOf(t, k) ==
    /\ t \in {"qa", "fact"} => k[1] \in Chunks
    /\ t = "hop" => Range(k) \subseteq Chunks
    /\ t \in {"graph", "triple"} => k[1] \in DOMAIN Links
    /\ t \in Derived => k \in DOMAIN ex

(* The items left are of the sources enumerated. *)
Typed ==
    /\ TypeOK
    /\ by \in Policies /\ menu \in Menus
    /\ \A id \in DOMAIN ex : ex[id] \in Example
    /\ DOMAIN current \subseteq Templates
    /\ \A t \in DOMAIN current : \A k \in current[t] : KeyOf(t, k)
    /\ step = "work" => \A i \in todo : \E t \in DOMAIN current : \E k \in current[t] : i = <<t, k>>

(* Of a source there is one example, of those no reviewer took back. *)
One ==
    \A a, b \in DOMAIN ex \ revived :
        (a[1] = b[1] /\ a[2] = b[2] /\ "superseded" \notin {ex[a].status, ex[b].status}) => a = b

(* What is accepted has the split of its chunks, if it has one. *)
splitFor == [cs \in SUBSET Chunks |-> SplitFor(cs)]
Assigned ==
    fresh => \A id \in DOMAIN ex \ stale :
        (ex[id].status = "accepted" /\ ex[id].split # None) => ex[id].split = splitFor[ex[id].chunks]

(* A run that nobody interfered with: what its first stage retired stays so,  *)
(* its second stage works on the questions accepted by then, and leaves no    *)
(* derived example of any other.                                              *)
Retired ==
    \A id \in DOMAIN ex : id[1] \in menu \cap Generated /\ id[2] \notin current[id[1]] => ex[id].status = "superseded"
Working ==
    /\ stage \in {"training", "training_derived"}
    /\ stage = "training" => DOMAIN current = menu \cap Generated
    /\ stage = "training" /\ step # "work" => Retired
    /\ step = "next" => stage = "training"
    /\ stage = "training_derived" =>
           /\ DOMAIN current = menu /\ Retired
           /\ \A t \in menu \cap Derived : current[t] = Having("qa", "accepted")
           /\ step = "work" => \A i \in todo : i[1] \in Derived
           /\ step = "finalize" =>
                  /\ todo = {}
                  /\ \A id \in DOMAIN ex : id[1] \in menu \cap Derived /\ ex[id].status = "accepted" => id[2] \in current[id[1]]
Follows ==
    /\ settled \in {"no", "running", "yes"}
    /\ settled = "running" => step # "idle" /\ Working
    /\ settled = "yes" => step = "idle" /\ DerivedFollowsSource

-----------------------------------------------------------------------------
(* Components and splits. *)

(* Documents that contain all of every edge they touch. *)
Closed(D) == \A e \in edges : LET ds == {docOf[c] : c \in Ends(e)} IN ds \cap D # {} => ds \subseteq D

LEMMA ComponentIs ==
    ASSUME NEW d
    PROVE  \A x : x \in Component(d) <=> x \in Docs /\ \A D \in SUBSET Docs : d \in D /\ Closed(D) => x \in D
BY DEF Component, Closed

LEMMA EdgeDocs ==
    ASSUME Typed
    PROVE  \A e \in edges : {docOf[c] : c \in Ends(e)} \subseteq Docs
<1>1. \A e \in edges : Ends(e) \subseteq Chunks
    BY TrainingAssumption DEF Typed, TypeOK, Ends
<1> QED BY <1>1 DEF Typed, TypeOK

(* What is joined to d has the component of d. *)
LEMMA ComponentShared ==
    ASSUME Typed, NEW d \in Docs, NEW x \in Component(d)
    PROVE  Component(x) = Component(d)
<1>1. x \in Docs
    BY ComponentIs
<1>2. ASSUME NEW D \in SUBSET Docs, Closed(D) PROVE Closed(Docs \ D)
    BY <1>2, EdgeDocs DEF Closed
<1>3. \A D \in SUBSET Docs : Closed(D) => (d \in D <=> x \in D)
    <2> SUFFICES ASSUME NEW D \in SUBSET Docs, Closed(D) PROVE d \in D <=> x \in D
        OBVIOUS
    <2>1. d \in D => x \in D
        BY ComponentIs
    <2>2. d \in Docs \ D => x \in Docs \ D
        BY <1>2, ComponentIs
    <2> QED BY <1>1, <2>1, <2>2
<1>4. \A y : y \in Component(x) <=> y \in Component(d)
    BY <1>3, ComponentIs
<1> QED BY <1>4

LEMMA LeastDoc ==
    ASSUME NEW D \in SUBSET Docs, D # {}
    PROVE  Min(D) \in D
<1>1. D \subseteq Nat
    BY TrainingAssumption
<1>2. \E i \in D : \A j \in D : ~(<<j, i>> \in OpToRel(<, Nat))
    BY <1>1, NatLessThanWellFounded, WFMin
<1>3. \A i, j \in Nat : <<j, i>> \notin OpToRel(<, Nat) => i <= j
    BY DEF OpToRel
<1>4. \E i \in D : \A j \in D : i <= j
    BY <1>1, <1>2, <1>3
<1> QED BY <1>4 DEF Min

LEMMA KeyIsDoc ==
    ASSUME Typed, NEW c \in Chunks
    PROVE  SplitKey(c) \in Docs
<1>1. docOf[c] \in Docs
    BY DEF Typed, TypeOK
<1>2. docOf[c] \in Component(docOf[c]) /\ Component(docOf[c]) \in SUBSET Docs
    BY <1>1, ComponentIs DEF Component
<1>3. Min(Component(docOf[c])) \in Docs
    BY <1>2, LeastDoc
<1> QED BY <1>1, <1>3 DEF SplitKey

LEMMA SplitsAre ==
    ASSUME Typed, NEW cs \in SUBSET Chunks
    PROVE  SplitsOf(cs) \subseteq SplitNames
<1>1. \A d \in Docs : SplitOf[d] \in SplitNames
    BY TrainingAssumption DEF SplitNames, Range
<1> QED BY <1>1, KeyIsDoc DEF SplitsOf

LEMMA SplitIs ==
    ASSUME Typed, NEW cs \in SUBSET Chunks
    PROVE  SplitFor(cs) \in SplitNames \cup {CrossSplit}
<1>1. CASE Cardinality(SplitsOf(cs)) = 1
    <2>1. SplitsOf(cs) # {}
        BY <1>1, FS_EmptySet
    <2> QED BY <1>1, <2>1, SplitsAre DEF SplitFor
<1> QED BY <1>1 DEF SplitFor

(* A split that has a name is that of every chunk. *)
LEMMA SplitOfEach ==
    ASSUME Typed, NEW cs \in SUBSET Chunks, NEW c \in cs, SplitFor(cs) # CrossSplit
    PROVE  SplitOf[SplitKey(c)] = SplitFor(cs)
<1>1. Cardinality(SplitsOf(cs)) = 1
    BY DEF SplitFor
<1>2. IsFiniteSet(SplitNames)
    <2>1. SplitOf \in Surjection(Docs, SplitNames)
        BY TrainingAssumption DEF SplitNames, Range, Surjection
    <2> QED BY <2>1, FS_Surjection, TrainingAssumption
<1>3. IsFiniteSet(SplitsOf(cs))
    BY <1>2, SplitsAre, FS_Subset
<1>4. PICK x : SplitsOf(cs) = {x}
    BY <1>1, <1>3, FS_Singleton
<1>5. SplitOf[SplitKey(c)] \in SplitsOf(cs)
    BY DEF SplitsOf
<1> QED BY <1>1, <1>4, <1>5 DEF SplitFor

-----------------------------------------------------------------------------
(* Sources, and what is made of them. *)

LEMMA KeysOfSources ==
    ASSUME Typed, NEW t \in Templates, NEW k \in Sources(t)
    PROVE  KeyOf(t, k)
<1>1. live \subseteq Chunks /\ edges \subseteq DOMAIN Links
    BY DEF Typed, TypeOK
<1>2. CASE t = "qa"
    <2>1. k \in Coverage
        BY <1>2 DEF Derived, Sources
    <2>2. CASE \E c \in live : k \in {<<c, f>> : f \in Facts(c)}
        BY <1>1, <1>2, <2>2 DEF KeyOf, Derived
    <2>3. CASE k \in {<<c>> : c \in {x \in live \cap Long : FactsOf[x] = {}}}
        BY <1>1, <1>2, <2>3 DEF KeyOf, Derived
    <2>4. k \in UNION {{<<c, f>> : f \in Facts(c)} : c \in live} \/ k \in {<<c>> : c \in {x \in live \cap Long : FactsOf[x] = {}}}
        BY <2>1 DEF Coverage
    <2>5. ASSUME k \in UNION {{<<c, f>> : f \in Facts(c)} : c \in live}
          PROVE  \E c \in live : k \in {<<c, f>> : f \in Facts(c)}
        BY <2>5
    <2> QED BY <2>2, <2>3, <2>4, <2>5
<1>3. CASE t = "fact"
    <2>1. k[1] \in live
        BY <1>3 DEF Derived, Sources
    <2> QED BY <1>1, <1>3, <2>1 DEF KeyOf, Derived
<1>4. CASE t = "hop"
    <2>1. k \in AllPaths
        BY <1>4 DEF Derived, Sources, Paths
    <2>2. Range(k) \subseteq live
        BY <2>1 DEF AllPaths, Range
    <2> QED BY <1>1, <1>4, <2>2 DEF KeyOf, Derived
<1>5. CASE t \in {"graph", "triple"}
    <2>1. k \in {<<e>> : e \in Stratified(Quota)} \cup {<<e>> : e \in edges}
        BY <1>5 DEF Derived, Sources
    <2>2. Stratified(Quota) \subseteq edges
        BY DEF Stratified
    <2>3. k[1] \in edges
        BY <2>1, <2>2
    <2> QED BY <1>1, <1>5, <2>3 DEF KeyOf, Derived
<1>6. CASE t \in Derived
    <2>1. k \in Having("qa", "accepted")
        BY <1>6 DEF Sources, Derived
    <2> QED BY <1>6, <2>1 DEF KeyOf, Having, Derived
<1> QED BY <1>2, <1>3, <1>4, <1>5, <1>6 DEF Templates, Generated

LEMMA Verdicts ==
    /\ \A outs : Combine(outs) \in Statuses
    /\ \A status \in Statuses : \A last : Ruled(status, last) \in Statuses
BY DEF Combine, Ruled, Statuses

LEMMA Generated1 ==
    ASSUME NEW judged, NEW cs, NEW r \in Generate(judged, cs)
    PROVE  r.status \in Statuses /\ r.chunks = cs
<1>1. PICK v \in 0 .. version, a \in Authored, j \in judged :
          r = [payload |-> v, status |-> Ruled(Combine(j), Last(a)), chunks |-> cs, reviews |-> Reviews(Combine(j), Last(a))]
    BY DEF Generate
<1> QED BY <1>1, Verdicts

LEMMA EndsAreChunks == \A e \in DOMAIN Links : Ends(e) \subseteq Chunks
BY TrainingAssumption DEF Ends

LEMMA ResultsAre ==
    ASSUME Typed, NEW t \in Templates, NEW k, KeyOf(t, k), NEW r \in Results(t, k)
    PROVE  r.status \in Statuses /\ r.chunks \in SUBSET Chunks
<1>1. live \subseteq Chunks /\ {"accepted", "rejected"} \subseteq Statuses
    BY DEF Typed, TypeOK, Statuses
<1>2. CASE t = "qa"
    <2>1. r \in Generate(Single, {k[1]}) /\ k[1] \in Chunks
        BY <1>2 DEF Results, KeyOf
    <2> QED BY <2>1, Generated1
<1>3. CASE t = "hop"
    <2>1. r \in Generate(Multihop, Range(k)) /\ Range(k) \subseteq Chunks
        BY <1>3 DEF Results, KeyOf
    <2> QED BY <2>1, Generated1
<1>4. CASE t = "graph"
    <2>1. r \in Generate(GraphReasoning, Ends(k[1])) /\ k[1] \in DOMAIN Links
        BY <1>4 DEF Results, KeyOf
    <2> QED BY <2>1, Generated1, EndsAreChunks
<1>5. CASE t = "triple"
    <2>1. r = Given(0, "accepted", Ends(k[1])) /\ k[1] \in DOMAIN Links
        BY <1>5 DEF Results, KeyOf
    <2> QED BY <1>1, <2>1, EndsAreChunks DEF Given
<1>6. CASE t = "fact"
    <2>1. r = Given(0, "accepted", {k[1]}) /\ k[1] \in Chunks
        BY <1>6 DEF Results, KeyOf
    <2> QED BY <1>1, <2>1 DEF Given
<1>7. CASE t = "pair"
    <2>1. r \in RetrievalPair(k) /\ k \in DOMAIN ex
        BY <1>7 DEF Results, KeyOf, Derived
    <2>2. PICK neg \in SUBSET live :
              r = Given(neg, IF neg = {} THEN "rejected" ELSE "accepted", ex[k].chunks \cup neg)
        <3>1. SameSplit(ex[k].chunks) \ ex[k].chunks \subseteq live
            BY DEF SameSplit
        <3> QED BY <2>1, <3>1 DEF RetrievalPair
    <2>3. ex[k].chunks \subseteq Chunks
        BY <2>1 DEF Typed, Example
    <2> QED BY <1>1, <2>2, <2>3 DEF Given
<1>8. CASE t = "rerank"
    <2>1. r = Given(live, IF live = {} THEN "rejected" ELSE "accepted", live)
        BY <1>8 DEF Results, Rerank
    <2> QED BY <1>1, <2>1 DEF Given
<1> QED BY <1>2, <1>3, <1>4, <1>5, <1>6, <1>7, <1>8 DEF Templates, Generated, Derived

(* What a change of status does to the examples. *)
LEMMA StatusSet ==
    ASSUME Typed, NEW ids, NEW status \in Statuses
    PROVE  /\ DOMAIN WithStatus(ids, status) = DOMAIN ex
           /\ \A id \in DOMAIN ex :
                 /\ WithStatus(ids, status)[id] \in Example
                 /\ WithStatus(ids, status)[id].status = IF id \in ids THEN status ELSE ex[id].status
                 /\ WithStatus(ids, status)[id].split = ex[id].split
                 /\ WithStatus(ids, status)[id].chunks = ex[id].chunks
<1>1. \A id \in DOMAIN ex : ex[id] \in Example
    BY DEF Typed
<1>2. ASSUME NEW id \in DOMAIN ex
      PROVE  /\ WithStatus(ids, status)[id] \in Example
             /\ WithStatus(ids, status)[id].status = IF id \in ids THEN status ELSE ex[id].status
             /\ WithStatus(ids, status)[id].split = ex[id].split
             /\ WithStatus(ids, status)[id].chunks = ex[id].chunks
    <2>1. ex[id] \in Example
        BY <1>1
    <2>2. WithStatus(ids, status)[id] = IF id \in ids THEN [ex[id] EXCEPT !.status = status] ELSE ex[id]
        BY DEF WithStatus
    <2> QED BY <2>1, <2>2 DEF Example
<1> QED BY <1>2 DEF WithStatus

LEMMA InitTyped == Init => Typed
<1> SUFFICES ASSUME Init PROVE Typed
    OBVIOUS
<1>1. DOMAIN ex = {} /\ DOMAIN done = {} /\ DOMAIN current = {}
    BY DEF Init
<1>2. TypeOK
    BY <1>1, TrainingAssumption DEF Init, TypeOK
<1> QED BY <1>1, <1>2 DEF Init, Typed

(* A step that enumerates no sources. *)
LEMMA StillTyped ==
    ASSUME Typed, DOMAIN ex \subseteq DOMAIN ex', \A id \in DOMAIN ex' : ex'[id] \in Example,
           docOf' \in [Chunks -> Docs], live' \subseteq Chunks, edges' \subseteq DOMAIN Links,
           by' = by, menu' = menu, current' = current,
           \A i \in DOMAIN done' : i \in DOMAIN done \/ \E id \in DOMAIN ex' : <<id[1], id[2]>> = i,
           \A review \in open' \cup resolved' : review[1] \in DOMAIN ex',
           step' = "work" => step = "work" /\ todo' \subseteq todo
    PROVE  Typed'
<1>1. \A i \in DOMAIN done' : \E id \in DOMAIN ex' : <<id[1], id[2]>> = i
    BY DEF Typed, TypeOK
<1>2. TypeOK'
    BY <1>1 DEF TypeOK, Example
<1>3. \A t \in DOMAIN current' : \A k \in current'[t] : KeyOf(t, k)'
    BY DEF Typed, KeyOf
<1>4. step' = "work" => \A i \in todo' : \E t \in DOMAIN current' : \E k \in current'[t] : i = <<t, k>>
    BY DEF Typed
<1> QED BY <1>2, <1>3, <1>4 DEF Typed

LEMMA GraphTyped ==
    ASSUME Typed
    PROVE  /\ docOf \in [Chunks -> Docs] /\ live \subseteq Chunks /\ edges \subseteq DOMAIN Links
           /\ \A id \in DOMAIN ex : ex[id] \in Example
           /\ \A review \in open \cup resolved : review[1] \in DOMAIN ex
BY DEF Typed, TypeOK

LEMMA DueAre ==
    ASSUME NEW tpls, NEW cur, NEW i \in Due(tpls, cur)
    PROVE  \E t \in tpls : \E k \in cur[t] : i = <<t, k>>
BY DEF Due

LEMMA StartTyped == ASSUME Typed, Start \/ StartDerived PROVE Typed'
<1>1. menu \subseteq Templates
    BY TrainingAssumption DEF Typed, Templates
<1>2. ASSUME NEW tpls \in SUBSET Templates, NEW old \in SUBSET DOMAIN current, tpls \cap old = {},
             current' = [t \in old \cup tpls |-> IF t \in tpls THEN Sources(t) ELSE current[t]],
             todo' = Due(tpls, current'), UNCHANGED <<graph, registry, ex, done, deduped, reviews>>
      PROVE  Typed'
    <2>1. TypeOK'
        BY <1>2 DEF Typed, TypeOK, graph, registry, reviews
    <2>2. ASSUME NEW t \in DOMAIN current', NEW k \in current'[t] PROVE KeyOf(t, k)'
        <3>1. KeyOf(t, k)
            <4>1. CASE t \in tpls
                BY <1>2, <2>2, <4>1, KeysOfSources
            <4>2. CASE t \notin tpls
                BY <1>2, <2>2, <4>2 DEF Typed
            <4> QED BY <4>1, <4>2
        <3> QED BY <1>2, <3>1 DEF KeyOf
    <2>3. \A i \in todo' : \E t \in DOMAIN current' : \E k \in current'[t] : i = <<t, k>>
        <3> DEFINE cur == current'
        <3>1. todo' = Due(tpls, cur) /\ tpls \subseteq DOMAIN cur
            BY <1>2
        <3> HIDE DEF cur
        <3>2. \A i \in todo' : \E t \in DOMAIN cur : \E k \in cur[t] : i = <<t, k>>
            BY <3>1, DueAre
        <3> QED BY <3>2 DEF cur
    <2>4. DOMAIN current' \subseteq Templates
        BY <1>2 DEF Typed
    <2>5. by' = by /\ menu' = menu /\ ex' = ex
        BY <1>2 DEF registry
    <2> QED BY <2>1, <2>2, <2>3, <2>4, <2>5 DEF Typed
<1>3. CASE Start
    <2> DEFINE tpls == menu \cap Generated
    <2>1. current' = [t \in {} \cup tpls |-> IF t \in tpls THEN Sources(t) ELSE current[t]]
        BY <1>3 DEF Start
    <2>2. todo' = Due(tpls, current') /\ UNCHANGED <<graph, registry, ex, done, deduped, reviews>>
        BY <1>3 DEF Start
    <2>3. tpls \in SUBSET Templates /\ {} \in SUBSET DOMAIN current
        BY <1>1
    <2> HIDE DEF tpls
    <2> QED BY <1>2, <2>1, <2>2, <2>3
<1>4. CASE StartDerived
    <2> DEFINE tpls == menu \cap Derived
               old == DOMAIN current \ tpls
    <2>1. current' = [t \in old \cup tpls |-> IF t \in tpls THEN Sources(t) ELSE current[t]]
        <3>1. old \cup tpls = DOMAIN current \cup tpls
            OBVIOUS
        <3> QED BY <1>4, <3>1 DEF StartDerived, Enumerate
    <2>2. todo' = Due(tpls, current') /\ UNCHANGED <<graph, registry, ex, done, deduped, reviews>>
        BY <1>4 DEF StartDerived, Enumerate
    <2>3. tpls \in SUBSET Templates /\ old \in SUBSET DOMAIN current /\ tpls \cap old = {}
        BY <1>1
    <2> HIDE DEF tpls, old
    <2> QED BY <1>2, <2>1, <2>2, <2>3
<1> QED BY <1>3, <1>4

(* What an item's transaction does to the examples. *)
WritesOne(tpl, key, id, status, chunks, reasons) ==
    /\ id[1] = tpl /\ id[2] = key /\ tpl \in DOMAIN current /\ key \in current[tpl]
    /\ status \in Statuses /\ chunks \in SUBSET Chunks
    /\ DOMAIN ex' = DOMAIN ex \cup {id}
    /\ ex'[id] = [status |-> status, split |-> None, chunks |-> chunks]
    /\ \A x \in DOMAIN ex \ {id} : ex'[x] = IF x[1] = tpl /\ x[2] = key
                                            THEN [ex[x] EXCEPT !.status = "superseded"] ELSE ex[x]
    /\ open' = open \cup ({<<id, reason>> : reason \in reasons} \ resolved)
    /\ revived' = revived \ {id}

LEMMA Written ==
    ASSUME Typed, NEW tpl, NEW key, Write(tpl, key)
    PROVE  \E id, status, chunks, reasons : WritesOne(tpl, key, id, status, chunks, reasons)
<1>1. PICK r \in Results(tpl, key) :
          /\ ex' = With(WithStatus(Replaced(tpl, key, Id(tpl, key, r.payload)), "superseded"), Id(tpl, key, r.payload),
                        [status |-> r.status, split |-> None, chunks |-> r.chunks])
          /\ open' = open \cup ({<<Id(tpl, key, r.payload), reason>> : reason \in r.reviews} \ resolved)
          /\ revived' = revived \ {Id(tpl, key, r.payload)}
    BY DEF Write
<1> DEFINE id == Id(tpl, key, r.payload)
<1>2. id[1] = tpl /\ id[2] = key
    BY DEF Id
<1>3. tpl \in DOMAIN current /\ key \in current[tpl]
    <2>1. PICK t \in DOMAIN current : \E k \in current[t] : <<tpl, key>> = <<t, k>>
        BY DEF Write, Typed
    <2>2. PICK k \in current[t] : <<tpl, key>> = <<t, k>>
        BY <2>1
    <2> QED BY <2>2
<1>4. tpl \in Templates /\ KeyOf(tpl, key)
    BY <1>3 DEF Typed
<1>5. r.status \in Statuses /\ r.chunks \in SUBSET Chunks
    BY <1>4, ResultsAre
<1> HIDE DEF id
<1>6. ex' = With(WithStatus(Replaced(tpl, key, id), "superseded"), id,
                 [status |-> r.status, split |-> None, chunks |-> r.chunks])
    BY <1>1 DEF id
<1>7. DOMAIN ex' = DOMAIN ex \cup {id} /\ ex'[id] = [status |-> r.status, split |-> None, chunks |-> r.chunks]
    BY <1>6 DEF With, WithStatus
<1>8. \A x \in DOMAIN ex \ {id} : ex'[x] = IF x[1] = tpl /\ x[2] = key
                                           THEN [ex[x] EXCEPT !.status = "superseded"] ELSE ex[x]
    BY <1>6 DEF With, WithStatus, Replaced
<1>9. open' = open \cup ({<<id, reason>> : reason \in r.reviews} \ resolved) /\ revived' = revived \ {id}
    BY <1>1 DEF id
<1>10. WritesOne(tpl, key, id, r.status, r.chunks, r.reviews)
    BY <1>2, <1>3, <1>4, <1>5, <1>7, <1>8, <1>9 DEF WritesOne
<1> QED BY <1>10

LEMMA WriteTyped == ASSUME Typed, NEW tpl, NEW key, Write(tpl, key) PROVE Typed'
<1>1. PICK id, status, chunks, reasons : WritesOne(tpl, key, id, status, chunks, reasons)
    BY Written
<1> USE DEF WritesOne
<1>2. /\ docOf' = docOf /\ live' = live /\ edges' = edges /\ by' = by /\ menu' = menu
      /\ current' = current /\ resolved' = resolved /\ step' = step /\ todo' \subseteq todo
      /\ DOMAIN done' = DOMAIN done \cup {<<tpl, key>>}
    BY DEF Write, graph, registry, With
<1>3. ASSUME NEW x \in DOMAIN ex' PROVE ex'[x] \in Example
    <2>1. "superseded" \in Statuses
        BY DEF Statuses
    <2>2. CASE x = id
        BY <1>1, <2>2 DEF Example
    <2>3. CASE x # id
        <3>1. ex[x] \in Example
            BY <1>1, <1>3, <2>3, GraphTyped
        <3> QED BY <1>1, <1>3, <2>1, <2>3, <3>1 DEF Example
    <2> QED BY <2>2, <2>3
<1>4. \A i \in DOMAIN done' : i \in DOMAIN done \/ \E x \in DOMAIN ex' : <<x[1], x[2]>> = i
    BY <1>1, <1>2
<1>5. \A review \in open' \cup resolved' : review[1] \in DOMAIN ex'
    BY <1>1, <1>2, GraphTyped
<1> QED BY <1>1, <1>2, <1>3, <1>4, <1>5, GraphTyped, StillTyped

(* A step that changes the status of some examples and may settle a review. *)
LEMMA RestatusTyped ==
    ASSUME Typed, NEW ids, NEW status \in Statuses, ex' = WithStatus(ids, status),
           UNCHANGED <<graph, by, menu, current, done>>,
           open' \cup resolved' \subseteq open \cup resolved,
           step' = "work" => step = "work" /\ todo' \subseteq todo
    PROVE  Typed'
<1>1. DOMAIN ex' = DOMAIN ex /\ \A id \in DOMAIN ex' : ex'[id] \in Example
    BY StatusSet
<1>2. \A review \in open' \cup resolved' : review[1] \in DOMAIN ex'
    BY <1>1, GraphTyped
<1>3. docOf' = docOf /\ live' = live /\ edges' = edges /\ done' = done /\ by' = by /\ menu' = menu /\ current' = current
    BY DEF graph
<1> QED BY <1>1, <1>2, <1>3, GraphTyped, StillTyped

LEMMA AssignTyped == ASSUME Typed, AssignSplits PROVE Typed'
<1>1. /\ docOf' = docOf /\ live' = live /\ edges' = edges /\ done' = done /\ by' = by /\ menu' = menu
      /\ current' = current /\ open' = open /\ resolved' = resolved /\ step' # "work"
      /\ DOMAIN ex' = DOMAIN ex
    BY DEF AssignSplits, graph, registry
<1>2. ASSUME NEW id \in DOMAIN ex' PROVE ex'[id] \in Example
    <2>1. ex[id] \in Example /\ id \in DOMAIN ex
        BY <1>1, GraphTyped
    <2>2. SplitFor(ex[id].chunks) \in SplitNames \cup {CrossSplit}
        BY <2>1, SplitIs DEF Example
    <2>3. ex'[id] = IF ex[id].status = "accepted" THEN [ex[id] EXCEPT !.split = SplitFor(ex[id].chunks)] ELSE ex[id]
        BY <2>1 DEF AssignSplits
    <2> QED BY <2>1, <2>2, <2>3 DEF Example
<1> QED BY <1>1, <1>2, GraphTyped, StillTyped

(* Steps that leave the examples and what is enumerated alone. *)
LEMMA QuietTyped ==
    ASSUME Typed, ex' = ex, by' = by, menu' = menu, current' = current, open' = open, resolved' = resolved,
           DOMAIN done' \subseteq DOMAIN done,
           docOf' \in [Chunks -> Docs], live' \subseteq Chunks, edges' \subseteq DOMAIN Links,
           step' = "work" => step = "work" /\ todo' \subseteq todo
    PROVE  Typed'
<1>1. DOMAIN ex \subseteq DOMAIN ex' /\ \A id \in DOMAIN ex' : ex'[id] \in Example
    BY GraphTyped
<1>2. \A review \in open' \cup resolved' : review[1] \in DOMAIN ex'
    BY GraphTyped
<1> QED BY <1>1, <1>2, StillTyped

(* Edits are made between runs. *)
LEMMA EditTyped ==
    ASSUME Typed, NewVersion \/ (\E c \in Chunks : Withdraw(c) \/ Return(c) \/ \E d \in Docs : Move(c, d))
                  \/ (\E e \in DOMAIN Links : Link(e))
    PROVE  Typed'
<1>1. step = "idle" /\ ex' = ex /\ by' = by /\ menu' = menu /\ current' = current /\ open' = open
      /\ resolved' = resolved /\ step' = step
    BY DEF NewVersion, Withdraw, Return, Move, Link, Edit, registry, reviews, run
<1>2. DOMAIN done' \subseteq DOMAIN done
    <2>1. CASE NewVersion
        BY <2>1 DEF NewVersion
    <2>2. CASE ~NewVersion
        BY <2>2 DEF Withdraw, Return, Move, Link
    <2> QED BY <2>1, <2>2
<1> DEFINE Kept == docOf' \in [Chunks -> Docs] /\ live' \subseteq Chunks /\ edges' \subseteq DOMAIN Links
<1>3. Kept
    <2>1. CASE NewVersion
        BY <2>1, GraphTyped DEF NewVersion, graph
    <2>2. ASSUME NEW c \in Chunks, Withdraw(c) PROVE Kept
        BY <2>2, GraphTyped DEF Withdraw
    <2>3. ASSUME NEW c \in Chunks, Return(c) PROVE Kept
        BY <2>3, GraphTyped DEF Return
    <2>4. ASSUME NEW c \in Chunks, NEW d \in Docs, Move(c, d) PROVE Kept
        BY <2>4, GraphTyped DEF Move
    <2>5. ASSUME NEW e \in DOMAIN Links, Link(e) PROVE Kept
        BY <2>5, GraphTyped DEF Link
    <2> QED BY <2>1, <2>2, <2>3, <2>4, <2>5
<1> QED BY <1>1, <1>2, <1>3, QuietTyped

LEMMA OthersTyped ==
    ASSUME Typed, Stop \/ (\E i \in todo : ItemFails(i[1], i[2])) \/ (\E t \in Prompted : DedupFails(t))
                  \/ UNCHANGED vars
    PROVE  Typed'
<1>1. ex' = ex /\ by' = by /\ menu' = menu /\ current' = current /\ open' = open /\ resolved' = resolved
      /\ done' = done /\ docOf' = docOf /\ live' = live /\ edges' = edges
    BY DEF Stop, ItemFails, DedupFails, vars, registry, reviews, run, graph
<1>2. step' = "work" => step = "work" /\ todo' \subseteq todo
    BY DEF Stop, ItemFails, DedupFails, vars, run
<1> QED BY <1>1, <1>2, GraphTyped, QuietTyped

LEMMA TypedPreserved == ASSUME Typed, [Next]_vars PROVE Typed'
<1>1. CASE Start \/ StartDerived
    BY <1>1, StartTyped
<1>2. ASSUME NEW i \in todo, Write(i[1], i[2]) PROVE Typed'
    BY <1>2, WriteTyped
<1>3. CASE Retire
    <2>1. /\ ex' = WithStatus(Unselected, "superseded") /\ UNCHANGED <<graph, by, menu, current, done>>
          /\ open' = open /\ resolved' = resolved /\ step' # "work" /\ "superseded" \in Statuses
        BY <1>3 DEF Retire, registry, reviews, Statuses
    <2> QED BY <2>1, RestatusTyped
<1>4. ASSUME NEW t \in Prompted, Dedup(t) PROVE Typed'
    <2>1. /\ UNCHANGED <<graph, by, menu, current, done>> /\ "duplicate" \in Statuses
          /\ open' = open /\ resolved' = resolved /\ step' = step /\ step # "work"
        BY <1>4 DEF Dedup, registry, reviews, Statuses
    <2>2. CASE ex' = ex
        BY <2>1, <2>2, GraphTyped, QuietTyped DEF graph
    <2>3. CASE \E D : ex' = WithStatus(D, "duplicate")
        BY <2>1, <2>3, RestatusTyped
    <2> QED BY <1>4, <2>2, <2>3 DEF Dedup
<1>5. CASE AssignSplits
    BY <1>5, AssignTyped
<1>6. ASSUME NEW review \in open, NEW v \in {"accepted", "rejected"}, Resolve(review, v) PROVE Typed'
    <2>1. /\ ex' = WithStatus({review[1]}, v) /\ UNCHANGED <<graph, by, menu, current, done>> /\ v \in Statuses
          /\ open' = open \ {review} /\ resolved' = resolved \cup {review} /\ step' = step /\ todo' = todo
        BY <1>6 DEF Resolve, registry, run, Statuses
    <2> QED BY <2>1, RestatusTyped
<1>7. CASE \E c \in Chunks : Withdraw(c) \/ Return(c) \/ \E d \in Docs : Move(c, d)
    BY <1>7, EditTyped
<1>8. CASE (\E e \in DOMAIN Links : Link(e)) \/ NewVersion
    BY <1>8, EditTyped
<1>9. CASE Stop \/ (\E i \in todo : ItemFails(i[1], i[2])) \/ (\E t \in Prompted : DedupFails(t)) \/ UNCHANGED vars
    BY <1>9, OthersTyped
<1> QED BY <1>1, <1>2, <1>3, <1>4, <1>5, <1>6, <1>7, <1>8, <1>9 DEF Next

(* Every example has a known status and split, an item done has left its      *)
(* example, and a review is of an example there is (write_example, _writer).  *)
THEOREM TrainingTypeCorrect == Spec => []TypeOK
<1>1. Typed => TypeOK
    BY DEF Typed
<1> QED BY <1>1, InitTyped, TypedPreserved, PTL DEF Spec

-----------------------------------------------------------------------------
(* One example per source. *)

(* Nothing superseded counts again, unless a reviewer took it back. *)
LEMMA OneKept ==
    ASSUME One, DOMAIN ex' = DOMAIN ex, revived \subseteq revived',
           \A id \in DOMAIN ex \ revived' : ex[id].status = "superseded" => ex'[id].status = "superseded"
    PROVE  One'
BY DEF One

LEMMA OneWritten == ASSUME Typed, One, NEW tpl, NEW key, Write(tpl, key) PROVE One'
<1>1. PICK id, status, chunks, reasons : WritesOne(tpl, key, id, status, chunks, reasons)
    BY Written
<1> USE DEF WritesOne
<1>2. ASSUME NEW x \in DOMAIN ex' \ {id}, x[1] = tpl, x[2] = key PROVE ex'[x].status = "superseded"
    <2>1. ex[x] \in Example
        BY <1>1, <1>2, GraphTyped
    <2> QED BY <1>1, <1>2, <2>1 DEF Example
<1>3. ASSUME NEW x \in DOMAIN ex' \ revived', ~(x[1] = tpl /\ x[2] = key)
      PROVE  x \in DOMAIN ex \ revived /\ ex'[x] = ex[x]
    BY <1>1, <1>3
<1> SUFFICES ASSUME NEW a \in DOMAIN ex' \ revived', NEW b \in DOMAIN ex' \ revived', a[1] = b[1], a[2] = b[2],
                    "superseded" \notin {ex'[a].status, ex'[b].status}
             PROVE  a = b
    BY DEF One
<1>4. CASE a[1] = tpl /\ a[2] = key
    BY <1>2, <1>4
<1>5. CASE ~(a[1] = tpl /\ a[2] = key)
    BY <1>3, <1>5 DEF One
<1> QED BY <1>4, <1>5

LEMMA OnePreserved == ASSUME Typed, One, [Next]_vars PROVE One'
<1>1. ASSUME NEW i \in todo, Write(i[1], i[2]) PROVE One'
    BY <1>1, OneWritten
<1>2. CASE Retire
    <2>1. ex' = WithStatus(Unselected, "superseded") /\ revived' = revived /\ "superseded" \in Statuses
        BY <1>2 DEF Retire, reviews, Statuses
    <2> QED BY <2>1, StatusSet, OneKept
<1>3. ASSUME NEW t \in Prompted, Dedup(t) PROVE One'
    <2>1. revived' = revived /\ "duplicate" \in Statuses
        BY <1>3 DEF Dedup, reviews, Statuses
    <2>2. CASE ex' = ex
        BY <2>1, <2>2, OneKept
    <2>3. ASSUME NEW D \in SUBSET Having(t, "accepted"), ex' = WithStatus(D, "duplicate") PROVE One'
        <3>1. \A id \in D : ex[id].status = "accepted"
            BY DEF Having
        <3> QED BY <2>1, <2>3, <3>1, StatusSet, OneKept
    <2> QED BY <1>3, <2>2, <2>3 DEF Dedup
<1>4. CASE AssignSplits
    <2>1. DOMAIN ex' = DOMAIN ex /\ revived' = revived
        BY <1>4 DEF AssignSplits
    <2>2. \A id \in DOMAIN ex : ex[id].status = "superseded" => ex'[id].status = "superseded"
        BY <1>4 DEF AssignSplits
    <2> QED BY <2>1, <2>2, OneKept
<1>5. ASSUME NEW review \in open, NEW v \in {"accepted", "rejected"}, Resolve(review, v) PROVE One'
    <2>1. /\ ex' = WithStatus({review[1]}, v) /\ v \in Statuses
          /\ revived' = IF ex[review[1]].status = "superseded" THEN revived \cup {review[1]} ELSE revived
        BY <1>5 DEF Resolve, Statuses
    <2> QED BY <2>1, StatusSet, OneKept
<1>6. CASE \/ Start \/ StartDerived \/ Stop \/ (\E i \in todo : ItemFails(i[1], i[2]))
           \/ (\E t \in Prompted : DedupFails(t)) \/ UNCHANGED vars
    <2>1. ex' = ex /\ revived' = revived
        BY <1>6 DEF Start, StartDerived, Stop, ItemFails, DedupFails, vars, reviews
    <2> QED BY <2>1, OneKept
<1>7. CASE (\E c \in Chunks : Withdraw(c) \/ Return(c) \/ \E d \in Docs : Move(c, d))
           \/ (\E e \in DOMAIN Links : Link(e)) \/ NewVersion
    <2>1. ex' = ex /\ revived' = revived
        BY <1>7 DEF Withdraw, Return, Move, Link, NewVersion, reviews
    <2> QED BY <2>1, OneKept
<1> QED BY <1>1, <1>2, <1>3, <1>4, <1>5, <1>6, <1>7 DEF Next

(* However often an item was rewritten, its source has one example that       *)
(* counts, unless a reviewer took back one superseded (_writer, resolve).     *)
THEOREM SourcesHaveOne == Spec => []OneExamplePerSource
<1>1. Init => One
    BY DEF Init, One
<1>2. Typed /\ One => OneExamplePerSource
    BY DEF Typed, One, OneExamplePerSource
<1> QED BY <1>1, <1>2, InitTyped, TypedPreserved, OnePreserved, PTL DEF Spec

-----------------------------------------------------------------------------
(* Splits keep documents apart. *)

LEMMA SplitsKept == ASSUME UNCHANGED <<docOf, edges, by>> PROVE splitFor' = splitFor
BY DEF splitFor, SplitFor, SplitsOf, SplitKey, Component

(* Nothing is accepted with a split it did not get while accepted. *)
LEMMA AssignedKept ==
    ASSUME Assigned, UNCHANGED <<docOf, edges, by>>, fresh' => fresh, DOMAIN ex' = DOMAIN ex, stale \subseteq stale',
           \A id \in DOMAIN ex \ stale' :
               /\ ex'[id].status = "accepted" => ex[id].status = "accepted" \/ ex[id].split = None
               /\ ex'[id].split = ex[id].split /\ ex'[id].chunks = ex[id].chunks
    PROVE  Assigned'
BY SplitsKept DEF Assigned

LEMMA AssignedWritten == ASSUME Typed, Assigned, NEW tpl, NEW key, Write(tpl, key) PROVE Assigned'
<1>1. PICK id, status, chunks, reasons : WritesOne(tpl, key, id, status, chunks, reasons)
    BY Written
<1> USE DEF WritesOne
<1>2. ex'[id].split = None
    BY <1>1
<1>3. ASSUME NEW x \in DOMAIN ex' \ {id}, ex'[x].status = "accepted" PROVE x \in DOMAIN ex /\ ex'[x] = ex[x]
    <2>1. x \in DOMAIN ex /\ ex[x] \in Example
        BY <1>1, GraphTyped
    <2> QED BY <1>1, <1>3, <2>1 DEF Example
<1>4. UNCHANGED <<docOf, edges, by, fresh, stale>>
    BY DEF Write, graph, registry
<1>5. splitFor' = splitFor
    BY <1>4, SplitsKept
<1> QED BY <1>2, <1>3, <1>4, <1>5 DEF Assigned

LEMMA AssignedPreserved == ASSUME Typed, Assigned, [Next]_vars PROVE Assigned'
<1>1. ASSUME NEW i \in todo, Write(i[1], i[2]) PROVE Assigned'
    BY <1>1, AssignedWritten
<1>2. CASE Retire
    <2>1. /\ ex' = WithStatus(Unselected, "superseded") /\ "superseded" \in Statuses
          /\ UNCHANGED <<docOf, edges, by, fresh, stale>>
        BY <1>2 DEF Retire, reviews, graph, registry, Statuses
    <2> QED BY <2>1, StatusSet, AssignedKept
<1>3. ASSUME NEW t \in Prompted, Dedup(t) PROVE Assigned'
    <2>1. UNCHANGED <<docOf, edges, by, fresh, stale>> /\ "duplicate" \in Statuses
        BY <1>3 DEF Dedup, reviews, graph, registry, Statuses
    <2>2. CASE ex' = ex
        BY <2>1, <2>2, AssignedKept
    <2>3. ASSUME NEW D, ex' = WithStatus(D, "duplicate") PROVE Assigned'
        BY <2>1, <2>3, StatusSet, AssignedKept
    <2> QED BY <1>3, <2>2, <2>3 DEF Dedup
<1>4. CASE AssignSplits
    <2>1. DOMAIN ex' = DOMAIN ex /\ UNCHANGED <<docOf, edges, by>>
        BY <1>4 DEF AssignSplits, graph, registry
    <2>2. ASSUME NEW id \in DOMAIN ex', ex'[id].status = "accepted"
          PROVE  ex'[id].split = splitFor[ex'[id].chunks]
        <3>1. ex[id] \in Example /\ id \in DOMAIN ex
            BY <2>1, <2>2, GraphTyped
        <3>2. ex'[id] = IF ex[id].status = "accepted" THEN [ex[id] EXCEPT !.split = SplitFor(ex[id].chunks)] ELSE ex[id]
            BY <1>4, <3>1 DEF AssignSplits
        <3>3. ex[id].status = "accepted" /\ ex'[id] = [ex[id] EXCEPT !.split = SplitFor(ex[id].chunks)]
            BY <2>2, <3>2
        <3>4. ex'[id].chunks = ex[id].chunks /\ ex'[id].split = SplitFor(ex[id].chunks) /\ ex[id].chunks \in SUBSET Chunks
            BY <3>1, <3>3 DEF Example
        <3> QED BY <3>4 DEF splitFor
    <2>3. splitFor' = splitFor
        BY <2>1, SplitsKept
    <2> QED BY <2>2, <2>3 DEF Assigned
<1>5. ASSUME NEW review \in open, NEW v \in {"accepted", "rejected"}, Resolve(review, v) PROVE Assigned'
    <2>1. /\ ex' = WithStatus({review[1]}, v) /\ v \in Statuses
          /\ UNCHANGED <<docOf, edges, by, fresh>>
        BY <1>5 DEF Resolve, graph, registry, Statuses
    <2>2. stale \subseteq stale'
        BY <1>5 DEF Resolve
    <2>3. ex[review[1]].status # "accepted" /\ ex[review[1]].split # None => review[1] \in stale'
        BY <1>5 DEF Resolve
    <2> QED BY <2>1, <2>2, <2>3, StatusSet, AssignedKept
<1>6. CASE \/ Start \/ StartDerived \/ Stop \/ NewVersion \/ (\E i \in todo : ItemFails(i[1], i[2]))
           \/ (\E t \in Prompted : DedupFails(t)) \/ UNCHANGED vars
    <2>1. ex' = ex /\ UNCHANGED <<docOf, edges, by, fresh, stale>>
        BY <1>6 DEF Start, StartDerived, Stop, NewVersion, ItemFails, DedupFails, vars, reviews, graph, registry
    <2> QED BY <2>1, AssignedKept
<1>7. CASE (\E c \in Chunks : Withdraw(c) \/ Return(c) \/ \E d \in Docs : Move(c, d))
           \/ (\E e \in DOMAIN Links : Link(e))
    <2>1. fresh' = FALSE
        BY <1>7 DEF Withdraw, Return, Move, Link
    <2> QED BY <2>1 DEF Assigned
<1> QED BY <1>1, <1>2, <1>3, <1>4, <1>5, <1>6, <1>7 DEF Next

(* Two sets of chunks with different splits share no document, nor a          *)
(* component when components are what is split.                               *)
LEMMA SplitsDiffer ==
    ASSUME Typed, NEW cs \in SUBSET Chunks, NEW ds \in SUBSET Chunks,
           SplitFor(cs) # CrossSplit, SplitFor(ds) # CrossSplit, SplitFor(cs) # SplitFor(ds),
           NEW c \in cs, NEW d \in ds
    PROVE  docOf[c] # docOf[d] /\ (by = "component" => docOf[d] \notin Component(docOf[c]))
<1>1. SplitOf[SplitKey(c)] # SplitOf[SplitKey(d)]
    BY SplitOfEach
<1>2. docOf[c] # docOf[d]
    BY <1>1 DEF SplitKey
<1>3. ASSUME by = "component", docOf[d] \in Component(docOf[c]) PROVE FALSE
    <2>1. Component(docOf[d]) = Component(docOf[c])
        BY <1>3, ComponentShared, GraphTyped
    <2> QED BY <1>1, <1>3, <2>1 DEF SplitKey
<1> QED BY <1>2, <1>3

(* While the graph is as it was when splits were assigned, no two splits of   *)
(* an export share a document or, with component splits, documents that edges *)
(* join, but for examples a reviewer took back (assign_splits, split_for).    *)
THEOREM SplitsDoNotLeak == Spec => []NoLeakage
<1>1. Init => Assigned
    BY DEF Init, Assigned
<1>2. ASSUME Typed, Assigned PROVE NoLeakage
    <2> SUFFICES ASSUME fresh, NEW a \in Exported \ stale, NEW b \in Exported \ stale,
                        None \notin {ex[a].split, ex[b].split}, ex[a].split # ex[b].split,
                        NEW c \in ex[a].chunks, NEW d \in ex[b].chunks
                 PROVE  docOf[c] # docOf[d] /\ (by = "component" => docOf[d] \notin Component(docOf[c]))
        BY DEF NoLeakage, SplitsApart
    <2>1. \A id \in Exported \ stale : ex[id].split # None =>
              /\ ex[id].chunks \in SUBSET Chunks
              /\ ex[id].split = SplitFor(ex[id].chunks) /\ ex[id].split # CrossSplit
        <3>1. \A id \in DOMAIN ex : ex[id].chunks \in SUBSET Chunks
            BY <1>2, GraphTyped DEF Example
        <3> QED BY <1>2, <3>1 DEF Exported, Assigned, splitFor
    <2> QED BY <1>2, <2>1, SplitsDiffer
<1> QED BY <1>1, <1>2, InitTyped, TypedPreserved, AssignedPreserved, PTL DEF Spec

-----------------------------------------------------------------------------
(* Derived examples follow their sources. *)

LEMMA TemplatesApart == Generated \cap Derived = {} /\ "qa" \in Generated
BY DEF Generated, Derived

LEMMA MenuTemplates == ASSUME Typed PROVE menu \subseteq Generated \cup Derived
BY TrainingAssumption DEF Typed

(* Edits, failed items and steps that change nothing. *)
LEMMA FollowsQuiet ==
    ASSUME Follows, UNCHANGED <<ex, menu, current, stage, step, settled>>, todo' \subseteq todo
    PROVE  Follows'
<1>1. DerivedFollowsSource => DerivedFollowsSource'
    BY DEF DerivedFollowsSource
<1>2. Retired => Retired'
    BY DEF Retired
<1>3. Having("qa", "accepted")' = Having("qa", "accepted")
    BY DEF Having
<1>4. Working => Working'
    BY <1>2, <1>3 DEF Working
<1> QED BY <1>1, <1>4 DEF Follows

LEMMA FollowsStart == ASSUME Typed, Start PROVE Follows'
<1>1. stage' = "training" /\ step' = "work" /\ settled' = "running" /\ menu' = menu
    BY DEF Start, registry
<1>2. DOMAIN current' = menu \cap Generated
    BY DEF Start
<1>3. Working'
    BY <1>1, <1>2 DEF Working
<1> QED BY <1>1, <1>3 DEF Follows

LEMMA FollowsDerived == ASSUME Typed, Follows, StartDerived PROVE Follows'
<1>1. step = "next" /\ settled' = settled /\ stage' = "training_derived" /\ step' = "work" /\ menu' = menu /\ ex' = ex
    BY DEF StartDerived, Enumerate, registry
<1>2. CASE settled = "running"
    <2>1. DOMAIN current = menu \cap Generated /\ Retired
        BY <1>1, <1>2 DEF Follows, Working
    <2> DEFINE tpls == menu \cap Derived
    <2>2. current' = [t \in DOMAIN current \cup tpls |-> IF t \in tpls THEN Sources(t) ELSE current[t]]
        BY DEF StartDerived, Enumerate
    <2>3. todo' = Due(tpls, current')
        BY DEF StartDerived, Enumerate
    <2>4. DOMAIN current' = menu
        BY <2>1, <2>2, MenuTemplates
    <2>5. \A t \in menu \cap Derived : current'[t] = Having("qa", "accepted")'
        <3>1. \A t \in Derived : Sources(t) = Having("qa", "accepted")
            BY DEF Sources, Derived
        <3>2. Having("qa", "accepted")' = Having("qa", "accepted")
            BY <1>1 DEF Having
        <3> QED BY <2>2, <3>1, <3>2
    <2>6. Retired'
        <3>1. \A t \in menu \cap Generated : current'[t] = current[t]
            BY <2>1, <2>2, TemplatesApart
        <3> QED BY <1>1, <2>1, <3>1 DEF Retired
    <2>7. \A i \in todo' : i[1] \in Derived
        <3> DEFINE cur == current'
        <3>1. todo' = Due(tpls, cur)
            BY <2>3
        <3> HIDE DEF cur
        <3>2. \A i \in todo' : \E t \in tpls : \E k \in cur[t] : i = <<t, k>>
            BY <3>1, DueAre
        <3> QED BY <3>2
    <2>8. Working'
        BY <1>1, <2>4, <2>5, <2>6, <2>7 DEF Working
    <2> QED BY <1>1, <1>2, <2>8 DEF Follows
<1>3. CASE settled = "no"
    BY <1>1, <1>3 DEF Follows
<1> QED BY <1>1, <1>2, <1>3 DEF Follows

LEMMA FollowsWritten == ASSUME Typed, Follows, NEW tpl, NEW key, Write(tpl, key) PROVE Follows'
<1>1. PICK id, status, chunks, reasons : WritesOne(tpl, key, id, status, chunks, reasons)
    BY Written
<1> USE DEF WritesOne
<1>2. /\ step = "work" /\ <<tpl, key>> \in todo /\ todo' \subseteq todo
      /\ UNCHANGED <<menu, current, stage, step, settled>>
    BY DEF Write, registry
<1>3. CASE settled = "running"
    <2>1. CASE stage = "training"
        BY <1>2, <1>3, <2>1 DEF Follows, Working
    <2>2. CASE stage = "training_derived"
        <3>1. Working
            BY <1>3 DEF Follows
        <3>2. tpl \in Derived
            BY <1>2, <2>2, <3>1 DEF Working
        <3>3. \A x : x[1] \in Generated => (x \in DOMAIN ex' <=> x \in DOMAIN ex) /\ (x \in DOMAIN ex => ex'[x] = ex[x])
            BY <1>1, <3>2, TemplatesApart
        <3>4. Retired'
            BY <1>2, <2>2, <3>1, <3>3 DEF Working, Retired
        <3>5. Having("qa", "accepted")' = Having("qa", "accepted")
            BY <3>3, TemplatesApart DEF Having
        <3>6. Working'
            BY <1>2, <2>2, <3>1, <3>4, <3>5 DEF Working
        <3> QED BY <1>2, <1>3, <3>6 DEF Follows
    <2> QED BY <1>3, <2>1, <2>2 DEF Follows, Working
<1> QED BY <1>2, <1>3 DEF Follows

LEMMA FollowsRetired == ASSUME Typed, Follows, Retire PROVE Follows'
<1>1. /\ step = "work" /\ step' = "finalize" /\ UNCHANGED <<menu, current, stage, settled>>
      /\ ex' = WithStatus(Unselected, "superseded") /\ "superseded" \in Statuses
    BY DEF Retire, registry, Statuses
<1>2. /\ DOMAIN ex' = DOMAIN ex
      /\ \A id \in DOMAIN ex : ex'[id].status = IF id \in Unselected THEN "superseded" ELSE ex[id].status
    BY <1>1, StatusSet
<1>3. CASE settled = "running"
    <2>1. Working
        BY <1>3 DEF Follows
    <2>2. menu \cap Generated \subseteq DOMAIN current
        BY <2>1 DEF Working
    <2>3. Retired'
        BY <1>1, <1>2, <2>2 DEF Retired, Unselected
    <2>4. CASE stage = "training"
        BY <1>1, <1>3, <2>1, <2>3, <2>4 DEF Follows, Working
    <2>5. CASE stage = "training_derived"
        <3>1. DOMAIN current = menu /\ Retired /\ \A t \in menu \cap Derived : current[t] = Having("qa", "accepted")
            BY <2>1, <2>5 DEF Working
        <3>2. todo' = {}
            BY <2>5 DEF Retire
        <3>3. \A id \in DOMAIN ex : id[1] = "qa" /\ id \in Unselected => ex[id].status = "superseded"
            BY <3>1, TemplatesApart DEF Unselected, Retired
        <3>4. Having("qa", "accepted")' = Having("qa", "accepted")
            BY <1>2, <3>3 DEF Having
        <3>5. \A id \in DOMAIN ex' : id[1] \in menu \cap Derived /\ ex'[id].status = "accepted" => id[2] \in current[id[1]]
            BY <1>2, <3>1 DEF Unselected
        <3>6. Working'
            BY <1>1, <2>3, <2>5, <3>1, <3>2, <3>4, <3>5 DEF Working
        <3> QED BY <1>1, <1>3, <3>6 DEF Follows
    <2> QED BY <2>1, <2>4, <2>5 DEF Working
<1> QED BY <1>1, <1>3 DEF Follows

LEMMA FollowsDeduped == ASSUME Typed, Follows, NEW t \in Prompted, Dedup(t) PROVE Follows'
<1>1. /\ step = "finalize" /\ todo # {} /\ UNCHANGED <<menu, current, stage, step, settled>>
      /\ "duplicate" \in Statuses
    BY DEF Dedup, registry, Statuses
<1>2. CASE settled = "running"
    <2>1. Working /\ stage = "training"
        BY <1>1, <1>2 DEF Follows, Working
    <2>2. Retired /\ DOMAIN current = menu \cap Generated
        BY <1>1, <2>1 DEF Working
    <2>3. Retired'
        <3>1. CASE ex' = ex
            BY <1>1, <2>2, <3>1 DEF Retired
        <3>2. ASSUME NEW D \in SUBSET Having(t, "accepted"), ex' = WithStatus(D, "duplicate") PROVE Retired'
            <4>1. \A id \in D : ex[id].status = "accepted"
                BY DEF Having
            <4> QED BY <1>1, <2>2, <3>2, <4>1, StatusSet DEF Retired
        <3> QED BY <3>1, <3>2 DEF Dedup
    <2> QED BY <1>1, <1>2, <2>1, <2>2, <2>3 DEF Follows, Working
<1> QED BY <1>1, <1>2 DEF Follows

LEMMA FollowsAssigned == ASSUME Typed, Follows, AssignSplits PROVE Follows'
<1>1. /\ step = "finalize" /\ UNCHANGED <<menu, current, stage, todo>>
      /\ step' = IF stage = "training" THEN "next" ELSE "idle"
      /\ settled' = IF stage = "training_derived" /\ settled = "running" THEN "yes" ELSE settled
    BY DEF AssignSplits, registry
<1>2. DOMAIN ex' = DOMAIN ex
    BY DEF AssignSplits
<1>3. \A id \in DOMAIN ex : ex'[id].status = ex[id].status
    BY GraphTyped DEF AssignSplits, Example
<1>4. CASE settled = "running"
    <2>1. Working
        BY <1>4 DEF Follows
    <2>2. CASE stage = "training"
        <3>1. Retired /\ DOMAIN current = menu \cap Generated
            BY <1>1, <2>1, <2>2 DEF Working
        <3>2. Retired'
            BY <1>1, <1>2, <1>3, <3>1 DEF Retired
        <3> QED BY <1>1, <1>4, <2>2, <3>1, <3>2 DEF Follows, Working
    <2>3. CASE stage = "training_derived"
        <3>1. /\ \A t \in menu \cap Derived : current[t] = Having("qa", "accepted")
              /\ \A id \in DOMAIN ex : id[1] \in menu \cap Derived /\ ex[id].status = "accepted" => id[2] \in current[id[1]]
            BY <1>1, <2>1, <2>3 DEF Working
        <3>2. \A id \in DOMAIN ex : id[1] \in menu \cap Derived /\ ex[id].status = "accepted" =>
                  id[2] \in DOMAIN ex /\ ex[id[2]].status = "accepted"
            BY <3>1 DEF Having
        <3>3. DerivedFollowsSource'
            BY <1>1, <1>2, <1>3, <3>2 DEF DerivedFollowsSource
        <3> QED BY <1>1, <1>4, <2>3, <3>3 DEF Follows
    <2> QED BY <2>1, <2>2, <2>3 DEF Working
<1> QED BY <1>1, <1>4 DEF Follows

LEMMA FollowsPreserved == ASSUME Typed, Follows, [Next]_vars PROVE Follows'
<1>1. CASE Start \/ StartDerived
    BY <1>1, FollowsStart, FollowsDerived
<1>2. ASSUME NEW i \in todo, Write(i[1], i[2]) PROVE Follows'
    BY <1>2, FollowsWritten
<1>3. CASE Retire \/ AssignSplits
    BY <1>3, FollowsRetired, FollowsAssigned
<1>4. ASSUME NEW t \in Prompted, Dedup(t) PROVE Follows'
    BY <1>4, FollowsDeduped
<1>5. CASE Stop \/ \E review \in open, v \in {"accepted", "rejected"} : Resolve(review, v)
    <2>1. settled' = "no"
        BY <1>5 DEF Stop, Resolve
    <2> QED BY <2>1 DEF Follows
<1>6. CASE (\E i \in todo : ItemFails(i[1], i[2])) \/ (\E t \in Prompted : DedupFails(t)) \/ UNCHANGED vars
    <2>1. UNCHANGED <<ex, menu, current, stage, step, settled>> /\ todo' \subseteq todo
        BY <1>6 DEF ItemFails, DedupFails, vars, registry, run
    <2> QED BY <2>1, FollowsQuiet
<1>7. CASE (\E c \in Chunks : Withdraw(c) \/ Return(c) \/ \E d \in Docs : Move(c, d))
           \/ (\E e \in DOMAIN Links : Link(e)) \/ NewVersion
    <2>1. UNCHANGED <<ex, menu, current, stage, step, settled>> /\ todo' \subseteq todo
        BY <1>7 DEF Withdraw, Return, Move, Link, NewVersion, registry, run
    <2> QED BY <2>1, FollowsQuiet
<1> QED BY <1>1, <1>2, <1>3, <1>4, <1>5, <1>6, <1>7 DEF Next

(* After a run that went through, an accepted derived example rests on an     *)
(* accepted one, however the first stage and the reviewer dealt with its      *)
(* source before (sources, retire_unselected).                                *)
THEOREM DerivedFollows == Spec => []DerivedFollowsSource
<1>1. Init => Follows
    BY DEF Init, Follows
<1>2. Follows => DerivedFollowsSource
    BY DEF Follows, DerivedFollowsSource
<1> QED BY <1>1, <1>2, InitTyped, TypedPreserved, FollowsPreserved, PTL DEF Spec
=============================================================================
