--------------------------- MODULE RegistryProofs ---------------------------
(***************************************************************************)
(* Theorems about Registry for any files, contents, and number of drafts   *)
(* and kills.                                                              *)
(***************************************************************************)
EXTENDS Registry, TLAPS, WellFoundedInduction

-----------------------------------------------------------------------------
(* Trees. *)

LEMMA TreeIs ==
    ASSUME NEW t
    PROVE  t \in Trees <=> \E S \in SUBSET Files : t \in [S -> Contents]
BY DEF Trees

LEMMA EmptyTree == <<>> \in Trees /\ DOMAIN <<>> = {}
<1>1. <<>> \in [{} -> Contents]
    OBVIOUS
<1> QED BY <1>1, TreeIs

LEMMA WithFile ==
    ASSUME NEW t \in Trees, NEW f \in Files, NEW c \in Contents
    PROVE  With(t, f, c) \in Trees /\ DOMAIN With(t, f, c) = DOMAIN t \cup {f}
<1>1. PICK S \in SUBSET Files : t \in [S -> Contents]
    BY TreeIs
<1>2. With(t, f, c) \in [S \cup {f} -> Contents]
    BY <1>1 DEF With
<1> QED BY <1>1, <1>2, TreeIs

LEMMA Without ==
    ASSUME NEW t \in Trees, NEW f
    PROVE  [g \in DOMAIN t \ {f} |-> t[g]] \in Trees
<1>1. PICK S \in SUBSET Files : t \in [S -> Contents]
    BY TreeIs
<1>2. [g \in DOMAIN t \ {f} |-> t[g]] \in [S \ {f} -> Contents]
    BY <1>1
<1>3. S \ {f} \in SUBSET Files
    OBVIOUS
<1> QED BY <1>2, <1>3, TreeIs

LEMMA Edited ==
    ASSUME NEW t \in Trees, NEW e \in Trees
    PROVE  [f \in DOMAIN t \cup DOMAIN e |-> IF f \in DOMAIN e THEN e[f] ELSE t[f]] \in Trees
<1>1. PICK S \in SUBSET Files, R \in SUBSET Files : t \in [S -> Contents] /\ e \in [R -> Contents]
    BY TreeIs
<1>2. [f \in DOMAIN t \cup DOMAIN e |-> IF f \in DOMAIN e THEN e[f] ELSE t[f]] \in [S \cup R -> Contents]
    BY <1>1
<1>3. S \cup R \in SUBSET Files
    OBVIOUS
<1> QED BY <1>2, <1>3, TreeIs

(* A tree in a Registry's listing has a first file. *)
LEMMA FirstIsLeft ==
    ASSUME NEW fs \in SUBSET Files, fs # {}
    PROVE  First(fs) \in fs
<1> DEFINE I == {i \in DOMAIN Order : Order[i] \in fs}
<1>1. I \subseteq Nat /\ I # {}
    BY RegistryAssumption DEF Files, ToSet
<1>2. \E i \in I : \A j \in I : ~(<<j, i>> \in OpToRel(<, Nat))
    <2> HIDE DEF I
    <2> QED BY <1>1, NatLessThanWellFounded, WFMin
<1>3. \E i \in I : \A j \in I : i <= j
    <2>1. ASSUME NEW i \in Nat, NEW j \in Nat, <<j, i>> \notin OpToRel(<, Nat) PROVE i <= j
        BY <2>1 DEF OpToRel
    <2> HIDE DEF I
    <2> QED BY <1>1, <1>2, <2>1
<1>4. Min(I) \in I
    <2> HIDE DEF I
    <2> QED BY <1>3 DEF Min
<1> QED BY <1>4 DEF First

-----------------------------------------------------------------------------
(* What a command holds. *)

Held == [pc : Places, loaded : Trees, version : Trees, left : SUBSET Files]
Changing == {"unlink", "copy", "commit"}

(* A command's version is staged, one it activates has a row; it stages files  *)
(* of its version and copies files that have been staged.                      *)
Sound(r, ds, rw) ==
    /\ r \in Held
    /\ r.version # <<>> => r.version \in DOMAIN ds
    /\ r.pc \in Changing => r.version \in DOMAIN rw
    /\ r.pc \notin Changing => r.left \subseteq DOMAIN r.version
    /\ r.pc = "copy" => r.left \subseteq DOMAIN ds[r.version]

Typed == TypeOK /\ \A p \in Procs : Sound(proc[p], dirs, row)

(* Staged files and rows are never taken away. *)
Grown ==
    /\ DOMAIN dirs \subseteq DOMAIN dirs' /\ \A v \in DOMAIN dirs : DOMAIN dirs[v] \subseteq DOMAIN dirs'[v]
    /\ DOMAIN row \subseteq DOMAIN row'
    /\ DOMAIN dirs' \subseteq Trees /\ \A v \in DOMAIN dirs' : dirs'[v] \in Trees
    /\ DOMAIN row' \subseteq DOMAIN dirs' /\ \A v \in DOMAIN row' : row'[v] \in Rows

(* A step of one command. *)
LEMMA OneCommand ==
    ASSUME Typed, NEW p \in Procs, NEW r, proc' = [proc EXCEPT ![p] = r],
           Sound(r, dirs', row'), Grown,
           tree' \in Trees, corpus' \in Trees,
           drafts' \in 0..MaxDrafts, kills' \in 0..MaxKills, {cut', clash', stale', late'} \subseteq BOOLEAN
    PROVE  Typed'
<1>1. proc \in [Procs -> Held] /\ r \in Held
    BY DEF Typed, TypeOK, Held, Sound
<1>2. proc' \in [Procs -> Held] /\ \A q \in Procs : proc'[q] = IF q = p THEN r ELSE proc[q]
    BY <1>1
<1>3. ASSUME NEW q \in Procs PROVE Sound(proc'[q], dirs', row')
    <2>1. CASE q = p
        BY <1>2, <2>1
    <2>2. CASE q # p
        <3>1. proc'[q] = proc[q] /\ Sound(proc[q], dirs, row) /\ DOMAIN row \subseteq DOMAIN dirs
            BY <1>2, <2>2 DEF Typed, TypeOK
        <3>2. Sound(proc[q], dirs', row')
            BY <3>1 DEF Sound, Grown, Changing
        <3> QED BY <3>1, <3>2
    <2> QED BY <2>1, <2>2
<1>4. TypeOK'
    BY <1>2 DEF TypeOK, Held, Grown
<1> QED BY <1>3, <1>4 DEF Typed

(* A step that moves no command. *)
LEMMA Unmoved ==
    ASSUME Typed, proc' = proc, Grown, UNCHANGED <<tree, corpus, drafts, kills, cut, clash, stale, late>>
    PROVE  Typed'
<1>1. ASSUME NEW q \in Procs PROVE Sound(proc[q], dirs', row')
    <2>1. Sound(proc[q], dirs, row) /\ DOMAIN row \subseteq DOMAIN dirs
        BY DEF Typed, TypeOK
    <2> QED BY <2>1 DEF Sound, Grown, Changing
<1> QED BY <1>1 DEF Typed, TypeOK, Grown

(* A step that changes no staged file and no row. *)
LEMMA Ungrown == ASSUME Typed, UNCHANGED <<dirs, row>> PROVE Grown
BY DEF Typed, TypeOK, Grown

LEMMA Holds ==
    ASSUME Typed, NEW p \in Procs
    PROVE  proc \in [Procs -> Held] /\ proc[p] \in Held /\ Sound(proc[p], dirs, row)
BY DEF Typed, TypeOK, Held

LEMMA IdleSound == ASSUME NEW ds, NEW rw PROVE Sound(Idle, ds, rw)
BY EmptyTree DEF Sound, Idle, Held, Places, Changing

LEMMA RowWritten ==
    ASSUME Typed, NEW v \in DOMAIN dirs, NEW x \in Rows, row' = With(row, v, x), dirs' = dirs
    PROVE  Grown /\ v \in DOMAIN row'
<1>1. DOMAIN row' = DOMAIN row \cup {v} /\ \A w \in DOMAIN row' : row'[w] = IF w = v THEN x ELSE row[w]
    BY DEF With
<1> QED BY <1>1 DEF Typed, TypeOK, Grown

LEMMA RowsWritten ==
    ASSUME Typed
    PROVE  /\ \A v \in Trees : Proposed(v, "bootstrap")
                = With(row, v, IF v \in DOMAIN row THEN [row[v] EXCEPT !.kind = "bootstrap"]
                               ELSE [status |-> "proposed", by |-> "nobody", kind |-> "bootstrap"])
           /\ \A v \in Trees : (IF v \in DOMAIN row THEN [row[v] EXCEPT !.kind = "bootstrap"]
                               ELSE [status |-> "proposed", by |-> "nobody", kind |-> "bootstrap"]) \in Rows
           /\ \A by \in {"human", "jev"}, kind \in {"none", "bootstrap", "evolution"} :
                [status |-> "approved", by |-> by, kind |-> kind] \in Rows
           /\ \A v : Kind(v) \in {"none", "bootstrap", "evolution"}
<1>1. \A v \in DOMAIN row : row[v] \in Rows
    BY DEF Typed, TypeOK
<1> QED BY <1>1 DEF Rows, Proposed, Kind

LEMMA InitTyped == Init => Typed
<1> SUFFICES ASSUME Init PROVE Typed
    OBVIOUS
<1>1. Shipped \in Trees
    BY RegistryAssumption, TreeIs DEF Shipped, Contents
<1>2. Idle \in Held
    BY IdleSound DEF Sound
<1>3. TypeOK
    <2>1. proc \in [Procs -> Held]
        BY <1>2 DEF Init
    <2>2. tree \in Trees /\ corpus \in Trees /\ DOMAIN dirs = {} /\ DOMAIN row = {}
        BY <1>1, EmptyTree DEF Init
    <2>3. drafts \in 0..MaxDrafts /\ kills \in 0..MaxKills /\ {cut, clash, stale, late} \subseteq BOOLEAN
        <3>1. drafts = 0 /\ kills = 0
            BY DEF Init
        <3>2. MaxDrafts \in Nat /\ MaxKills \in Nat
            BY RegistryAssumption
        <3>3. {cut, clash, stale, late} \subseteq BOOLEAN
            BY DEF Init
        <3>4. drafts \in 0..MaxDrafts /\ kills \in 0..MaxKills
            BY <3>1, <3>2
        <3> QED BY <3>3, <3>4
    <2> QED BY <2>1, <2>2, <2>3 DEF TypeOK, Held
<1>4. \A p \in Procs : Sound(proc[p], dirs, row)
    BY IdleSound DEF Init
<1> QED BY <1>3, <1>4 DEF Typed

(* What the steps do not touch. *)
LEMMA Untouched ==
    ASSUME Typed
    PROVE  /\ tree \in Trees /\ corpus \in Trees
           /\ drafts \in 0..MaxDrafts /\ kills \in 0..MaxKills /\ {cut, clash, stale, late} \subseteq BOOLEAN
           /\ DOMAIN dirs \subseteq Trees /\ DOMAIN row \subseteq DOMAIN dirs
           /\ \A v \in DOMAIN dirs : dirs[v] \in Trees
           /\ Build \in Procs /\ User \in Procs
BY DEF Typed, TypeOK, Procs

LEMMA TreeFiles == ASSUME NEW t \in Trees PROVE DOMAIN t \subseteq Files /\ \A f \in DOMAIN t : t[f] \in Contents
<1>1. PICK S \in SUBSET Files : t \in [S -> Contents]
    BY TreeIs
<1> QED BY <1>1

(* A draft. *)
LEMMA DraftTyped == ASSUME Typed, NEW p \in Procs, Draft(p) PROVE Typed'
<1> DEFINE r == proc[p]
<1>1. PICK e \in Edits(p) :
          LET v == [f \in DOMAIN tree \cup DOMAIN e |-> IF f \in DOMAIN e THEN e[f] ELSE tree[f]]
          IN  IF v \in DOMAIN dirs
              THEN proc' = [proc EXCEPT ![p].version = v] /\ UNCHANGED dirs
              ELSE /\ dirs' = With(dirs, v, <<>>)
                   /\ proc' = [proc EXCEPT ![p] = [@ EXCEPT !.version = v, !.left = DOMAIN v]]
    BY DEF Draft
<1> DEFINE v == [f \in DOMAIN tree \cup DOMAIN e |-> IF f \in DOMAIN e THEN e[f] ELSE tree[f]]
<1>2. e \in Trees
    <2>1. CASE At(p, "bootstrap")
        <3>1. PICK c \in 1..MaxContent : e = [f \in {"ontology", "policies"} |-> c]
            <4>1. Edits(p) = BootstrapEdits
                BY <2>1 DEF Edits, At
            <4> QED BY <1>1, <4>1 DEF BootstrapEdits
        <3>2. {"ontology", "policies"} \in SUBSET Files /\ c \in Contents
            BY RegistryAssumption DEF Contents
        <3>3. e \in [{"ontology", "policies"} -> Contents]
            BY <3>1, <3>2
        <3> QED BY <3>2, <3>3, TreeIs
    <2>2. CASE At(p, "evolution")
        <3>1. e \in [{"ontology"} -> {proc[p].loaded["ontology"] + 1} \cap Contents]
            BY <1>1, <2>2 DEF Edits, EvolutionEdits, At
        <3>2. {"ontology"} \in SUBSET Files /\ e \in [{"ontology"} -> Contents]
            BY <3>1, RegistryAssumption
        <3> QED BY <3>2, TreeIs
    <2>3. CASE At(p, "author")
        <3>1. e \in [{"new_set"} -> {1}]
            BY <1>1, <2>3 DEF Edits, AuthorEdits, At
        <3>2. {"new_set"} \in SUBSET Files /\ 1 \in Contents
            BY RegistryAssumption DEF Contents
        <3>3. e \in [{"new_set"} -> Contents]
            BY <3>1, <3>2
        <3> QED BY <3>2, <3>3, TreeIs
    <2> QED BY <2>1, <2>2, <2>3 DEF Draft, At
<1>3. v \in Trees
    BY <1>2, Untouched, Edited
<1>4. DOMAIN v \subseteq Files
    BY <1>3, TreeFiles
<1> HIDE DEF v
<1>5. r \in Held /\ Sound(r, dirs, row) /\ r.version = <<>> /\ r.pc \notin Changing /\ row' = row
    BY Holds DEF Draft, Changing
<1>6. r.left = {}
    BY <1>5, EmptyTree DEF Sound
<1>7. /\ tree' = tree /\ corpus' = corpus /\ kills' = kills /\ cut' = cut /\ clash' = clash /\ stale' = stale /\ late' = late
      /\ drafts' \in 0..MaxDrafts
    BY Untouched, RegistryAssumption DEF Draft
<1>8. CASE v \in DOMAIN dirs
    <2> DEFINE s == [r EXCEPT !.version = v]
    <2>1. proc' = [proc EXCEPT ![p] = s] /\ dirs' = dirs
        BY <1>1, <1>8 DEF v
    <2>2. Sound(s, dirs', row')
        <3>1. s \in Held /\ s.pc = r.pc /\ s.version = v /\ s.left = r.left
            BY <1>3, <1>5 DEF Held
        <3> HIDE DEF s
        <3> QED BY <1>5, <1>6, <1>8, <2>1, <3>1 DEF Sound, Changing
    <2>3. Grown
        BY <1>5, <2>1, Ungrown
    <2> HIDE DEF s
    <2> QED BY <1>7, <2>1, <2>2, <2>3, OneCommand, Untouched
<1>9. CASE v \notin DOMAIN dirs
    <2> DEFINE s == [r EXCEPT !.version = v, !.left = DOMAIN v]
    <2>1. proc' = [proc EXCEPT ![p] = s] /\ dirs' = With(dirs, v, <<>>)
        BY <1>1, <1>9 DEF v
    <2>2. DOMAIN dirs' = DOMAIN dirs \cup {v} /\ \A w \in DOMAIN dirs' : dirs'[w] = IF w = v THEN <<>> ELSE dirs[w]
        BY <2>1 DEF With
    <2>3. Sound(s, dirs', row')
        <3>1. s \in Held /\ s.pc = r.pc /\ s.version = v /\ s.left = DOMAIN v
            BY <1>3, <1>4, <1>5 DEF Held
        <3> HIDE DEF s
        <3> QED BY <1>5, <2>2, <3>1 DEF Sound, Changing
    <2>4. Grown
        BY <1>3, <1>5, <1>9, <2>2, EmptyTree DEF Grown, Typed, TypeOK
    <2> HIDE DEF s
    <2> QED BY <1>7, <2>1, <2>3, <2>4, OneCommand, Untouched
<1> QED BY <1>8, <1>9

(* A file is staged. *)
LEMMA StageTyped == ASSUME Typed, NEW p \in Procs, Stage(p) PROVE Typed'
<1> DEFINE r == proc[p]
<1>1. PICK f \in r.left :
          /\ dirs' = [dirs EXCEPT ![r.version] = With(@, f, r.version[f])]
          /\ proc' = [proc EXCEPT ![p].left = @ \ {f}]
    BY DEF Stage
<1>2. r \in Held /\ Sound(r, dirs, row)
    BY Holds
<1>3. r.pc \notin Changing /\ row' = row /\ tree' = tree /\ corpus' = corpus
      /\ drafts' = drafts /\ kills' = kills /\ cut' = cut /\ clash' = clash /\ stale' = stale /\ late' = late
    BY DEF Stage, Activating, Changing
<1>4. f \in DOMAIN r.version /\ r.version \in Trees /\ r.version \in DOMAIN dirs
    BY <1>2, <1>3, EmptyTree DEF Sound, Held
<1>5. f \in Files /\ r.version[f] \in Contents /\ dirs[r.version] \in Trees
    BY <1>4, TreeFiles, Untouched
<1> DEFINE t == With(dirs[r.version], f, r.version[f])
           s == [r EXCEPT !.left = r.left \ {f}]
<1>6. t \in Trees /\ DOMAIN t = DOMAIN dirs[r.version] \cup {f}
    BY <1>5, WithFile
<1>7. DOMAIN dirs' = DOMAIN dirs /\ \A w \in DOMAIN dirs : dirs'[w] = IF w = r.version THEN t ELSE dirs[w]
    BY <1>1, <1>4
<1>8. proc' = [proc EXCEPT ![p] = s]
    BY <1>1
<1> HIDE DEF t
<1>9. Sound(s, dirs', row')
    <2>1. s \in Held
        BY <1>2 DEF Held
    <2>2. s.pc = r.pc /\ s.version = r.version /\ s.left = r.left \ {f}
        BY <1>2 DEF Held
    <2> HIDE DEF s
    <2> QED BY <1>2, <1>3, <1>4, <1>7, <2>1, <2>2 DEF Sound, Changing
<1>10. Grown
    BY <1>3, <1>4, <1>6, <1>7 DEF Grown, Typed, TypeOK
<1> HIDE DEF s
<1> QED BY <1>3, <1>8, <1>9, <1>10, OneCommand, Untouched

(* Steps that write no row and stage no file. *)
LEMMA MovesTyped ==
    ASSUME Typed, NEW p \in Procs,
           \/ \E place \in {"open", "author"} : Open(p, place)
           \/ Unlink(p) \/ Copy(p) \/ Check(p) \/ Kill(p)
    PROVE  Typed'
<1> DEFINE r == proc[p]
<1>1. r \in Held /\ Sound(r, dirs, row)
    BY Holds
<1>2. dirs' = dirs /\ row' = row /\ drafts' = drafts
    BY DEF Open, Unlink, Copy, Check, Kill
<1>3. Grown
    BY <1>2, Ungrown
<1>4. /\ r.loaded \in Trees /\ r.version \in Trees /\ r.left \in SUBSET Files
      /\ r.version # <<>> => r.version \in DOMAIN dirs
      /\ r.pc \in Changing => r.version \in DOMAIN row /\ r.version \in DOMAIN dirs
    BY <1>1, Untouched DEF Held, Sound
<1>5. ASSUME NEW place \in {"open", "author"}, Open(p, place) PROVE Typed'
    <2> DEFINE s == [r EXCEPT !.pc = place, !.loaded = tree]
    <2>1. proc' = [proc EXCEPT ![p] = s]
        BY <1>5 DEF Open
    <2>2. /\ tree' = tree /\ corpus' = corpus /\ kills' = kills /\ cut' = cut /\ clash' = clash
          /\ late' = late /\ stale' \in {stale, Activating # {}} /\ r.pc = "idle"
        BY <1>5 DEF Open, At
    <2>3. place \in Places /\ place \notin Changing /\ place # "copy" /\ r.left \subseteq DOMAIN r.version
        BY <1>1, <2>2 DEF Places, Changing, Sound
    <2>4. s \in Held /\ s.pc = place /\ s.version = r.version /\ s.left = r.left
        BY <1>1, <2>3, Untouched DEF Held
    <2> HIDE DEF s
    <2>5. Sound(s, dirs', row')
        BY <1>2, <1>4, <2>3, <2>4 DEF Sound
    <2> QED BY <1>2, <1>3, <2>1, <2>2, <2>5, OneCommand, Untouched
<1>6. CASE Unlink(p)
    <2>1. r.pc = "unlink" /\ corpus' = corpus /\ kills' = kills /\ cut' = cut /\ clash' = clash /\ stale' = stale /\ late' = late
        BY <1>6 DEF Unlink, At
    <2>2. r.version \in DOMAIN row /\ r.version \in DOMAIN dirs
        BY <1>4, <2>1 DEF Changing
    <2>3. CASE r.left = {}
        <3> DEFINE s == [r EXCEPT !.pc = "copy", !.left = DOMAIN dirs[r.version]]
        <3>1. tree' = tree /\ proc' = [proc EXCEPT ![p] = s]
            BY <1>6, <2>3 DEF Unlink
        <3>2. DOMAIN dirs[r.version] \in SUBSET Files
            BY <2>2, TreeFiles, Untouched
        <3>3. "copy" \in Places /\ "copy" \in Changing
            BY DEF Places, Changing
        <3>4. s \in Held /\ s.pc = "copy" /\ s.version = r.version /\ s.left = DOMAIN dirs[r.version]
            BY <1>1, <3>2, <3>3 DEF Held
        <3> HIDE DEF s
        <3>5. Sound(s, dirs', row')
            BY <1>2, <1>4, <2>2, <3>3, <3>4 DEF Sound
        <3> QED BY <1>2, <1>3, <2>1, <3>1, <3>5, OneCommand, Untouched
    <2>4. CASE r.left # {} /\ First(r.left) \in DOMAIN tree
        <3>1. /\ tree' = [g \in DOMAIN tree \ {First(r.left)} |-> tree[g]]
              /\ proc' = [proc EXCEPT ![p].left = r.left \ {First(r.left)}]
            BY <1>6, <2>4 DEF Unlink
        <3> DEFINE s == [r EXCEPT !.left = r.left \ {First(r.left)}]
        <3>2. proc' = [proc EXCEPT ![p] = s]
            BY <3>1
        <3>3. tree' \in Trees
            BY <3>1, Without, Untouched
        <3>4. "unlink" \in Places /\ "unlink" \in Changing /\ r.left \ {First(r.left)} \in SUBSET Files
            BY <1>4 DEF Places, Changing
        <3>5. s \in Held /\ s.pc = "unlink" /\ s.version = r.version
            BY <1>1, <2>1, <3>4 DEF Held
        <3> HIDE DEF s
        <3>6. Sound(s, dirs', row')
            BY <1>2, <1>4, <2>2, <3>4, <3>5 DEF Sound
        <3> QED BY <1>2, <1>3, <2>1, <3>2, <3>3, <3>6, OneCommand, Untouched
    <2>5. CASE r.left # {} /\ First(r.left) \notin DOMAIN tree
        <3>1. tree' = tree /\ proc' = [proc EXCEPT ![p] = Idle]
            BY <1>6, <2>5 DEF Unlink, Ends
        <3> QED BY <1>2, <1>3, <2>1, <3>1, IdleSound, OneCommand, Untouched
    <2> QED BY <2>3, <2>4, <2>5
<1>7. CASE Copy(p)
    <2>1. /\ r.pc = "copy" /\ r.left # {} /\ corpus' = corpus /\ kills' = kills /\ cut' = cut /\ clash' = clash /\ stale' = stale /\ late' = late
          /\ tree' = With(tree, First(r.left), dirs[r.version][First(r.left)])
          /\ proc' = [proc EXCEPT ![p].left = r.left \ {First(r.left)}]
        BY <1>7 DEF Copy, At
    <2>2. r.version \in DOMAIN row /\ r.version \in DOMAIN dirs /\ r.left \subseteq DOMAIN dirs[r.version]
        BY <1>1, <1>4, <2>1 DEF Changing, Sound
    <2>3. First(r.left) \in r.left
        BY <1>4, <2>1, FirstIsLeft
    <2>4. First(r.left) \in Files /\ dirs[r.version][First(r.left)] \in Contents
        BY <2>2, <2>3, TreeFiles, Untouched
    <2>5. tree' \in Trees
        BY <2>1, <2>4, WithFile, Untouched
    <2> DEFINE s == [r EXCEPT !.left = r.left \ {First(r.left)}]
    <2>6. proc' = [proc EXCEPT ![p] = s]
        BY <2>1
    <2>7. "copy" \in Places /\ "copy" \in Changing /\ r.left \ {First(r.left)} \in SUBSET Files
        BY <1>4 DEF Places, Changing
    <2>8. s \in Held /\ s.pc = "copy" /\ s.version = r.version /\ s.left \subseteq r.left
        BY <1>1, <2>1, <2>7 DEF Held
    <2> HIDE DEF s
    <2>9. Sound(s, dirs', row')
        BY <1>2, <1>4, <2>2, <2>7, <2>8 DEF Sound
    <2> QED BY <1>2, <1>3, <2>1, <2>5, <2>6, <2>9, OneCommand, Untouched
<1>8. CASE Check(p)
    <2>1. /\ r.pc = "copy" /\ tree' = tree /\ corpus' = corpus /\ kills' = kills /\ cut' = cut /\ clash' = clash /\ stale' = stale /\ late' = late
          /\ \/ proc' = [proc EXCEPT ![p].pc = "commit"]
             \/ proc' = [proc EXCEPT ![p] = Idle]
        BY <1>8 DEF Check, At, Goes, Ends
    <2>2. r.version \in DOMAIN row /\ r.version \in DOMAIN dirs
        BY <1>4, <2>1 DEF Changing
    <2> DEFINE s == [r EXCEPT !.pc = "commit"]
    <2>3. \/ proc' = [proc EXCEPT ![p] = s]
          \/ proc' = [proc EXCEPT ![p] = Idle]
        BY <2>1
    <2>4. "commit" \in Places /\ "commit" \in Changing
        BY DEF Places, Changing
    <2>5. s \in Held /\ s.pc = "commit" /\ s.version = r.version
        BY <1>1, <2>4 DEF Held
    <2> HIDE DEF s
    <2>6. Sound(s, dirs', row')
        BY <1>2, <1>4, <2>2, <2>4, <2>5 DEF Sound
    <2> QED BY <1>2, <1>3, <2>1, <2>3, <2>6, IdleSound, OneCommand, Untouched
<1>9. CASE Kill(p)
    <2>1. /\ tree' = tree /\ corpus' = corpus /\ kills' \in 0..MaxKills /\ cut' = cut /\ clash' = clash /\ stale' = stale /\ late' = late
          /\ proc' = [proc EXCEPT ![p] = Idle]
        BY <1>9, Untouched, RegistryAssumption DEF Kill, Ends
    <2> QED BY <1>2, <1>3, <2>1, IdleSound, OneCommand, Untouched
<1> QED BY <1>5, <1>6, <1>7, <1>8, <1>9

(* The build writes the version that it has loaded. *)
LEMMA StagesTyped == ASSUME Typed, Setup \/ StageBegins PROVE Typed'
<1> DEFINE r == proc[Build]
<1>1. r \in Held /\ Sound(r, dirs, row) /\ Build \in Procs
    BY Holds, Untouched
<1>2. /\ tree' = tree /\ dirs' = dirs /\ row' = row /\ drafts' = drafts /\ kills' = kills
      /\ cut' = cut /\ clash' = clash /\ stale' = stale /\ late' = stale /\ corpus' = r.loaded
    BY DEF Setup, StageBegins, EnsureCorpus
<1>3. Grown /\ corpus' \in Trees
    BY <1>1, <1>2, Ungrown DEF Held
<1>4. PICK place \in {"bootstrap", "evolution"} :
          \/ r.pc = "open" /\ proc' = [proc EXCEPT ![Build].pc = place]
          \/ proc' = [proc EXCEPT ![Build] = Idle]
          \/ proc' = [proc EXCEPT ![Build] = r]
    <2>1. proc = [proc EXCEPT ![Build] = r]
        BY Holds, Untouched
    <2> QED BY <2>1 DEF Setup, StageBegins, Goes, Ends, At
<1> DEFINE s == [r EXCEPT !.pc = place]
<1>5. s \in Held /\ s.pc = place /\ s.version = r.version /\ s.left = r.left
    BY <1>1 DEF Held, Places
<1>6. CASE r.pc = "open" /\ proc' = [proc EXCEPT ![Build].pc = place]
    <2>1. proc' = [proc EXCEPT ![Build] = s]
        BY <1>6
    <2> HIDE DEF s
    <2>2. Sound(s, dirs', row')
        BY <1>1, <1>2, <1>5, <1>6 DEF Sound, Changing
    <2> QED BY <1>1, <1>2, <1>3, <2>1, <2>2, OneCommand, Untouched
<1>7. CASE proc' = [proc EXCEPT ![Build] = Idle]
    BY <1>1, <1>2, <1>3, <1>7, IdleSound, OneCommand, Untouched
<1>8. CASE proc' = [proc EXCEPT ![Build] = r]
    BY <1>1, <1>2, <1>3, <1>8, OneCommand, Untouched
<1> QED BY <1>4, <1>6, <1>7, <1>8

(* An activation begins. *)
LEMMA ActivateTyped ==
    ASSUME Typed, NEW p \in Procs, NEW v \in DOMAIN row', Activate(p, v), Grown,
           UNCHANGED <<tree, corpus, drafts, kills, late>>
    PROVE  Typed'
<1> DEFINE r == proc[p]
           s == [r EXCEPT !.pc = "unlink", !.version = v, !.left = DOMAIN tree]
<1>1. proc' = [proc EXCEPT ![p] = s]
    BY DEF Activate
<1>2. {cut', clash', stale'} \subseteq BOOLEAN
    BY Untouched DEF Activate
<1>3. v \in DOMAIN dirs' /\ v \in Trees /\ DOMAIN tree \in SUBSET Files
    BY Untouched, TreeFiles DEF Grown
<1>4. "unlink" \in Places /\ "unlink" \in Changing /\ r \in Held
    BY Holds DEF Places, Changing
<1>5. s \in Held /\ s.pc = "unlink" /\ s.version = v
    BY <1>3, <1>4 DEF Held
<1> HIDE DEF s
<1>6. Sound(s, dirs', row')
    BY <1>3, <1>4, <1>5 DEF Sound
<1> QED BY <1>1, <1>2, <1>6, OneCommand, Untouched

(* What the steps write about versions. *)
LEMMA RecordsTyped ==
    ASSUME Typed, \/ RecordNothing \/ RecordProposal \/ RecordApproval \/ NoDraft
                  \/ \E v \in DOMAIN dirs : Approve(v)
    PROVE  Typed'
<1> DEFINE r == proc[Build]
<1>1. r \in Held /\ Sound(r, dirs, row)
    BY Holds, Untouched
<1>2. /\ tree' = tree /\ dirs' = dirs /\ corpus' = corpus /\ drafts' = drafts /\ kills' = kills
      /\ cut' = cut /\ clash' = clash /\ stale' = stale /\ late' = late
    BY DEF RecordNothing, RecordProposal, RecordApproval, NoDraft, Approve
<1>3. r.version \in Trees /\ (r.version # <<>> => r.version \in DOMAIN dirs)
    BY <1>1 DEF Held, Sound
<1>4. CASE RecordNothing
    <2>1. row' = row /\ proc' = [proc EXCEPT ![User] = Idle]
        BY <1>4 DEF RecordNothing, Ends
    <2> QED BY <1>2, <2>1, IdleSound, OneCommand, Ungrown, Untouched
<1> DEFINE s == [r EXCEPT !.pc = "gate"]
<1>5. s \in Held /\ s.pc = "gate" /\ s.version = r.version /\ s.left = r.left
    BY <1>1 DEF Held, Places
<1>6. ASSUME Grown, r.pc = "bootstrap" PROVE Sound(s, dirs', row')
    <2> HIDE DEF s
    <2> QED BY <1>1, <1>2, <1>5, <1>6 DEF Sound, Changing
<1>7. ASSUME Goes(Build, "gate") PROVE proc' = [proc EXCEPT ![Build] = s]
    BY <1>7 DEF Goes
<1> HIDE DEF s
<1>8. CASE RecordProposal
    <2>1. r.version \in DOMAIN dirs /\ r.pc = "bootstrap"
        BY <1>3, <1>8 DEF RecordProposal, Staged, At
    <2>2. PICK x \in Rows : row' = With(row, r.version, x)
        BY <1>3, <1>8, RowsWritten DEF RecordProposal
    <2>3. Grown
        BY <1>2, <2>1, <2>2, RowWritten
    <2>4. proc' = [proc EXCEPT ![Build] = s]
        BY <1>7, <1>8 DEF RecordProposal
    <2> QED BY <1>2, <1>6, <2>1, <2>3, <2>4, OneCommand, Untouched
<1>9. CASE NoDraft
    <2>1. row' = row /\ Grown
        BY <1>2, <1>9, Ungrown DEF NoDraft
    <2>2. CASE At(Build, "bootstrap") /\ Goes(Build, "gate")
        <3>1. r.pc = "bootstrap"
            BY <2>2 DEF At
        <3> QED BY <1>2, <1>6, <1>7, <2>1, <2>2, <3>1, OneCommand, Untouched
    <2>3. CASE Ends(Build)
        <3>1. proc' = [proc EXCEPT ![Build] = Idle]
            BY <2>3 DEF Ends
        <3> QED BY <1>2, <2>1, <3>1, IdleSound, OneCommand, Untouched
    <2> QED BY <1>9, <2>2, <2>3 DEF NoDraft
<1>10. CASE RecordApproval
    <2>1. r.version \in DOMAIN dirs
        BY <1>3, <1>10 DEF RecordApproval, Staged
    <2>2. CASE Has(dirs[r.version], LintNeeds)
        <3>1. row' = ApprovedBy(r.version, "jev", "evolution") /\ proc' = proc
            BY <1>10, <2>2 DEF RecordApproval
        <3>2. PICK x \in Rows : row' = With(row, r.version, x)
            BY <3>1, RowsWritten DEF ApprovedBy
        <3>3. Grown
            BY <1>2, <2>1, <3>2, RowWritten
        <3> QED BY <1>2, <3>1, <3>3, Unmoved
    <2>3. CASE ~Has(dirs[r.version], LintNeeds)
        <3>1. row' = row /\ proc' = [proc EXCEPT ![Build] = Idle]
            BY <1>10, <2>3 DEF RecordApproval, Ends
        <3> QED BY <1>2, <3>1, IdleSound, OneCommand, Ungrown, Untouched
    <2> QED BY <2>2, <2>3
<1>11. ASSUME NEW v \in DOMAIN dirs, Approve(v) PROVE Typed'
    <2>1. row' = ApprovedBy(v, "human", Kind(v)) /\ proc' = proc
        BY <1>11 DEF Approve
    <2>2. PICK x \in Rows : row' = With(row, v, x)
        BY <2>1, RowsWritten DEF ApprovedBy
    <2>3. Grown
        BY <1>2, <1>11, <2>2, RowWritten
    <2> QED BY <1>2, <2>1, <2>3, Unmoved
<1> QED BY <1>4, <1>8, <1>9, <1>10, <1>11

(* Activations begin, and end. *)
LEMMA ActivationsTyped ==
    ASSUME Typed, \/ Gate
                  \/ \E v \in DOMAIN dirs : ActivateApproved(v)
                  \/ \E v \in DOMAIN row : ActivatePending(v)
                  \/ \E p \in Procs : Commit(p)
    PROVE  Typed'
<1>1. CASE Gate
    <2>1. tree' = tree /\ dirs' = dirs /\ corpus' = corpus /\ drafts' = drafts /\ kills' = kills /\ late' = late
        BY <1>1 DEF Gate
    <2>2. ASSUME NEW v \in DOMAIN row, row' = ApprovedBy(v, "human", "bootstrap"), Activate(Build, v)
          PROVE  Typed'
        <3>1. PICK x \in Rows : row' = With(row, v, x)
            BY <2>2, RowsWritten DEF ApprovedBy
        <3>2. Grown /\ v \in DOMAIN row'
            BY <2>1, <3>1, RowWritten, Untouched
        <3> QED BY <2>1, <2>2, <3>2, ActivateTyped, Untouched
    <2>3. CASE Ends(Build) /\ UNCHANGED <<row, cut, clash, stale>>
        <3>1. proc' = [proc EXCEPT ![Build] = Idle]
            BY <2>3 DEF Ends
        <3> QED BY <2>1, <2>3, <3>1, IdleSound, OneCommand, Ungrown, Untouched
    <2> QED BY <1>1, <2>2, <2>3 DEF Gate
<1>2. ASSUME NEW v \in DOMAIN dirs, ActivateApproved(v) PROVE Typed'
    BY <1>2, ActivateTyped, Ungrown, Untouched DEF ActivateApproved
<1>3. ASSUME NEW v \in DOMAIN row, ActivatePending(v) PROVE Typed'
    BY <1>3, ActivateTyped, Ungrown, Untouched DEF ActivatePending, Pending
<1>4. ASSUME NEW p \in Procs, Commit(p) PROVE Typed'
    <2> DEFINE r == proc[p]
               s == [Idle EXCEPT !.pc = "evolved", !.loaded = r.loaded]
    <2>1. /\ tree' = tree /\ dirs' = dirs /\ corpus' = r.version /\ drafts' = drafts /\ kills' = kills
          /\ {cut', late'} \subseteq BOOLEAN /\ clash' = clash /\ stale' = stale /\ r.pc = "commit"
          /\ (p = Build /\ proc' = [proc EXCEPT ![p] = s]) \/ proc' = [proc EXCEPT ![p] = Idle]
        BY <1>4 DEF Commit, Ends, At
    <2>2. DOMAIN row' = DOMAIN row /\ \A v \in DOMAIN row : row'[v] \in
              {row[v], [row[v] EXCEPT !.status = "active"], [row[v] EXCEPT !.status = "superseded"]}
        BY <1>4 DEF Commit
    <2>3. \A v \in DOMAIN row : row[v] \in Rows
        BY DEF Typed, TypeOK
    <2>4. \A v \in DOMAIN row' : row'[v] \in Rows
        BY <2>2, <2>3 DEF Rows
    <2>5. Grown
        BY <2>1, <2>2, <2>4 DEF Grown, Typed, TypeOK
    <2>6. r.version \in Trees /\ r.loaded \in Trees
        BY Holds DEF Held
    <2>7. s \in Held /\ s.pc = "evolved" /\ s.version = <<>> /\ s.left = {}
        BY <2>6, EmptyTree DEF Idle, Held, Places
    <2> HIDE DEF s
    <2>8. Sound(s, dirs', row')
        BY <2>7 DEF Sound, Changing
    <2> QED BY <2>1, <2>5, <2>6, <2>8, IdleSound, OneCommand, Untouched
<1> QED BY <1>1, <1>2, <1>3, <1>4

LEMMA TypedPreserved == Typed /\ [Next]_vars => Typed'
<1> SUFFICES ASSUME Typed, [Next]_vars PROVE Typed'
    OBVIOUS
<1>1. CASE UNCHANGED vars
    BY <1>1, Ungrown, Unmoved DEF vars
<1>2. ASSUME NEW p \in Procs, Step(p) PROVE Typed'
    BY <1>2, DraftTyped, StageTyped, MovesTyped, ActivationsTyped DEF Step
<1>3. CASE BuildStep
    <2>1. CASE StartBuild
        BY <2>1, MovesTyped, Untouched DEF StartBuild
    <2> QED BY <1>2, <1>3, <2>1, StagesTyped, RecordsTyped, ActivationsTyped, Untouched DEF BuildStep
<1>4. CASE UserStep
    BY <1>2, <1>4, RecordsTyped, Untouched DEF UserStep
<1>5. CASE StartAuthor
    BY <1>5, MovesTyped, Untouched DEF StartAuthor
<1>6. CASE \E v \in DOMAIN dirs : Approve(v) \/ ActivateApproved(v)
    BY <1>6, RecordsTyped, ActivationsTyped
<1>7. CASE \E p \in Procs : Kill(p)
    BY <1>7, MovesTyped
<1> QED BY <1>1, <1>3, <1>4, <1>5, <1>6, <1>7, StagesTyped DEF Next

-----------------------------------------------------------------------------
(* Type correctness: no sequence of builds, drafts, approvals, activations    *)
(* and kills (registry/versioning.py, gate.py) leaves a state that is none,   *)
(* and no command activates or approves a version that is not staged.         *)
THEOREM RegistryTypeCorrect == Spec => []TypeOK
<1>1. Typed => TypeOK
    BY DEF Typed
<1> QED BY InitTyped, TypedPreserved, <1>1, PTL DEF Spec

-----------------------------------------------------------------------------
(* The tree on disk, as long as no two activations overlap. *)

(* One command at a time changes the tree; from its first change to its       *)
(* transaction the activation counts as cut off, and before the transaction   *)
(* the tree is what it was to become.                                         *)
OneAtATime ==
    /\ \A p, q \in Activating : p = q
    /\ Activating # {} => cut
    /\ \A p \in Procs : At(p, "commit") => tree = proc[p].version

Matches ==
    ~cut => /\ late \/ corpus = tree
            /\ tree = Shipped \/ (tree \in DOMAIN row /\ row[tree].status \in {"active", "approved"})
            /\ \A v \in DOMAIN row : row[v].status = "active" => v = tree

Recorded == clash \/ (OneAtATime /\ Matches)

LEMMA ActivatingIs == \A p \in Procs : p \in Activating <=> proc[p].pc \in Changing
BY DEF Activating, Changing

(* A step of one command that begins no activation. *)
LEMMA StillOne ==
    ASSUME Typed, OneAtATime, NEW p \in Procs, NEW r, proc' = [proc EXCEPT ![p] = r], cut' = cut,
           r.pc \in Changing => p \in Activating,
           tree' = tree \/ p \in Activating,
           r.pc = "commit" => tree' = r.version
    PROVE  OneAtATime'
<1>1. proc \in [Procs -> Held]
    BY Holds
<1>2. \A q \in Procs : proc'[q] = IF q = p THEN r ELSE proc[q]
    BY <1>1
<1>3. \A q \in Activating' : q \in Activating
    BY <1>2 DEF Activating, Changing
<1>4. ASSUME NEW q \in Procs, proc'[q].pc = "commit" PROVE tree' = proc'[q].version
    <2>1. CASE q = p
        BY <1>2, <1>4, <2>1
    <2>2. CASE q # p
        <3>1. proc'[q] = proc[q] /\ q \in Activating
            BY <1>2, <1>4, <2>2 DEF Activating
        <3>2. tree' = tree
            BY <2>2, <3>1 DEF OneAtATime
        <3> QED BY <1>4, <3>1, <3>2 DEF OneAtATime, At
    <2> QED BY <2>1, <2>2
<1>5. \A q1, q2 \in Activating' : q1 = q2
    BY <1>3 DEF OneAtATime
<1>6. Activating' # {} => cut'
    BY <1>3 DEF OneAtATime
<1> QED BY <1>4, <1>5, <1>6 DEF OneAtATime, At

(* Rows may be added or approved again. *)
LEMMA StillMatches ==
    ASSUME Matches, cut' = cut, tree' = tree, corpus' = corpus, late' = late,
           DOMAIN row \subseteq DOMAIN row',
           \A v \in DOMAIN row' : row'[v].status = "active" => v \in DOMAIN row /\ row[v].status = "active",
           \A v \in DOMAIN row : row[v].status \in {"active", "approved"} => row'[v].status \in {"active", "approved"}
    PROVE  Matches'
BY DEF Matches

LEMMA InitRecorded == Init => Recorded
BY DEF Init, Recorded, OneAtATime, Matches, Activating, At, Idle

LEMMA IdleIs == Idle.pc \notin Changing /\ Idle.pc # "commit"
BY DEF Idle, Changing

(* A command writes a row, or none. *)
LEMMA RowIs ==
    ASSUME Typed, NEW v \in Trees
    PROVE  /\ \A by, kind : row' = ApprovedBy(v, by, kind) =>
                  /\ DOMAIN row \subseteq DOMAIN row'
                  /\ \A w \in DOMAIN row' : (w = v /\ row'[w].status = "approved") \/ (w \in DOMAIN row /\ row'[w] = row[w])
           /\ row' = Proposed(v, "bootstrap") =>
                  /\ DOMAIN row \subseteq DOMAIN row'
                  /\ \A w \in DOMAIN row' : \/ w \notin DOMAIN row /\ row'[w].status = "proposed"
                                            \/ w \in DOMAIN row /\ row'[w].status = row[w].status
<1>1. \A w \in DOMAIN row : row[w] \in Rows
    BY DEF Typed, TypeOK
<1>2. ASSUME NEW by, NEW kind, row' = ApprovedBy(v, by, kind)
      PROVE  /\ DOMAIN row \subseteq DOMAIN row'
             /\ \A w \in DOMAIN row' : (w = v /\ row'[w].status = "approved") \/ (w \in DOMAIN row /\ row'[w] = row[w])
    BY <1>2 DEF ApprovedBy, With
<1>3. ASSUME row' = Proposed(v, "bootstrap")
      PROVE  /\ DOMAIN row \subseteq DOMAIN row'
             /\ \A w \in DOMAIN row' : \/ w \notin DOMAIN row /\ row'[w].status = "proposed"
                                       \/ w \in DOMAIN row /\ row'[w].status = row[w].status
    BY <1>1, <1>3 DEF Proposed, With, Rows
<1> QED BY <1>2, <1>3

(* What a build has hashed is the tree, unless an activation has begun since. *)
Fresh ==
    /\ Activating # {} => stale
    /\ stale \/ At(Build, "idle") \/ proc[Build].loaded = tree

LEMMA InitFresh == Init => Fresh
BY DEF Init, Fresh, Activating, At, Idle, Procs

LEMMA StillFresh ==
    ASSUME Typed, Fresh, NEW p \in Procs, NEW r, proc' = [proc EXCEPT ![p] = r], stale' = stale,
           tree' = tree, r.pc \notin Changing,
           r.pc # "idle" => proc[p].pc # "idle" /\ r.loaded = proc[p].loaded
    PROVE  Fresh'
<1>1. \A q \in Procs : proc'[q] = IF q = p THEN r ELSE proc[q]
    BY Holds
<1>2. \A q \in Activating' : q \in Activating
    BY <1>1 DEF Activating, Changing
<1>3. Build \in Procs
    BY DEF Procs
<1> QED BY <1>1, <1>2, <1>3 DEF Fresh, At

LEMMA StaleFresh == ASSUME stale' PROVE Fresh'
BY DEF Fresh

LEMMA FreshPreserved == Typed /\ Fresh /\ [Next]_vars => Fresh'
<1> SUFFICES ASSUME Typed, Fresh, [Next]_vars PROVE Fresh'
    OBVIOUS
<1>1. CASE UNCHANGED vars
    BY <1>1 DEF vars, Fresh, Activating, At
<1>2. ASSUME NEW p \in Procs, Step(p) \/ Kill(p) PROVE Fresh'
    <2> DEFINE r == proc[p]
    <2>1. r \in Held
        BY Holds
    <2>2. CASE p \in Activating /\ ~Kill(p)
        <3>1. stale /\ stale' = stale
            BY <1>2, <2>2 DEF Fresh, Step, Draft, Stage, Unlink, Copy, Check, Commit
        <3> QED BY <3>1, StaleFresh
    <2>3. CASE Kill(p)
        BY <2>3, StillFresh, IdleIs DEF Kill, Ends, Idle
    <2>4. CASE p \notin Activating /\ ~Kill(p)
        <3>1. r.pc \notin Changing /\ tree' = tree /\ stale' = stale
            BY <1>2, <2>4, ActivatingIs DEF Step, Draft, Stage, Unlink, Copy, Check, Commit, At, Changing
        <3>2. CASE Draft(p)
            <4>1. PICK v : \/ proc' = [proc EXCEPT ![p].version = v]
                           \/ proc' = [proc EXCEPT ![p] = [@ EXCEPT !.version = v, !.left = DOMAIN v]]
                BY <3>2 DEF Draft
            <4> DEFINE s == [r EXCEPT !.version = v]
                       t == [r EXCEPT !.version = v, !.left = DOMAIN v]
            <4>2. s.pc = r.pc /\ t.pc = r.pc /\ s.loaded = r.loaded /\ t.loaded = r.loaded
                BY <2>1 DEF Held
            <4>3. proc' = [proc EXCEPT ![p] = s] \/ proc' = [proc EXCEPT ![p] = t]
                BY <4>1
            <4> HIDE DEF s, t
            <4> QED BY <3>1, <4>2, <4>3, StillFresh
        <3>3. CASE Stage(p)
            <4>1. PICK f \in r.left : proc' = [proc EXCEPT ![p].left = @ \ {f}]
                BY <3>3 DEF Stage
            <4> DEFINE s == [r EXCEPT !.left = @ \ {f}]
            <4>2. s.pc = r.pc /\ s.loaded = r.loaded
                BY <2>1 DEF Held
            <4>3. proc' = [proc EXCEPT ![p] = s]
                BY <4>1
            <4> HIDE DEF s
            <4> QED BY <3>1, <4>2, <4>3, StillFresh
        <3> QED BY <1>2, <2>4, <3>1, <3>2, <3>3 DEF Step, Unlink, Copy, Check, Commit, At, Changing
    <2> QED BY <2>2, <2>3, <2>4
<1>3. ASSUME NEW p \in Procs, NEW place \in {"open", "author"}, Open(p, place),
             p = Build \/ (p = User /\ stale' = stale)
      PROVE  Fresh'
    <2> DEFINE s == [proc[p] EXCEPT !.pc = place, !.loaded = tree]
    <2>1. s.pc \notin Changing /\ s.loaded = tree
        BY Holds DEF Held, Changing
    <2>2. proc' = [proc EXCEPT ![p] = s] /\ tree' = tree
        BY <1>3 DEF Open
    <2> HIDE DEF s
    <2>3. \A q \in Procs : proc'[q] = IF q = p THEN s ELSE proc[q]
        BY <2>2, Holds
    <2>4. \A q \in Activating' : q \in Activating
        BY <2>1, <2>3 DEF Activating, Changing
    <2>5. CASE p = Build
        <3>1. stale' = (Activating # {})
            BY <1>3, <2>5 DEF Open
        <3> QED BY <2>1, <2>2, <2>3, <2>4, <2>5, <3>1 DEF Fresh
    <2>6. CASE p = User /\ stale' = stale
        BY <2>2, <2>3, <2>4, <2>6, RegistryAssumption DEF Fresh, At, Procs
    <2> QED BY <1>3, <2>5, <2>6
<1>4. CASE StartBuild
    BY <1>3, <1>4, Untouched DEF StartBuild
<1>5. CASE StartAuthor
    <2>1. stale' = stale
        BY <1>5, RegistryAssumption DEF StartAuthor, Open
    <2> QED BY <1>3, <1>5, <2>1, Untouched DEF StartAuthor
<1>6. ASSUME NEW p \in Procs, NEW place \in {"gate", "bootstrap", "evolution"}, proc[p].pc # "idle",
             Goes(p, place), tree' = tree, stale' = stale
      PROVE  Fresh'
    <2> DEFINE s == [proc[p] EXCEPT !.pc = place]
    <2>1. s.pc \notin Changing /\ s.loaded = proc[p].loaded
        BY Holds DEF Held, Changing
    <2>2. proc' = [proc EXCEPT ![p] = s]
        BY <1>6 DEF Goes
    <2> HIDE DEF s
    <2> QED BY <1>6, <2>1, <2>2, StillFresh
<1>7. ASSUME NEW p \in Procs, Ends(p), tree' = tree, stale' = stale PROVE Fresh'
    BY <1>7, StillFresh, IdleIs DEF Ends, Idle
<1>8. ASSUME UNCHANGED <<proc, tree, stale>> PROVE Fresh'
    BY <1>8 DEF Fresh, Activating, At
<1>9. CASE Setup \/ StageBegins
    <2>1. tree' = tree /\ stale' = stale
        BY <1>9 DEF Setup, StageBegins
    <2> QED BY <1>6, <1>7, <1>8, <1>9, <2>1, Untouched DEF Setup, StageBegins, At
<1>10. CASE RecordNothing \/ RecordProposal \/ RecordApproval \/ NoDraft \/ \E v \in DOMAIN dirs : Approve(v)
    <2>1. tree' = tree /\ stale' = stale
        BY <1>10 DEF RecordNothing, RecordProposal, RecordApproval, NoDraft, Approve
    <2> QED BY <1>6, <1>7, <1>8, <1>10, <2>1, Untouched
            DEF RecordNothing, RecordProposal, RecordApproval, NoDraft, Approve, At
<1>11. CASE Gate
    BY <1>7, <1>11, StaleFresh, Untouched DEF Gate, Activate
<1>12. CASE (\E v \in DOMAIN row : ActivatePending(v)) \/ (\E v \in DOMAIN dirs : ActivateApproved(v))
    BY <1>12, StaleFresh DEF ActivatePending, ActivateApproved, Activate
<1>13. CASE BuildStep
    BY <1>2, <1>4, <1>9, <1>10, <1>11, <1>12, <1>13, Untouched DEF BuildStep
<1>14. CASE UserStep
    BY <1>2, <1>10, <1>14, Untouched DEF UserStep
<1> QED BY <1>1, <1>2, <1>5, <1>9, <1>10, <1>12, <1>13, <1>14 DEF Next

(* Steps outside activation. *)
LEMMA DraftingRecorded ==
    ASSUME Typed, Recorded, NEW p \in Procs,
           \/ \E place \in {"open", "author"} : Open(p, place)
           \/ Draft(p) \/ Stage(p) \/ Kill(p)
    PROVE  Recorded'
<1> DEFINE r == proc[p]
<1>1. r \in Held /\ clash' = clash /\ cut' = cut /\ tree' = tree /\ row' = row /\ corpus' = corpus /\ late' = late
    BY Holds DEF Open, Draft, Stage, Kill
<1>2. PICK s : proc' = [proc EXCEPT ![p] = s] /\ s.pc \notin Changing
    <2>1. ASSUME NEW place \in {"open", "author"}, Open(p, place)
          PROVE  \E s : proc' = [proc EXCEPT ![p] = s] /\ s.pc \notin Changing
        <3> DEFINE s == [r EXCEPT !.pc = place, !.loaded = tree]
        <3>1. s.pc \notin Changing
            BY <1>1 DEF Held, Changing
        <3>2. proc' = [proc EXCEPT ![p] = s]
            BY <2>1 DEF Open
        <3> HIDE DEF s
        <3> QED BY <3>1, <3>2
    <2>2. CASE Kill(p)
        BY <2>2, IdleIs DEF Kill, Ends
    <2>3. CASE Stage(p)
        <3>1. PICK f \in r.left : proc' = [proc EXCEPT ![p].left = @ \ {f}]
            BY <2>3 DEF Stage
        <3> DEFINE s == [r EXCEPT !.left = @ \ {f}]
        <3>2. s.pc \notin Changing
            BY <1>1, <2>3 DEF Held, Stage, Activating, Changing
        <3>3. proc' = [proc EXCEPT ![p] = s]
            BY <3>1
        <3> HIDE DEF s
        <3> QED BY <3>2, <3>3
    <2>4. CASE Draft(p)
        <3>1. PICK v : \/ proc' = [proc EXCEPT ![p].version = v]
                       \/ proc' = [proc EXCEPT ![p] = [@ EXCEPT !.version = v, !.left = DOMAIN v]]
            BY <2>4 DEF Draft
        <3>2. r.pc \notin Changing
            BY <2>4 DEF Draft, Changing
        <3> DEFINE s == [r EXCEPT !.version = v]
                   t == [r EXCEPT !.version = v, !.left = DOMAIN v]
        <3>3. s.pc \notin Changing /\ t.pc \notin Changing
            BY <1>1, <3>2 DEF Held
        <3>4. proc' = [proc EXCEPT ![p] = s] \/ proc' = [proc EXCEPT ![p] = t]
            BY <3>1
        <3> HIDE DEF s, t
        <3> QED BY <3>3, <3>4
    <2> QED BY <2>1, <2>2, <2>3, <2>4
<1>3. s.pc # "commit"
    BY <1>2 DEF Changing
<1>4. OneAtATime => OneAtATime'
    BY <1>1, <1>2, <1>3, StillOne
<1>5. Matches => Matches'
    BY <1>1 DEF Matches
<1> QED BY <1>1, <1>4, <1>5 DEF Recorded

LEMMA RecordsRecorded ==
    ASSUME Typed, Recorded, \/ RecordNothing \/ RecordProposal \/ RecordApproval \/ NoDraft
                            \/ \E v \in DOMAIN dirs : Approve(v)
    PROVE  Recorded'
<1>1. tree' = tree /\ corpus' = corpus /\ late' = late /\ cut' = cut /\ clash' = clash
    BY DEF RecordNothing, RecordProposal, RecordApproval, NoDraft, Approve
<1>2. PICK p \in Procs : \/ proc' = proc
                         \/ proc' = [proc EXCEPT ![p].pc = "gate"]
                         \/ proc' = [proc EXCEPT ![p] = Idle]
    BY Untouched DEF RecordNothing, RecordProposal, RecordApproval, NoDraft, Approve, Goes, Ends
<1>3. OneAtATime => OneAtATime'
    <2>1. CASE proc' = proc
        BY <1>1, <2>1 DEF OneAtATime, Activating, At
    <2>2. CASE proc' = [proc EXCEPT ![p].pc = "gate"]
        <3> DEFINE s == [proc[p] EXCEPT !.pc = "gate"]
        <3>1. s.pc \notin Changing /\ s.pc # "commit"
            BY Holds DEF Held, Changing
        <3>2. proc' = [proc EXCEPT ![p] = s]
            BY <2>2
        <3> HIDE DEF s
        <3> QED BY <1>1, <3>1, <3>2, StillOne
    <2>3. CASE proc' = [proc EXCEPT ![p] = Idle]
        BY <1>1, <2>3, IdleIs, StillOne
    <2> QED BY <1>2, <2>1, <2>2, <2>3
<1>4. PICK v \in Trees : \/ row' = row \/ row' = Proposed(v, "bootstrap")
                         \/ \E by, kind : row' = ApprovedBy(v, by, kind)
    <2>1. proc[Build].version \in Trees /\ DOMAIN dirs \subseteq Trees
        BY Holds, Untouched DEF Held
    <2> QED BY <2>1 DEF RecordNothing, RecordProposal, RecordApproval, NoDraft, Approve
<1>5. Matches => Matches'
    <2>1. /\ DOMAIN row \subseteq DOMAIN row'
          /\ \A w \in DOMAIN row' : \/ w \notin DOMAIN row /\ row'[w].status = "proposed"
                                    \/ row'[w].status = "approved"
                                    \/ w \in DOMAIN row /\ row'[w].status = row[w].status
        BY <1>4, RowIs
    <2> QED BY <1>1, <2>1, StillMatches
<1> QED BY <1>1, <1>3, <1>5 DEF Recorded

(* A stage of the build writes what it has hashed. *)
LEMMA StagesRecorded ==
    ASSUME Typed, Fresh, Recorded, Setup \/ StageBegins
    PROVE  Recorded'
<1>1. /\ tree' = tree /\ row' = row /\ cut' = cut /\ clash' = clash
      /\ corpus' = proc[Build].loaded /\ late' = stale /\ ~At(Build, "idle")
    BY DEF Setup, StageBegins, EnsureCorpus, At
<1>2. Matches => Matches'
    BY <1>1 DEF Fresh, Matches
<1>3. OneAtATime => OneAtATime'
    <2>1. ASSUME NEW place \in {"bootstrap", "evolution"}, Goes(Build, place)
          PROVE  \E r : proc' = [proc EXCEPT ![Build] = r] /\ r.pc \notin Changing
        <3> DEFINE s == [proc[Build] EXCEPT !.pc = place]
        <3>1. s.pc \notin Changing
            BY Holds, Untouched DEF Held, Changing
        <3>2. proc' = [proc EXCEPT ![Build] = s]
            BY <2>1 DEF Goes
        <3> HIDE DEF s
        <3> QED BY <3>1, <3>2
    <2>2. \/ proc' = proc
          \/ \E r : proc' = [proc EXCEPT ![Build] = r] /\ r.pc \notin Changing
        BY <2>1, IdleIs DEF Setup, StageBegins, Ends
    <2>3. CASE proc' = proc
        BY <1>1, <2>3 DEF OneAtATime, Activating, At
    <2>4. ASSUME NEW r, proc' = [proc EXCEPT ![Build] = r], r.pc \notin Changing
          PROVE  OneAtATime => OneAtATime'
        <3>1. r.pc # "commit"
            BY <2>4 DEF Changing
        <3> QED BY <1>1, <2>4, <3>1, StillOne, Untouched
    <2> QED BY <2>2, <2>3, <2>4
<1> QED BY <1>1, <1>2, <1>3 DEF Recorded

(* Steps of an activation. *)
LEMMA BeginsRecorded ==
    ASSUME Typed, Recorded, NEW p \in Procs, NEW v, Activate(p, v), tree' = tree
    PROVE  Recorded'
<1> SUFFICES ASSUME ~clash' PROVE OneAtATime' /\ Matches'
    BY DEF Recorded
<1>1. Activating = {} /\ cut'
    BY DEF Activate
<1> DEFINE s == [proc[p] EXCEPT !.pc = "unlink", !.version = v, !.left = DOMAIN tree]
<1>2. proc' = [proc EXCEPT ![p] = s]
    BY DEF Activate
<1>3. s.pc = "unlink" /\ proc \in [Procs -> Held]
    BY Holds DEF Held
<1> HIDE DEF s
<1>4. \A q \in Procs : proc'[q] = IF q = p THEN s ELSE proc[q]
    BY <1>2, <1>3
<1>5. \A q \in Procs : proc[q].pc \notin Changing
    BY <1>1, ActivatingIs
<1>6. OneAtATime'
    BY <1>1, <1>3, <1>4, <1>5 DEF OneAtATime, Activating, Changing, At
<1> QED BY <1>1, <1>6 DEF Matches

LEMMA ActivationsRecorded ==
    ASSUME Typed, Recorded, NEW p \in Procs, Unlink(p) \/ Copy(p) \/ Check(p)
    PROVE  Recorded'
<1> DEFINE r == proc[p]
<1>1. p \in Activating /\ r \in Held /\ cut' = cut /\ clash' = clash
    BY Holds DEF Unlink, Copy, Check, At, Activating
<1>2. OneAtATime => cut
    BY <1>1 DEF OneAtATime
<1>3. \E s : /\ proc' = [proc EXCEPT ![p] = s]
             /\ s.pc = "commit" => tree' = s.version
    <2>1. CASE Unlink(p)
        <3> DEFINE s == [r EXCEPT !.pc = "copy", !.left = DOMAIN dirs[r.version]]
                   t == [r EXCEPT !.left = r.left \ {First(r.left)}]
        <3>1. s.pc # "commit" /\ t.pc # "commit"
            BY <1>1, <2>1 DEF Held, Unlink, At
        <3>2. proc' \in {[proc EXCEPT ![p] = s], [proc EXCEPT ![p] = t], [proc EXCEPT ![p] = Idle]}
            BY <2>1 DEF Unlink, Ends
        <3> HIDE DEF s, t
        <3> QED BY <3>1, <3>2, IdleIs
    <2>2. CASE Copy(p)
        <3> DEFINE t == [r EXCEPT !.left = r.left \ {First(r.left)}]
        <3>1. t.pc # "commit"
            BY <1>1, <2>2 DEF Held, Copy, At
        <3>2. proc' = [proc EXCEPT ![p] = t]
            BY <2>2 DEF Copy
        <3> HIDE DEF t
        <3> QED BY <3>1, <3>2
    <2>3. CASE Check(p)
        <3> DEFINE t == [r EXCEPT !.pc = "commit"]
        <3>1. t.version = r.version /\ tree' = tree
            BY <1>1, <2>3 DEF Held, Check
        <3>2. \/ proc' = [proc EXCEPT ![p] = t] /\ tree = r.version
              \/ proc' = [proc EXCEPT ![p] = Idle]
            BY <2>3 DEF Check, Goes, Ends
        <3> HIDE DEF t
        <3> QED BY <3>1, <3>2, IdleIs
    <2> QED BY <2>1, <2>2, <2>3
<1>4. PICK s : /\ proc' = [proc EXCEPT ![p] = s]
               /\ s.pc = "commit" => tree' = s.version
    BY <1>3
<1>5. OneAtATime => OneAtATime'
    BY <1>1, <1>4, StillOne
<1>6. OneAtATime => Matches'
    BY <1>1, <1>2 DEF Matches
<1> QED BY <1>1, <1>5, <1>6 DEF Recorded

(* The transaction. *)
LEMMA CommitRecorded ==
    ASSUME Typed, Recorded, NEW p \in Procs, Commit(p)
    PROVE  Recorded'
<1> SUFFICES ASSUME OneAtATime, ~clash PROVE OneAtATime' /\ Matches'
    BY DEF Recorded, Commit
<1> DEFINE v == proc[p].version
<1>1. proc \in [Procs -> Held] /\ v \in DOMAIN row /\ p \in Activating
    BY Holds DEF Sound, Changing, Commit, At, Activating
<1>2. PICK r : /\ r.pc \notin Changing
               /\ \A q \in Procs : proc'[q] = IF q = p THEN r ELSE proc[q]
    <2> DEFINE s == [Idle EXCEPT !.pc = "evolved", !.loaded = proc[p].loaded]
    <2>1. s.pc \notin Changing
        BY DEF Idle, Changing
    <2>2. proc' = [proc EXCEPT ![p] = s] \/ proc' = [proc EXCEPT ![p] = Idle]
        BY DEF Commit, Ends
    <2> HIDE DEF s
    <2> QED BY <1>1, <2>1, <2>2, IdleIs
<1>3. \A q \in Procs : proc'[q].pc \notin Changing
    BY <1>1, <1>2, ActivatingIs DEF OneAtATime
<1>4. OneAtATime'
    BY <1>3 DEF OneAtATime, Activating, At, Changing
<1>5. tree' = v /\ corpus' = v
    BY DEF OneAtATime, Commit
<1>6. \A w \in DOMAIN row : row[w] \in Rows
    BY DEF Typed, TypeOK
<1>7. DOMAIN row' = DOMAIN row /\ row'[v].status = "active"
      /\ \A w \in DOMAIN row : row'[w].status = "active" => w = v
    BY <1>1, <1>6 DEF Commit, Rows
<1> QED BY <1>1, <1>4, <1>5, <1>7 DEF Matches

LEMMA RecordedPreserved == Typed /\ Fresh /\ Recorded /\ [Next]_vars => Recorded'
<1> SUFFICES ASSUME Typed, Fresh, Recorded, [Next]_vars PROVE Recorded'
    OBVIOUS
<1>1. CASE UNCHANGED vars
    BY <1>1 DEF vars, Recorded, OneAtATime, Matches, Activating, At
<1>2. ASSUME NEW p \in Procs, Step(p) PROVE Recorded'
    BY <1>2, DraftingRecorded, ActivationsRecorded, CommitRecorded DEF Step
<1>3. CASE BuildStep
    <2>1. CASE StartBuild
        BY <2>1, DraftingRecorded, Untouched DEF StartBuild
    <2>2. CASE Gate
        <3>1. tree' = tree
            BY <2>2 DEF Gate
        <3>2. CASE \E v : Activate(Build, v)
            BY <3>1, <3>2, BeginsRecorded, Untouched
        <3>3. CASE Ends(Build) /\ UNCHANGED <<row, cut, clash, stale>>
            <4>1. proc' = [proc EXCEPT ![Build] = Idle] /\ corpus' = corpus /\ late' = late
                BY <2>2, <3>3 DEF Ends, Gate
            <4>2. OneAtATime => OneAtATime'
                BY <3>1, <3>3, <4>1, StillOne, IdleIs, Untouched
            <4> QED BY <3>1, <3>3, <4>1, <4>2 DEF Recorded, Matches
        <3> QED BY <2>2, <3>2, <3>3 DEF Gate
    <2>3. CASE \E v \in DOMAIN row : ActivatePending(v)
        BY <2>3, BeginsRecorded, Untouched DEF ActivatePending
    <2> QED BY <1>2, <1>3, <2>1, <2>2, <2>3, StagesRecorded, RecordsRecorded, Untouched DEF BuildStep
<1>4. CASE UserStep
    BY <1>2, <1>4, RecordsRecorded, Untouched DEF UserStep
<1>5. CASE StartAuthor
    BY <1>5, DraftingRecorded, Untouched DEF StartAuthor
<1>6. ASSUME NEW v \in DOMAIN dirs, Approve(v) \/ ActivateApproved(v) PROVE Recorded'
    BY <1>6, RecordsRecorded, BeginsRecorded, Untouched DEF ActivateApproved
<1>7. CASE \E p \in Procs : Kill(p)
    BY <1>7, DraftingRecorded
<1> QED BY <1>1, <1>3, <1>4, <1>5, <1>6, <1>7, StagesRecorded DEF Next

(* Between activations the tree is the shipped one or one that was approved,  *)
(* and no row but its own is active (versioning.activate, gate.activate): for  *)
(* any files, any number of drafts, of commands killed, and of approvals      *)
(* taken again, as long as no activation was cut off and no two overlapped.   *)
(* The corpus records that tree, unless a build was the last to write it, with *)
(* the hash it took before an activation (common.ensure_corpus).              *)
THEOREM ActivationLands == Spec => []TreeAsRecorded
<1>1. Typed /\ Recorded => TreeAsRecorded
    BY DEF Typed, Recorded, Matches, TreeAsRecorded
<1> QED BY InitTyped, TypedPreserved, InitFresh, FreshPreserved, InitRecorded, RecordedPreserved, <1>1, PTL DEF Spec
=============================================================================
