---------------------------- MODULE PublishProofs ----------------------------
(***************************************************************************)
(* Theorems about Publish for any tables, references, contents and people, *)
(* any number of interruptions of both kinds, and edits at any time.       *)
(*                                                                         *)
(* Loading resumes by numbers of rows, so what is whole is proved for a    *)
(* source whose tables never return to an earlier number of rows.  Then    *)
(* the same of CloudPublish, and of PublishTargets: either target.         *)
(***************************************************************************)
EXTENDS PublishTargets, TLAPS, FiniteSetTheorems

-----------------------------------------------------------------------------
(* Type correctness. *)

LEMMA DatabaseUpdates ==
    ASSUME NEW d \in Database, NEW T \in SUBSET Tables, NEW S \in SUBSET People, NEW a \in BOOLEAN
    PROVE  /\ [d EXCEPT !.tables = [t \in Tables |-> IF t \in T THEN Empty ELSE @[t]]] \in Database
           /\ [d EXCEPT !.progress = [t \in Tables |-> IF t \in T THEN None ELSE @[t]]] \in Database
           /\ [d EXCEPT !.indexed = T] \in Database
           /\ [d EXCEPT !.signIns = S] \in Database
           /\ [d EXCEPT !.allow = a] \in Database
<1> USE DEF Database
<1>1. d.tables \in [Tables -> Contents \cup {Empty}] /\ d.progress \in [Tables -> Counts \cup {None}]
    OBVIOUS
<1>2. [t \in Tables |-> IF t \in T THEN Empty ELSE d.tables[t]] \in [Tables -> Contents \cup {Empty}]
    BY <1>1
<1>3. [t \in Tables |-> IF t \in T THEN None ELSE d.progress[t]] \in [Tables -> Counts \cup {None}]
    BY <1>1
<1> QED BY <1>2, <1>3

LEMMA CreatedOK == Created \in Database
BY DEF Created, Database

LEMMA InitTypeOK == Init => TypeOK
<1> SUFFICES ASSUME Init PROVE TypeOK
    OBVIOUS
<1> USE PublishAssumption DEF Init
<1>1. source \in [Tables -> Contents]
    OBVIOUS
<1>2. db \in [Names -> Database \cup {Absent}]
    OBVIOUS
<1>3. phase \in Phases
    BY DEF Phases
<1>4. replace \in BOOLEAN /\ todo \subseteq Tables /\ killed \in BOOLEAN
    OBVIOUS
<1>5. faults \in 0..MaxFaults
    OBVIOUS
<1> QED BY <1>1, <1>2, <1>3, <1>4, <1>5 DEF TypeOK

(* Where the publish is says which databases exist. *)
Begun == {"begun", "planned", "truncated", "loading", "indexing"}
Swapping == {"dropping", "closing", "closed"}
Whereabouts ==
    /\ phase \notin {"idle", "rescuing"} => db["next"] # Absent
    /\ phase \in Begun => (replace <=> db["name"] # Absent)
    /\ phase \in {"carrying"} \cup Swapping \cup {"rescuing"} => db["name"] # Absent
    /\ phase \in {"closing", "closed", "rescuing"} => db["prev"] = Absent
    /\ phase = "reopening" => db["name"] = Absent /\ db["prev"] # Absent
    /\ phase = "renaming" => db["name"] = Absent
    /\ db["name"] = Absent /\ db["prev"] # Absent => db["next"] # Absent

Located == TypeOK /\ Whereabouts

LEMMA InitLocated == Init => Located
BY InitTypeOK DEF Init, Located, Whereabouts, Begun, Swapping, Names

(* A step that replaces one database by another keeps the type. *)
LEMMA OneReplaced ==
    ASSUME TypeOK, NEW n \in Names, NEW d \in Database \cup {Absent}
    PROVE  [db EXCEPT ![n] = d] \in [Names -> Database \cup {Absent}]
BY DEF TypeOK

(* A statement on a database that is there leaves a database. *)
Edited(n) == db[n] # Absent /\ \E d \in Database : db' = [db EXCEPT ![n] = d]

LEMMA EditedSteps ==
    ASSUME Located
    PROVE  /\ \A u \in People : SignIn(u) => Edited("name")
           /\ Truncate \/ ForgetProgress \/ CarrySignIns => Edited("next")
           /\ \A t \in Tables : DropIndex(t) \/ BuildIndex(t) => Edited("next")
           /\ \A i \in DOMAIN Order : Copy(i) => Edited("next")
           /\ CloseName => Edited("name")
           /\ Reopen => Edited(IF db["prev"] # Absent THEN "prev" ELSE "name")
<1> USE PublishAssumption DEF Edited
<1>1. TypeOK /\ Whereabouts
    BY DEF Located
<1>2. {"name", "next", "prev"} \subseteq Names /\ \A n \in Names : db[n] # Absent => db[n] \in Database
    BY <1>1 DEF Names, TypeOK
<1> DEFINE name == db["name"]
           next == db["next"]
<1>3. ASSUME NEW u \in People, SignIn(u) PROVE Edited("name")
    <2>1. name \in Database /\ db' = [db EXCEPT !["name"] = [name EXCEPT !.signIns = name.signIns \cup {u}]]
        BY <1>2, <1>3 DEF SignIn
    <2>2. name.signIns \cup {u} \in SUBSET People
        BY <2>1 DEF Database
    <2>3. [name EXCEPT !.signIns = name.signIns \cup {u}] \in Database
        BY <2>1, <2>2, DatabaseUpdates
    <2> QED BY <1>3, <2>1, <2>3 DEF SignIn
<1>4. ASSUME Truncate PROVE Edited("next")
    <2>1. next \in Database /\ todo \in SUBSET Tables /\ next # Absent
        BY <1>1, <1>2, <1>4 DEF Truncate, Whereabouts, TypeOK
    <2>2. db' = [db EXCEPT !["next"] = [next EXCEPT !.tables = [t \in Tables |-> IF t \in todo THEN Empty ELSE @[t]]]]
        BY <1>4 DEF Truncate
    <2> QED BY <2>1, <2>2, DatabaseUpdates
<1>5. ASSUME ForgetProgress PROVE Edited("next")
    <2>1. next \in Database /\ todo \in SUBSET Tables /\ next # Absent
        BY <1>1, <1>2, <1>5 DEF ForgetProgress, Whereabouts, TypeOK
    <2>2. db' = [db EXCEPT !["next"] = [next EXCEPT !.progress = [t \in Tables |-> IF t \in todo THEN None ELSE @[t]]]]
        BY <1>5 DEF ForgetProgress
    <2> QED BY <2>1, <2>2, DatabaseUpdates
<1>6. ASSUME NEW t \in Tables, DropIndex(t) \/ BuildIndex(t) PROVE Edited("next")
    <2>1. next \in Database /\ next # Absent
        BY <1>1, <1>2, <1>6 DEF DropIndex, BuildIndex, Whereabouts
    <2>2. PICK T \in SUBSET Tables : db' = [db EXCEPT !["next"] = [next EXCEPT !.indexed = T]]
        <3>1. next.indexed \in SUBSET Tables
            BY <2>1 DEF Database
        <3> QED BY <1>6, <3>1 DEF DropIndex, BuildIndex
    <2> QED BY <2>1, <2>2, DatabaseUpdates
<1>7. ASSUME NEW i \in DOMAIN Order, Copy(i) PROVE Edited("next")
    <2> DEFINE t == Order[i]
               d == [[next EXCEPT !.tables[t] = source[t]] EXCEPT !.progress[t] = Rows(source[t])]
    <2>1. next \in Database /\ next # Absent /\ t \in Tables
        BY <1>1, <1>2, <1>7 DEF Copy, Whereabouts, TypeOK
    <2>2. db' = [db EXCEPT !["next"] = d]
        <3>1. db' = [db EXCEPT !["next"].tables[t] = source[t], !["next"].progress[t] = Rows(source[t])]
            BY <1>7 DEF Copy
        <3>2. DOMAIN db = Names /\ "next" \in Names
            BY <1>1 DEF TypeOK, Names
        <3> QED BY <3>1, <3>2
    <2>3. source[t] \in Contents /\ Rows(source[t]) \in Counts
        BY <1>1, <2>1 DEF TypeOK, Rows, Counts
    <2>4. d \in Database
        BY <2>1, <2>3 DEF Database
    <2> QED BY <2>1, <2>2, <2>4
<1>8. ASSUME CarrySignIns PROVE Edited("next")
    <2>1. next \in Database /\ name \in Database /\ next # Absent
        BY <1>1, <1>2, <1>8 DEF CarrySignIns, Whereabouts
    <2>2. name.signIns \in SUBSET People
        BY <2>1 DEF Database
    <2>3. db' = [db EXCEPT !["next"] = [next EXCEPT !.signIns = name.signIns]]
        BY <1>8 DEF CarrySignIns
    <2> QED BY <2>1, <2>2, <2>3, DatabaseUpdates
<1>9. ASSUME CloseName PROVE Edited("name")
    <2>1. name \in Database /\ name # Absent
        BY <1>1, <1>2, <1>9 DEF CloseName, Whereabouts, Swapping
    <2>2. db' = [db EXCEPT !["name"] = [name EXCEPT !.allow = FALSE]]
        BY <1>9 DEF CloseName
    <2> QED BY <2>1, <2>2, DatabaseUpdates
<1>10. ASSUME Reopen PROVE Edited(IF db["prev"] # Absent THEN "prev" ELSE "name")
    <2> DEFINE current == IF db["prev"] # Absent THEN "prev" ELSE "name"
    <2>1. db[current] \in Database /\ db[current] # Absent
        BY <1>1, <1>2, <1>10 DEF Reopen, Whereabouts
    <2>2. db' = [db EXCEPT ![current] = [db[current] EXCEPT !.allow = TRUE]]
        BY <1>10 DEF Reopen
    <2> QED BY <2>1, <2>2, DatabaseUpdates
<1> QED BY <1>3, <1>4, <1>5, <1>6, <1>7, <1>8, <1>9, <1>10

(* What an edited database changes of the rest. *)
LEMMA EditedKeeps ==
    ASSUME TypeOK, NEW n \in Names, Edited(n)
    PROVE  /\ db' \in [Names -> Database \cup {Absent}]
           /\ db'[n] # Absent
           /\ \A m \in Names \ {n} : db'[m] = db[m]
BY AbsentAssumption DEF TypeOK, Edited

LEMMA TypePreserved == Located /\ [Next]_vars => TypeOK'
<1> SUFFICES ASSUME Located, [Next]_vars PROVE TypeOK'
    OBVIOUS
<1> USE PublishAssumption
<1>1. TypeOK /\ {"name", "next", "prev"} = Names
    BY DEF Located, Names
<1>2. ASSUME NEW t \in Tables, Edit(t) PROVE TypeOK'
    <2>1. PICK e \in Edits : source' = [source EXCEPT ![t] = e[2]]
        BY <1>2 DEF Edit
    <2>2. source' \in [Tables -> Contents]
        BY <1>1, <2>1 DEF TypeOK
    <2> QED BY <1>1, <1>2, <2>2 DEF TypeOK, Edit
<1>3. ASSUME NEW u \in People, SignIn(u) PROVE TypeOK'
    BY <1>1, <1>3, EditedSteps, EditedKeeps DEF TypeOK, SignIn
<1>4. CASE Begin
    <2>1. db' \in [Names -> Database \cup {Absent}]
        BY <1>1, <1>4, CreatedOK, OneReplaced DEF Begin, TypeOK
    <2> QED BY <1>1, <1>4, <2>1 DEF TypeOK, Begin, Phases
<1>5. CASE Plan
    BY <1>1, <1>5 DEF TypeOK, Plan, Phases, Emptied
<1>6. CASE Truncate
    <2>1. db' \in [Names -> Database \cup {Absent}]
        BY <1>1, <1>6, EditedSteps, EditedKeeps
    <2> QED BY <1>1, <1>6, <2>1 DEF TypeOK, Truncate, Phases
<1>7. CASE ForgetProgress
    <2>1. db' \in [Names -> Database \cup {Absent}]
        BY <1>1, <1>7, EditedSteps, EditedKeeps
    <2> QED BY <1>1, <1>7, <2>1 DEF TypeOK, ForgetProgress, Phases
<1>8. ASSUME NEW t \in Tables, DropIndex(t) \/ BuildIndex(t) PROVE TypeOK'
    <2>1. db' \in [Names -> Database \cup {Absent}]
        BY <1>1, <1>8, EditedSteps, EditedKeeps
    <2> QED BY <1>1, <1>8, <2>1 DEF TypeOK, DropIndex, BuildIndex
<1>9. ASSUME NEW i \in DOMAIN Order, Copy(i) PROVE TypeOK'
    <2>1. db' \in [Names -> Database \cup {Absent}]
        BY <1>1, <1>9, EditedSteps, EditedKeeps
    <2> QED BY <1>1, <1>9, <2>1 DEF TypeOK, Copy, Phases
<1>10. CASE Loaded \/ CarryRefused
    BY <1>1, <1>10 DEF TypeOK, Loaded, CarryRefused, Phases
<1>11. CASE CarrySignIns
    <2>1. db' \in [Names -> Database \cup {Absent}]
        BY <1>1, <1>11, EditedSteps, EditedKeeps
    <2> QED BY <1>1, <1>11, <2>1 DEF TypeOK, CarrySignIns, Phases
<1>12. CASE DropPrev \/ RenameName \/ RenameNext
    BY <1>1, <1>12 DEF TypeOK, DropPrev, RenameName, RenameNext, Phases
<1>13. CASE CloseName
    <2>1. db' \in [Names -> Database \cup {Absent}]
        BY <1>1, <1>13, EditedSteps, EditedKeeps
    <2> QED BY <1>1, <1>13, <2>1 DEF TypeOK, CloseName, Phases
<1>14. CASE Reopen
    <2>1. db' \in [Names -> Database \cup {Absent}]
        BY <1>1, <1>14, EditedSteps, EditedKeeps
    <2> QED BY <1>1, <1>14, <2>1 DEF TypeOK, Reopen, Phases
<1>15. CASE Error \/ Kill
    <2>1. faults' \in 0..MaxFaults
        BY <1>1, <1>15 DEF TypeOK, Error, Kill
    <2>2. phase' \in Phases /\ killed' \in BOOLEAN
        BY <1>1, <1>15 DEF TypeOK, Error, Kill, Phases
    <2> QED BY <1>1, <1>15, <2>1, <2>2 DEF TypeOK, Error, Kill
<1>16. CASE UNCHANGED vars
    BY <1>1, <1>16 DEF TypeOK, vars
<1> QED BY <1>2, <1>3, <1>4, <1>5, <1>6, <1>7, <1>8, <1>9, <1>10, <1>11, <1>12, <1>13, <1>14, <1>15, <1>16
        DEF Next, Step

LEMMA NextLocated == Located /\ [Next]_vars => Located'
<1> SUFFICES ASSUME Located, [Next]_vars PROVE Whereabouts'
    BY TypePreserved DEF Located
<1> USE DEF Whereabouts, Begun, Swapping
<1>1. /\ TypeOK /\ Whereabouts /\ Created # Absent
      /\ {"name", "next", "prev"} = Names /\ DOMAIN db = Names
    BY AbsentAssumption, CreatedOK DEF Located, Names, TypeOK
<1>2. CASE (\E t \in Tables : Edit(t)) \/ Plan \/ Loaded \/ CarryRefused \/ Error \/ Kill \/ UNCHANGED vars
    BY <1>1, <1>2 DEF Edit, Plan, Loaded, CarryRefused, Error, Kill, vars
<1>3. ASSUME NEW u \in People, SignIn(u) PROVE Whereabouts'
    BY <1>1, <1>3, EditedSteps, EditedKeeps DEF SignIn
<1>4. CASE Begin
    BY <1>1, <1>4 DEF Begin
<1>5. CASE Truncate \/ ForgetProgress \/ CarrySignIns
    BY <1>1, <1>5, EditedSteps, EditedKeeps DEF Truncate, ForgetProgress, CarrySignIns
<1>6. ASSUME NEW t \in Tables, DropIndex(t) \/ BuildIndex(t) PROVE Whereabouts'
    BY <1>1, <1>6, EditedSteps, EditedKeeps DEF DropIndex, BuildIndex
<1>7. ASSUME NEW i \in DOMAIN Order, Copy(i) PROVE Whereabouts'
    BY <1>1, <1>7, EditedSteps, EditedKeeps DEF Copy
<1>8. CASE CloseName
    BY <1>1, <1>8, EditedSteps, EditedKeeps DEF CloseName
<1>9. CASE Reopen
    BY <1>1, <1>9, EditedSteps, EditedKeeps DEF Reopen
<1>10. CASE DropPrev \/ RenameName \/ RenameNext
    BY <1>1, <1>10 DEF DropPrev, RenameName, RenameNext
<1> QED BY <1>2, <1>3, <1>4, <1>5, <1>6, <1>7, <1>8, <1>9, <1>10 DEF Next, Step

(* Type correctness: every database, and the publish's locals, stay in the   *)
(* states the code knows, and a step finds the databases it works on.        *)
THEOREM PublishTypeCorrect == Spec => []TypeOK
<1>1. Init => Located
    BY InitLocated
<1>2. Located /\ [Next]_vars => Located'
    BY NextLocated
<1>3. Located => TypeOK
    BY DEF Located
<1> QED BY <1>1, <1>2, <1>3, PTL DEF Spec

-----------------------------------------------------------------------------
(* Sign-ins. *)

(* What the next database has carried over when it takes the name. *)
Carried ==
    /\ phase \in Swapping => db["name"].signIns \subseteq db["next"].signIns
    /\ db["name"] = Absent /\ db["prev"] # Absent => db["prev"].signIns \subseteq db["next"].signIns
    /\ NobodySignedOut

(* The statements between which sign-ins are only moved, not made. *)
LEMMA SignInsKept ==
    ASSUME Located,
           \/ Truncate \/ ForgetProgress \/ CloseName \/ Reopen
           \/ \E t \in Tables : DropIndex(t) \/ BuildIndex(t)
           \/ \E i \in DOMAIN Order : Copy(i)
    PROVE  \A n \in Names : (db'[n] = Absent <=> db[n] = Absent)
                            /\ (db[n] # Absent => db'[n].signIns = db[n].signIns)
<1> DEFINE Keeps(n) == db[n] # Absent => db'[n].signIns = db[n].signIns
<1>1. /\ TypeOK /\ Whereabouts /\ {"name", "next", "prev"} = Names /\ DOMAIN db = Names
      /\ \A n \in Names : db[n] # Absent => db[n] \in Database
    BY DEF Located, Names, TypeOK
<1>2. ASSUME NEW d \in Database PROVE DOMAIN d = {"tables", "progress", "indexed", "signIns", "allow"}
    BY DEF Database
<1>3. \A n \in Names : db'[n] = Absent <=> db[n] = Absent
    <2>1. \E n \in Names : Edited(n)
        BY <1>1, EditedSteps
    <2> QED BY <1>1, <2>1, EditedKeeps DEF Edited
<1>4. CASE Truncate \/ ForgetProgress
    <2>1. db["next"] \in Database /\ "next" \in DOMAIN db
        BY <1>1, <1>4 DEF Truncate, ForgetProgress, Whereabouts
    <2>2. \A n \in Names : Keeps(n)
        BY <1>1, <1>2, <1>4, <2>1 DEF Truncate, ForgetProgress
    <2> QED BY <1>3, <2>2
<1>5. CASE CloseName
    BY <1>1, <1>2, <1>3, <1>5 DEF CloseName
<1>6. CASE Reopen
    BY <1>1, <1>2, <1>3, <1>6 DEF Reopen
<1>7. CASE \E t \in Tables : DropIndex(t) \/ BuildIndex(t)
    BY <1>1, <1>2, <1>3, <1>7 DEF DropIndex, BuildIndex
<1>8. CASE \E i \in DOMAIN Order : Copy(i)
    <2>1. PICK i \in DOMAIN Order : Copy(i)
        BY <1>8
    <2>2. db["next"] \in Database /\ "next" \in DOMAIN db
        BY <1>1, <2>1 DEF Copy, Whereabouts
    <2>3. db'["next"] = [[db["next"] EXCEPT !.tables[Order[i]] = source[Order[i]]]
                            EXCEPT !.progress[Order[i]] = Rows(source[Order[i]])]
        BY <2>1, <2>2 DEF Copy
    <2>4. db'["next"].signIns = db["next"].signIns
        BY <1>2, <2>2, <2>3
    <2>5. \A n \in Names \ {"next"} : db'[n] = db[n]
        BY <1>1, <2>1 DEF Copy
    <2> QED BY <1>3, <2>4, <2>5
<1> QED BY <1>4, <1>5, <1>6, <1>7, <1>8

LEMMA NextCarried == ~LateSignIns /\ Located /\ Carried /\ [Next]_vars => Carried'
<1> SUFFICES ASSUME ~LateSignIns, Located, Carried, [Next]_vars PROVE Carried'
    OBVIOUS
<1> USE DEF Carried, NobodySignedOut
<1>1. /\ TypeOK /\ Whereabouts /\ {"name", "next", "prev"} = Names /\ DOMAIN db = Names
      /\ \A n \in Names : db[n] # Absent => db[n] \in Database
    BY DEF Located, Names, TypeOK
<1>2. Whereabouts'
    BY NextLocated DEF Located
<1>3. CASE (\E t \in Tables : Edit(t)) \/ Plan \/ Loaded \/ CarryRefused \/ Error \/ Kill \/ UNCHANGED vars
    BY <1>3 DEF Edit, Plan, Loaded, CarryRefused, Error, Kill, vars, Swapping
<1>4. ASSUME NEW u \in People, SignIn(u) PROVE Carried'
    <2>1. db["name"] \in Database /\ db["name"].signIns \subseteq db'["name"].signIns
        BY <1>1, <1>4 DEF SignIn, Database
    <2>2. \A n \in {"next", "prev"} : db'[n] = db[n]
        BY <1>1, <1>4 DEF SignIn
    <2>3. db'["name"] # Absent /\ phase' \notin Swapping
        BY <1>1, <1>4, EditedSteps, EditedKeeps DEF SignIn, Swapping
    <2> QED BY <1>4, <2>1, <2>2, <2>3 DEF SignIn
<1>5. CASE Begin
    <2>1. db'["name"] = db["name"] /\ db'["prev"] = db["prev"] /\ (db["next"] # Absent => db' = db)
        BY <1>1, <1>5 DEF Begin
    <2> QED BY <1>1, <1>5, <2>1 DEF Begin, Whereabouts, Swapping
<1>6. CASE \/ Truncate \/ ForgetProgress \/ CloseName \/ Reopen
           \/ \E t \in Tables : DropIndex(t) \/ BuildIndex(t)
           \/ \E i \in DOMAIN Order : Copy(i)
    <2>1. \A n \in Names : (db'[n] = Absent <=> db[n] = Absent)
                           /\ (db[n] # Absent => db'[n].signIns = db[n].signIns)
        BY <1>6, SignInsKept
    <2>2. phase' \in Swapping => phase \in Swapping
        BY <1>6 DEF Truncate, ForgetProgress, CloseName, Reopen, DropIndex, BuildIndex, Copy, Swapping
    <2>3. phase \in Swapping => db["name"] # Absent /\ db["next"] # Absent
        BY <1>1 DEF Whereabouts, Swapping
    <2> QED BY <1>1, <2>1, <2>2, <2>3 DEF Whereabouts
<1>7. CASE CarrySignIns
    <2>1. db["next"] \in Database /\ db["name"] # Absent
        BY <1>1, <1>7 DEF CarrySignIns, Whereabouts
    <2>2. db'["name"] = db["name"] /\ db'["prev"] = db["prev"] /\ db'["next"].signIns = db["name"].signIns
        BY <1>1, <1>7, <2>1 DEF CarrySignIns, Database
    <2> QED BY <2>1, <2>2
<1>8. CASE DropPrev
    BY <1>1, <1>8 DEF DropPrev, Swapping
<1>9. CASE RenameName
    BY <1>1, <1>9 DEF RenameName, Swapping
<1>10. CASE RenameNext
    BY <1>1, <1>10 DEF RenameNext, Whereabouts, Swapping
<1> QED BY <1>3, <1>4, <1>5, <1>6, <1>7, <1>8, <1>9, <1>10 DEF Next, Step

(* When nobody signs in past the carrying over, a swap signs no one out,      *)
(* wherever it and earlier publishes were interrupted.                        *)
THEOREM PublishSignsNobodyOut == ~LateSignIns => (Spec => []NobodySignedOut)
<1> SUFFICES ASSUME ~LateSignIns PROVE Spec => []NobodySignedOut
    OBVIOUS
<1> DEFINE Inv == Located /\ Carried
<1>1. Init => Inv
    BY InitLocated DEF Init, Carried, NobodySignedOut, Names, Swapping
<1>2. Inv /\ [Next]_vars => Inv'
    BY NextLocated, NextCarried
<1>3. Inv => NobodySignedOut
    BY DEF Carried
<1> QED BY <1>1, <1>2, <1>3, PTL DEF Spec

-----------------------------------------------------------------------------
(* Loading. *)

(* The numbers of rows a source table takes, one after the other, are ordered: *)
(* it never returns to an earlier number.                                     *)
NeverBack(rank) ==
    /\ rank \in [Counts -> Nat]
    /\ \A e \in Edits : RowsIn[e[1]] # RowsIn[e[2]] => rank[RowsIn[e[1]]] < rank[RowsIn[e[2]]]
RowsNeverBack == \E rank : NeverBack(rank)

(* The progress of a table says that it must be loaded again; a table that will *)
(* be emptied with one of those.                                                *)
Behind(rank, s) ==
    \/ db["next"].progress[s] = None
    \/ rank[db["next"].progress[s]] < rank[Rows(source[s])]
Owed(rank, t) == \E s \in Tables : Behind(rank, s) /\ t \in Emptied({s})

(* What an interrupted publish leaves: a record is of the current number of rows *)
(* or behind it; rows have a record; a record without rows is of a table that     *)
(* the next publish empties again.                                                *)
Resumable(rank) ==
    db["next"] # Absent =>
        \A t \in Tables :
            /\ Behind(rank, t) \/ db["next"].progress[t] = Rows(source[t])
            /\ db["next"].tables[t] # Empty => db["next"].progress[t] # None
            /\ db["next"].tables[t] = Empty /\ db["next"].progress[t] # None => Owed(rank, t)

AllLoaded == {"indexing", "carrying", "dropping", "closing", "closed", "reopening", "renaming"}
Underway(rank) ==
    /\ phase \in {"planned", "truncated"} => \A t \in todo : db["next"].progress[t] # None => Owed(rank, t)
    /\ phase \in {"truncated", "loading"} => \A t \in todo : db["next"].tables[t] = Empty
    /\ phase = "loading" => \A t \in todo : db["next"].progress[t] = None
    /\ phase \in {"planned", "truncated", "loading"} => \A t \in Tables \ todo : db["next"].tables[t] # Empty
    /\ phase \in AllLoaded => \A t \in Tables : db["next"].tables[t] # Empty
    /\ phase \in AllLoaded \ {"indexing"} => db["next"].indexed = Tables

Whole(rank) == Resumable(rank) /\ Underway(rank) /\ ServedTablesComplete

(* Emptying a set of tables empties what emptying one of them does. *)
LEMMA EmptiedOneByOne ==
    ASSUME NEW S \in SUBSET Tables
    PROVE  /\ S \subseteq Emptied(S)
           /\ \A s \in S : Emptied({s}) \subseteq Emptied(S)
           /\ \A t \in Emptied(S) : \E s \in S : t \in Emptied({s})
<1> DEFINE Closed(T) == \A r \in Refs : r[2] \in T => r[1] \in T
           U == UNION {Emptied({s}) : s \in S}
<1>1. \A T \in SUBSET Tables : \A t \in Emptied(T) : t \in Tables
    BY DEF Emptied
<1>2. S \subseteq Emptied(S)
    BY DEF Emptied
<1>3. \A s \in S : s \in Emptied({s}) /\ Emptied({s}) \subseteq Emptied(S)
    BY DEF Emptied
<1>4. U \in SUBSET Tables /\ S \subseteq U
    BY <1>1, <1>3
<1>5. Closed(U)
    <2>1. SUFFICES ASSUME NEW r \in Refs, NEW s \in S, r[2] \in Emptied({s}) PROVE r[1] \in Emptied({s})
        OBVIOUS
    <2>2. r[1] \in Tables
        BY PublishAssumption
    <2> QED BY <2>1, <2>2 DEF Emptied
<1>6. \A t \in Emptied(S) : t \in U
    BY <1>4, <1>5 DEF Emptied
<1> QED BY <1>2, <1>3, <1>6

LEMMA SourceRows ==
    ASSUME TypeOK, NEW t \in Tables
    PROVE  Rows(source[t]) = RowsIn[source[t]] /\ Rows(source[t]) \in Counts \cap Nat /\ Rows(source[t]) # None
BY PublishAssumption DEF TypeOK, Rows, Counts

(* What a publish finds stale is what is behind. *)
LEMMA StaleIsBehind ==
    ASSUME NEW rank, NeverBack(rank), Located, Resumable(rank), db["next"] # Absent
    PROVE  Stale = {t \in Tables : Behind(rank, t)}
<1> DEFINE next == db["next"]
<1>1. TypeOK /\ next \in Database
    BY DEF Located, TypeOK, Names
<1>2. \A t \in Tables : Done(next)[t] = next.progress[t]
    BY <1>1 DEF Done, Resumable
<1>3. \A t \in Tables : Behind(rank, t) => next.progress[t] # Rows(source[t])
    <2>1. SUFFICES ASSUME NEW t \in Tables, Behind(rank, t), next.progress[t] = Rows(source[t]) PROVE FALSE
        OBVIOUS
    <2>2. rank[Rows(source[t])] \in Nat
        BY <1>1, SourceRows DEF NeverBack
    <2> QED BY <1>1, <2>1, <2>2, SourceRows DEF Behind
<1>4. \A t \in Tables : Behind(rank, t) \/ next.progress[t] = Rows(source[t])
    BY DEF Resumable
<1> QED BY <1>2, <1>3, <1>4 DEF Stale

(* Two databases with the same tables, progress and indexes. *)
SameLoad(d, e) ==
    /\ d = Absent <=> e = Absent
    /\ d # Absent => d.tables = e.tables /\ d.progress = e.progress /\ d.indexed = e.indexed

(* Statements that touch neither rows nor progress nor indexes. *)
LEMMA LoadKept ==
    ASSUME Located, CarrySignIns \/ CloseName \/ Reopen \/ \E u \in People : SignIn(u)
    PROVE  source' = source /\ \A n \in Names : SameLoad(db'[n], db[n])
<1> USE DEF SameLoad
<1>1. /\ TypeOK /\ Whereabouts /\ {"name", "next", "prev"} = Names /\ DOMAIN db = Names
      /\ \A n \in Names : db[n] # Absent => db[n] \in Database
    BY DEF Located, Names, TypeOK
<1>2. ASSUME NEW d \in Database PROVE DOMAIN d = {"tables", "progress", "indexed", "signIns", "allow"}
    BY DEF Database
<1>3. \A n \in Names : db'[n] = Absent <=> db[n] = Absent
    <2>1. \E n \in Names : Edited(n)
        BY <1>1, EditedSteps
    <2> QED BY <1>1, <2>1, EditedKeeps DEF Edited
<1>4. CASE CarrySignIns
    BY <1>1, <1>2, <1>3, <1>4 DEF CarrySignIns
<1>5. CASE CloseName
    BY <1>1, <1>2, <1>3, <1>5 DEF CloseName
<1>6. CASE Reopen
    BY <1>1, <1>2, <1>3, <1>6 DEF Reopen
<1>7. CASE \E u \in People : SignIn(u)
    BY <1>1, <1>2, <1>3, <1>7 DEF SignIn
<1> QED BY <1>4, <1>5, <1>6, <1>7

(* While the source and the next database keep their rows and progress, the   *)
(* same is behind and owed.                                                   *)
LEMMA SameResumable ==
    ASSUME NEW rank, source' = source, SameLoad(db'["next"], db["next"])
    PROVE  /\ db["next"] # Absent =>
                \A t \in Tables : (Behind(rank, t)' <=> Behind(rank, t)) /\ (Owed(rank, t)' <=> Owed(rank, t))
           /\ Resumable(rank) => Resumable(rank)'
<1>1. db["next"] # Absent => \A t \in Tables : Behind(rank, t)' <=> Behind(rank, t)
    BY DEF SameLoad, Behind, Rows
<1>2. db["next"] # Absent => \A t \in Tables : Owed(rank, t)' <=> Owed(rank, t)
    BY <1>1 DEF Owed
<1>3. Resumable(rank) => Resumable(rank)'
    BY <1>1, <1>2 DEF SameLoad, Resumable, Rows
<1> QED BY <1>1, <1>2, <1>3

(* An edit of the source puts a table further behind, never less. *)
LEMMA EditFallsBehind ==
    ASSUME NEW rank, NeverBack(rank), Located, db["next"] # Absent, Resumable(rank),
           NEW t \in Tables, Edit(t)
    PROVE  /\ \A s \in Tables : Behind(rank, s) => Behind(rank, s)'
           /\ \A s \in Tables : Owed(rank, s) => Owed(rank, s)'
           /\ Resumable(rank)'
<1> DEFINE next == db["next"]
<1>1. TypeOK /\ TypeOK' /\ next \in Database /\ db' = db
    <2>1. TypeOK'
        BY TypePreserved DEF Next
    <2> QED BY <2>1 DEF Located, TypeOK, Names, Edit
<1>2. PICK e \in Edits : source[t] = e[1] /\ source' = [source EXCEPT ![t] = e[2]]
    BY DEF Edit
<1>3. Rows(source[t]) = RowsIn[e[1]] /\ Rows(source'[t]) = RowsIn[e[2]]
    BY <1>1, <1>2, SourceRows, PublishAssumption DEF TypeOK, Rows
<1>4. ASSUME NEW s \in Tables
      PROVE  /\ Rows(source'[s]) \in Counts /\ Rows(source[s]) \in Counts
             /\ rank[Rows(source[s])] \in Nat /\ rank[Rows(source'[s])] \in Nat
             /\ \/ Rows(source'[s]) = Rows(source[s])
                \/ rank[Rows(source[s])] < rank[Rows(source'[s])]
    <2>1. Rows(source'[s]) \in Counts /\ Rows(source[s]) \in Counts
        <3>1. source[s] \in Contents /\ source'[s] \in Contents
            BY <1>1 DEF TypeOK
        <3> QED BY <3>1, PublishAssumption DEF Rows, Counts
    <2>2. CASE s = t
        BY <1>2, <1>3, <2>1, <2>2 DEF NeverBack
    <2>3. CASE s # t
        BY <1>1, <1>2, <2>1, <2>3 DEF NeverBack, TypeOK
    <2> QED BY <2>2, <2>3, <2>1 DEF NeverBack
<1>5. ASSUME NEW s \in Tables PROVE next.progress[s] # None => rank[next.progress[s]] \in Nat
    BY <1>1 DEF Database, NeverBack
<1>6. \A s \in Tables : Behind(rank, s) => Behind(rank, s)'
    BY <1>1, <1>4, <1>5 DEF Behind
<1>7. \A s \in Tables : Owed(rank, s) => Owed(rank, s)'
    BY <1>6 DEF Owed
<1>8. ASSUME NEW s \in Tables PROVE Behind(rank, s)' \/ next.progress[s] = Rows(source'[s])
    <2>1. Behind(rank, s) \/ next.progress[s] = Rows(source[s])
        BY DEF Resumable
    <2> QED BY <1>1, <1>4, <1>6, <2>1 DEF Behind
<1>9. Resumable(rank)'
    BY <1>1, <1>7, <1>8 DEF Resumable
<1> QED BY <1>6, <1>7, <1>9

(* Steps that change what is loaded into the next database. *)
LEMMA BeginWhole ==
    ASSUME NEW rank, NeverBack(rank), Located, Whole(rank), Begin PROVE Whole(rank)'
<1>1. TypeOK /\ {"name", "next", "prev"} = Names /\ DOMAIN db = Names
    BY DEF Located, Names, TypeOK
<1>2. db' = IF db["next"] = Absent THEN [db EXCEPT !["next"] = Created] ELSE db
    BY DEF Begin
<1>3. CASE db["next"] # Absent
    <2>1. SameLoad(db'["next"], db["next"]) /\ source' = source
        BY <1>2, <1>3 DEF SameLoad, Begin
    <2> QED BY <1>2, <1>3, <2>1, SameResumable
            DEF Begin, Whole, Underway, ServedTablesComplete, AllLoaded
<1>4. CASE db["next"] = Absent
    <2>1. db'["next"] = Created /\ \A n \in {"name", "prev"} : db'[n] = db[n]
        BY <1>1, <1>2, <1>4
    <2>2. Resumable(rank)'
        BY <2>1 DEF Resumable, Behind, Created
    <2> QED BY <2>1, <2>2 DEF Begin, Whole, Underway, ServedTablesComplete, AllLoaded
<1> QED BY <1>3, <1>4

LEMMA PlanWhole ==
    ASSUME NEW rank, NeverBack(rank), Located, Whole(rank), Plan PROVE Whole(rank)'
<1> DEFINE next == db["next"]
<1>1. next # Absent /\ TypeOK /\ db' = db /\ source' = source /\ todo' = Emptied(Stale)
    BY DEF Located, Whereabouts, Plan
<1>2. Stale \in SUBSET Tables /\ \A s \in Stale : Behind(rank, s)
    BY <1>1, StaleIsBehind DEF Whole
<1>3. \A t \in Tables : Behind(rank, t) => t \in Stale
    BY <1>1, StaleIsBehind DEF Whole
<1>4. \A t \in todo' : Owed(rank, t)
    BY <1>1, <1>2, EmptiedOneByOne DEF Owed
<1>5. ASSUME NEW t \in Tables, t \notin todo' PROVE next.tables[t] # Empty
    <2>1. ~Owed(rank, t)
        BY <1>1, <1>2, <1>3, <1>5, EmptiedOneByOne DEF Owed
    <2>2. ~Behind(rank, t)
        BY <1>1, <1>2, <1>3, <1>5, EmptiedOneByOne
    <2>3. next.progress[t] # None
        BY <2>2 DEF Behind
    <2> QED BY <1>1, <2>1, <2>3 DEF Whole, Resumable
<1>6. SameLoad(db'["next"], db["next"])
    BY <1>1 DEF SameLoad
<1>7. Resumable(rank)' /\ \A t \in Tables : Owed(rank, t) => Owed(rank, t)'
    BY <1>1, <1>6, SameResumable DEF Whole
<1>8. todo' \subseteq Tables
    BY <1>1 DEF Emptied
<1>9. Underway(rank)'
    BY <1>1, <1>4, <1>5, <1>7, <1>8 DEF Underway, AllLoaded, Plan
<1> QED BY <1>1, <1>7, <1>9 DEF Whole, ServedTablesComplete

LEMMA TruncateWhole ==
    ASSUME NEW rank, NeverBack(rank), Located, Whole(rank), Truncate PROVE Whole(rank)'
<1> DEFINE next == db["next"]
<1>1. TypeOK /\ next \in Database /\ "next" \in DOMAIN db /\ phase = "planned" /\ phase' = "truncated"
    BY DEF Located, TypeOK, Names, Whereabouts, Truncate
<1>2. db'["next"] = [next EXCEPT !.tables = [t \in Tables |-> IF t \in todo THEN Empty ELSE next.tables[t]]]
    BY <1>1 DEF Truncate
<1>3. /\ db'["next"].tables = [t \in Tables |-> IF t \in todo THEN Empty ELSE next.tables[t]]
      /\ db'["next"].progress = next.progress
    BY <1>1, <1>2 DEF Database
<1>4. source' = source /\ todo' = todo /\ todo \subseteq Tables /\ \A n \in {"name", "prev"} : db'[n] = db[n]
    BY <1>1 DEF Truncate, TypeOK
<1>5. \A t \in Tables : (Behind(rank, t)' <=> Behind(rank, t)) /\ (Owed(rank, t)' <=> Owed(rank, t))
    BY <1>3, <1>4 DEF Behind, Owed, Rows
<1>6. \A t \in todo : next.progress[t] # None => Owed(rank, t)
    BY <1>1 DEF Whole, Underway
<1>7. \A t \in Tables \ todo : next.tables[t] # Empty
    BY <1>1 DEF Whole, Underway
<1>8. next # Absent
    BY <1>1 DEF Located, Whereabouts
<1>9. Resumable(rank)'
    BY <1>3, <1>4, <1>5, <1>6, <1>8 DEF Whole, Resumable, Rows
<1>10. Underway(rank)'
    BY <1>1, <1>3, <1>4, <1>5, <1>6, <1>7 DEF Underway, AllLoaded
<1> QED BY <1>4, <1>9, <1>10 DEF Whole, ServedTablesComplete

LEMMA ForgetProgressWhole ==
    ASSUME NEW rank, NeverBack(rank), Located, Whole(rank), ForgetProgress PROVE Whole(rank)'
<1> DEFINE next == db["next"]
<1>1. TypeOK /\ next \in Database /\ "next" \in DOMAIN db /\ phase = "truncated" /\ phase' = "loading"
    BY DEF Located, TypeOK, Names, Whereabouts, ForgetProgress
<1>2. db'["next"] = [next EXCEPT !.progress = [t \in Tables |-> IF t \in todo THEN None ELSE next.progress[t]]]
    BY <1>1 DEF ForgetProgress
<1>3. /\ db'["next"].progress = [t \in Tables |-> IF t \in todo THEN None ELSE next.progress[t]]
      /\ db'["next"].tables = next.tables
    BY <1>1, <1>2 DEF Database
<1>4. source' = source /\ todo' = todo /\ todo \subseteq Tables /\ \A n \in {"name", "prev"} : db'[n] = db[n]
    BY <1>1 DEF ForgetProgress, TypeOK
<1>5. next # Absent
    BY <1>1 DEF Located, Whereabouts
<1>6. /\ \A t \in todo : next.tables[t] = Empty
      /\ \A t \in Tables \ todo : next.tables[t] # Empty
    BY <1>1 DEF Whole, Underway
<1>7. \A t \in Tables : Behind(rank, t) => Behind(rank, t)'
    BY <1>3, <1>4 DEF Behind, Rows
<1>8. Resumable(rank)'
    <2>1. \A t \in Tables : Behind(rank, t) \/ next.progress[t] = Rows(source[t])
        BY <1>5 DEF Whole, Resumable
    <2>2. \A t \in Tables : Behind(rank, t)' \/ db'["next"].progress[t] = Rows(source'[t])
        BY <1>3, <1>4, <1>7, <2>1 DEF Behind
    <2>3. \A t \in Tables : next.tables[t] # Empty => next.progress[t] # None
        BY <1>5 DEF Whole, Resumable
    <2> QED BY <1>3, <1>4, <1>6, <2>2, <2>3 DEF Resumable
<1>9. Underway(rank)'
    BY <1>1, <1>3, <1>4, <1>6 DEF Underway, AllLoaded
<1> QED BY <1>4, <1>8, <1>9 DEF Whole, ServedTablesComplete

LEMMA CopyWhole ==
    ASSUME NEW rank, NeverBack(rank), Located, Whole(rank), NEW i \in DOMAIN Order, Copy(i) PROVE Whole(rank)'
<1> DEFINE next == db["next"]
           s == Order[i]
           Full == Rows(source[s])
<1>1. TypeOK /\ next \in Database /\ "next" \in DOMAIN db /\ phase = "loading"
    BY DEF Located, TypeOK, Names, Whereabouts, Copy
<1>2. s \in Tables /\ s \in todo /\ todo \subseteq Tables /\ source[s] \in Contents /\ Empty \notin Contents
    BY <1>1, PublishAssumption DEF Copy, TypeOK
<1>3. Full \in Counts /\ Full # None
    BY <1>1, <1>2, SourceRows
<1>4. db'["next"] = [[next EXCEPT !.tables[s] = source[s]] EXCEPT !.progress[s] = Full]
    BY <1>1 DEF Copy
<1>5. /\ db'["next"].tables = [next.tables EXCEPT ![s] = source[s]]
      /\ db'["next"].progress = [next.progress EXCEPT ![s] = Full]
    BY <1>1, <1>4 DEF Database
<1>6. /\ next.tables \in [Tables -> Contents \cup {Empty}]
      /\ next.progress \in [Tables -> Counts \cup {None}]
    BY <1>1 DEF Database
<1>7. source' = source /\ todo' = todo \ {s} /\ \A n \in {"name", "prev"} : db'[n] = db[n]
    BY <1>1, EditedSteps, EditedKeeps DEF Copy, Names
<1>8. next # Absent
    BY <1>1 DEF Located, Whereabouts
<1>9. /\ \A t \in todo : next.tables[t] = Empty /\ next.progress[t] = None
      /\ \A t \in Tables \ todo : next.tables[t] # Empty
    BY <1>1 DEF Whole, Underway
<1>10. /\ db'["next"].tables[s] = source[s] /\ db'["next"].progress[s] = Rows(source'[s])
       /\ \A t \in Tables \ {s} : /\ db'["next"].tables[t] = next.tables[t]
                                  /\ db'["next"].progress[t] = next.progress[t]
    BY <1>2, <1>5, <1>6, <1>7
<1>11. Resumable(rank)'
    <2>1. SUFFICES ASSUME NEW t \in Tables
                   PROVE  /\ Behind(rank, t)' \/ db'["next"].progress[t] = Rows(source'[t])
                          /\ db'["next"].tables[t] # Empty => db'["next"].progress[t] # None
                          /\ db'["next"].tables[t] = Empty => db'["next"].progress[t] = None
        BY DEF Resumable
    <2>2. CASE t = s
        BY <1>2, <1>3, <1>7, <1>10, <2>2
    <2>3. CASE t # s
        <3>1. /\ Behind(rank, t) \/ next.progress[t] = Rows(source[t])
              /\ next.tables[t] # Empty => next.progress[t] # None
            BY <1>8 DEF Whole, Resumable
        <3> QED BY <1>7, <1>9, <1>10, <2>3, <3>1 DEF Behind
    <2> QED BY <2>2, <2>3
<1>12. \A t \in Tables \ todo' : db'["next"].tables[t] # Empty
    BY <1>2, <1>7, <1>9, <1>10
<1>13. \A t \in todo' : db'["next"].tables[t] = Empty /\ db'["next"].progress[t] = None
    BY <1>2, <1>7, <1>9, <1>10
<1>14. phase' \in {"loading", "indexing"} /\ (phase' = "indexing" => todo' = {})
    BY DEF Copy
<1>15. Underway(rank)'
    BY <1>12, <1>13, <1>14 DEF Underway, AllLoaded
<1> QED BY <1>7, <1>11, <1>15 DEF Whole, ServedTablesComplete

LEMMA IndexesWhole ==
    ASSUME NEW rank, NeverBack(rank), Located, Whole(rank), NEW t \in Tables, DropIndex(t) \/ BuildIndex(t)
    PROVE  Whole(rank)'
<1> DEFINE next == db["next"]
<1>1. TypeOK /\ next \in Database /\ "next" \in DOMAIN db /\ phase \in {"loading", "indexing"}
    BY DEF Located, TypeOK, Names, Whereabouts, DropIndex, BuildIndex
<1>2. PICK T : db'["next"] = [next EXCEPT !.indexed = T]
    BY <1>1 DEF DropIndex, BuildIndex
<1>3. db'["next"].tables = next.tables /\ db'["next"].progress = next.progress
    BY <1>1, <1>2 DEF Database
<1>4. /\ source' = source /\ todo' = todo /\ phase' = phase
      /\ \A n \in {"name", "prev"} : db'[n] = db[n]
    BY <1>1, EditedSteps, EditedKeeps DEF DropIndex, BuildIndex, Names
<1>5. next # Absent
    BY <1>1 DEF Located, Whereabouts
<1>6. \A u \in Tables : (Behind(rank, u)' <=> Behind(rank, u)) /\ (Owed(rank, u)' <=> Owed(rank, u))
    BY <1>3, <1>4 DEF Behind, Owed, Rows
<1>7. Resumable(rank)'
    BY <1>3, <1>4, <1>5, <1>6 DEF Whole, Resumable, Rows
<1>8. Underway(rank)'
    BY <1>1, <1>3, <1>4 DEF Whole, Underway, AllLoaded
<1> QED BY <1>4, <1>7, <1>8 DEF Whole, ServedTablesComplete

(* An edit of the source beside the publish. *)
LEMMA EditWhole ==
    ASSUME NEW rank, NeverBack(rank), Located, Whole(rank), NEW t \in Tables, Edit(t) PROVE Whole(rank)'
<1>1. db' = db /\ phase' = phase /\ todo' = todo /\ todo \subseteq Tables
    BY DEF Edit, Located, TypeOK
<1>2. CASE db["next"] # Absent
    <2>1. Resumable(rank)' /\ \A s \in Tables : Owed(rank, s) => Owed(rank, s)'
        BY <1>2, EditFallsBehind DEF Whole
    <2> QED BY <1>1, <2>1 DEF Whole, Underway, ServedTablesComplete
<1>3. CASE db["next"] = Absent
    BY <1>1, <1>3 DEF Whole, Underway, Resumable, ServedTablesComplete, Located, Whereabouts, AllLoaded
<1> QED BY <1>2, <1>3

(* The steps that touch no rows of the next database, and the swap. *)
LEMMA OthersWhole ==
    ASSUME NEW rank, NeverBack(rank), Located, Whole(rank),
           \/ Loaded \/ CarrySignIns \/ CarryRefused \/ DropPrev \/ CloseName \/ RenameName
           \/ Reopen \/ Error \/ Kill \/ UNCHANGED vars \/ \E u \in People : SignIn(u)
    PROVE  Whole(rank)'
<1>1. /\ TypeOK /\ Whereabouts /\ {"name", "next", "prev"} = Names /\ DOMAIN db = Names
      /\ \A n \in Names : db[n] # Absent => db[n] \in Database
    BY DEF Located, Names, TypeOK
<1>2. source' = source /\ SameLoad(db'["next"], db["next"])
    <2>1. CASE CarrySignIns \/ CloseName \/ Reopen \/ \E u \in People : SignIn(u)
        BY <1>1, <2>1, LoadKept
    <2>2. CASE Loaded \/ CarryRefused \/ DropPrev \/ RenameName \/ Error \/ Kill \/ UNCHANGED vars
        BY <1>1, <2>2 DEF Loaded, CarryRefused, DropPrev, RenameName, Error, Kill, vars, SameLoad
    <2> QED BY <2>1, <2>2
<1>3. Resumable(rank)'
    BY <1>2, SameResumable DEF Whole
<1>4. /\ phase' \in {"planned", "truncated", "loading"} => phase' = phase /\ todo' = todo
      /\ phase' \in AllLoaded => phase \in AllLoaded
      /\ phase' \in AllLoaded \ {"indexing"} => phase \in AllLoaded \ {"indexing"} \/ Loaded
      /\ phase' \notin {"idle", "rescuing"} => db["next"] # Absent
    BY <1>1 DEF Loaded, CarrySignIns, CarryRefused, DropPrev, CloseName, RenameName, Reopen, Error,
                Kill, vars, SignIn, AllLoaded, Whereabouts
<1>5. Underway(rank)'
    <2>1. \A t \in Tables : db["next"] # Absent => (Owed(rank, t) => Owed(rank, t)')
        BY <1>2, SameResumable
    <2>2. Underway(rank) /\ todo \subseteq Tables
        BY <1>1 DEF Whole, TypeOK
    <2>3. Loaded => db["next"].indexed = Tables
        BY DEF Loaded
    <2> QED BY <1>2, <1>4, <2>1, <2>2, <2>3 DEF Underway, SameLoad, AllLoaded
<1>6. ServedTablesComplete'
    <2>1. CASE CarrySignIns \/ CloseName \/ Reopen \/ \E u \in People : SignIn(u)
        <3>1. \A n \in Names : SameLoad(db'[n], db[n])
            BY <2>1, LoadKept
        <3> QED BY <1>1, <3>1 DEF Whole, ServedTablesComplete, Complete, SameLoad
    <2>2. CASE Loaded \/ CarryRefused \/ Error \/ Kill \/ UNCHANGED vars
        BY <2>2 DEF Loaded, CarryRefused, Error, Kill, vars, Whole, ServedTablesComplete
    <2>3. CASE DropPrev \/ RenameName
        BY <1>1, <2>3 DEF DropPrev, RenameName, Whole, ServedTablesComplete
    <2> QED BY <2>1, <2>2, <2>3
<1> QED BY <1>3, <1>5, <1>6 DEF Whole

LEMMA RenameNextWhole ==
    ASSUME NEW rank, NeverBack(rank), Located, Whole(rank), RenameNext PROVE Whole(rank)'
<1>1. TypeOK /\ {"name", "next", "prev"} = Names /\ DOMAIN db = Names /\ db["next"] # Absent
    BY DEF Located, Names, TypeOK, RenameNext, Whereabouts
<1>2. db'["name"] = db["next"] /\ db'["next"] = Absent /\ db'["prev"] = db["prev"]
    BY <1>1 DEF RenameNext
<1>3. Complete(db["next"])
    BY <1>1 DEF RenameNext, Whole, Underway, AllLoaded, Complete
<1> QED BY <1>2, <1>3 DEF RenameNext, Whole, Resumable, Underway, ServedTablesComplete, AllLoaded

LEMMA NextWhole ==
    ASSUME NEW rank, NeverBack(rank), Located, Whole(rank), [Next]_vars PROVE Whole(rank)'
BY BeginWhole, PlanWhole, TruncateWhole, ForgetProgressWhole, CopyWhole, IndexesWhole, EditWhole,
   OthersWhole, RenameNextWhole DEF Next, Step

LEMMA InitWhole == ASSUME NEW rank, Init PROVE Whole(rank)
BY DEF Init, Whole, Resumable, Underway, ServedTablesComplete, AllLoaded, Names

(* While there is a copy, no statement of a swap takes the last one. *)
LEMMA NextHasCopy ==
    ASSUME NEW rank, Located, Whole(rank), Located', Whole(rank)', [Next]_vars, HasCopy(db)
    PROVE  HasCopy(db')
<1>1. /\ TypeOK /\ Whereabouts /\ {"name", "next", "prev"} = Names /\ DOMAIN db = Names
      /\ \A n \in Names : db[n] # Absent => db[n] \in Database
    BY DEF Located, Names, TypeOK
<1>2. db["name"] # Absent \/ db["prev"] # Absent
    BY DEF HasCopy, Complete
<1>3. SUFFICES db'["name"] # Absent \/ db'["prev"] # Absent
    BY DEF HasCopy, Whole, ServedTablesComplete
<1>4. ASSUME NEW n \in Names, Edited(n)
      PROVE  db'["name"] # Absent \/ db'["prev"] # Absent
    BY <1>1, <1>2, <1>4, EditedKeeps
<1>5. CASE \/ \E t \in Tables : Edit(t)
           \/ Plan \/ Loaded \/ CarryRefused \/ Error \/ Kill \/ UNCHANGED vars
    BY <1>2, <1>5 DEF Edit, Plan, Loaded, CarryRefused, Error, Kill, vars
<1>6. CASE Begin \/ DropPrev \/ RenameName \/ RenameNext
    BY <1>1, <1>2, <1>6 DEF Begin, DropPrev, RenameName, RenameNext, Whereabouts, Swapping
<1>7. CASE \/ \E u \in People : SignIn(u)
           \/ Truncate \/ ForgetProgress \/ CarrySignIns \/ CloseName \/ Reopen
           \/ \E t \in Tables : DropIndex(t) \/ BuildIndex(t)
           \/ \E i \in DOMAIN Order : Copy(i)
    <2>1. \E n \in Names : Edited(n)
        BY <1>1, <1>7, EditedSteps
    <2> QED BY <1>4, <2>1
<1> QED BY <1>5, <1>6, <1>7 DEF Next, Step

(* For a source whose tables never return to an earlier number of rows, the   *)
(* graph that is served and the one kept as a rollback have no table that is  *)
(* empty or lacks an index, however many interrupted publishes and edits came *)
(* before (publish._load, _swap).  Not that all tables are of one moment.     *)
THEOREM PublishedIsComplete == RowsNeverBack => (Spec => []ServedTablesComplete)
<1> SUFFICES ASSUME RowsNeverBack PROVE Spec => []ServedTablesComplete
    OBVIOUS
<1>1. PICK rank : NeverBack(rank)
    BY DEF RowsNeverBack
<1> DEFINE Inv == Located /\ Whole(rank)
<1>2. Init => Inv
    BY InitLocated, InitWhole
<1>3. Inv /\ [Next]_vars => Inv'
    BY <1>1, NextLocated, NextWhole
<1>4. Inv => ServedTablesComplete
    BY DEF Whole
<1> QED BY <1>2, <1>3, <1>4, PTL DEF Spec

(* And once there is such a graph to serve or to go back to, every step leaves *)
(* one.                                                                       *)
THEOREM PublishKeepsCopy == RowsNeverBack => (Spec => NeverWithoutCopy)
<1> SUFFICES ASSUME RowsNeverBack PROVE Spec => NeverWithoutCopy
    OBVIOUS
<1>1. PICK rank : NeverBack(rank)
    BY DEF RowsNeverBack
<1> DEFINE Inv == Located /\ Whole(rank)
<1>2. Init => Inv
    BY InitLocated, InitWhole
<1>3. Inv /\ [Next]_vars => Inv'
    BY <1>1, NextLocated, NextWhole
<1>4. Inv /\ Inv' /\ [Next]_vars => [HasCopy(db) => HasCopy(db')]_vars
    BY NextHasCopy
<1> QED BY <1>2, <1>3, <1>4, PTL DEF Spec, NeverWithoutCopy

-----------------------------------------------------------------------------
(* CloudPublish, for any graphs the build may make, any number of versions,  *)
(* edits and interruptions.                                                  *)

LEMMA SameSizes ==
    /\ \A S : Cloud!Cardinality(S) = Cardinality(S)
    /\ \A S : Cloud!IsFiniteSet(S) <=> IsFiniteSet(S)
BY DEF Cloud!Cardinality, Cardinality, Cloud!IsFiniteSet, IsFiniteSet

(* The inductive invariant. *)

AfterUpsert == {"deploy", "previous", "current"}
AfterVectors == {"index", "upsert"} \cup AfterUpsert
AfterRows == {"vectors"} \cup AfterVectors
AfterImport == {"rows"} \cup AfterRows
AfterSql == {"d1", "import"} \cup AfterImport
Steps == {"idle", "sql", "edges"} \cup AfterSql

Shapes ==
    /\ graph \in Graphs
    /\ mixed \subseteq Cloud!Versions /\ deployed \subseteq Cloud!Versions
    /\ DOMAIN disk = Cloud!Versions /\ \A v \in Cloud!Versions : DOMAIN disk[v] = DOMAIN Cloud!Fresh
    /\ DOMAIN cloud = Cloud!Versions /\ \A v \in Cloud!Versions : DOMAIN cloud[v] = {"d1", "index"}
    /\ DOMAIN publishing = DOMAIN Cloud!Idle /\ DOMAIN top = {"current", "previous"}
    /\ publishing.pc \in Steps
    /\ Cloud!here \in Cloud!Versions \cup {Nothing}
    /\ ~Cloud!At("idle") => Cloud!here \in Cloud!Versions

(* The export of a version holds the rows of its chunks and edges, and the    *)
(* database and index hold parts of the exports: what is recorded, at least.  *)
Exported(v) ==
    disk[v].sql # Nothing =>
        /\ disk[v].sql \subseteq Cloud!Files \ {Cloud!Schema}
        /\ v \notin mixed => <<Cloud!IdsOf("chunk", disk[v].sql), Cloud!IdsOf("edge", disk[v].sql)>> = v

DatabaseHolds(v) ==
    /\ disk[v].d1 => cloud[v].d1 # Nothing
    /\ cloud[v].d1 # Nothing => disk[v].sql # Nothing /\ cloud[v].d1 \subseteq {Cloud!Schema} \cup disk[v].sql
    /\ disk[v].imported # {} => disk[v].d1 /\ disk[v].imported \subseteq cloud[v].d1

Uploaded(v, i) ==
    i \in 1..Cloud!Cardinality(Cloud!ChunkIds) /\ (v \notin mixed => Cloud!Ith(v[1], i) \in cloud[v].index)
IndexHolds(v) ==
    /\ disk[v].index => cloud[v].index # Nothing
    /\ cloud[v].index # Nothing =>
         cloud[v].index \subseteq Cloud!ChunkIds /\ (v \notin mixed => cloud[v].index \subseteq v[1])
    /\ \A i \in DOMAIN disk[v].vectors :
         /\ i \in 1..Cloud!Cardinality(Cloud!ChunkIds) /\ disk[v].vectors[i] \in Cloud!ChunkIds
         /\ v \notin mixed => disk[v].vectors[i] = Cloud!Ith(v[1], i)
    /\ \A i \in disk[v].upserted : disk[v].index /\ Uploaded(v, i)

(* Where the publish is says what is exported, recorded and held. *)
Progress ==
    /\ publishing.pc \in Cloud!Exporting /\ Cloud!here \notin mixed => Cloud!Version(graph) = Cloud!here
    /\ Cloud!At("edges") => \E g \in Graphs  :
         publishing.rows = Cloud!ChunkRows(g) /\ (Cloud!here \notin mixed => g.chunks = Cloud!here[1])
    /\ publishing.pc \in {"sql", "edges"} => Cloud!Mine.sql = Nothing
    /\ publishing.pc \in AfterSql => Cloud!Mine.sql # Nothing
    /\ publishing.pc \in AfterSql \ {"d1"} => Cloud!Mine.d1
    /\ publishing.pc \in AfterImport => {Cloud!Schema} \cup Cloud!Mine.sql \subseteq Cloud!Mine.imported
    /\ publishing.pc \in AfterRows =>
         publishing.chunks \subseteq Cloud!ChunkIds /\ (Cloud!here \notin mixed => publishing.chunks = Cloud!here[1])
    /\ publishing.pc \in {"index", "upsert"} =>
         Cloud!Positions \subseteq DOMAIN Cloud!Mine.vectors \cup Cloud!Mine.upserted
    /\ publishing.pc \in {"upsert"} \cup AfterUpsert => Cloud!Mine.index
    /\ publishing.pc \in AfterUpsert => Cloud!Positions \subseteq Cloud!Mine.upserted
    /\ publishing.pc \in {"previous", "current"} => Cloud!here \in deployed
    /\ publishing.pc \notin {"import", "upsert"} => publishing.done = Nothing
    /\ Cloud!At("import") /\ publishing.done # Nothing => publishing.done \in cloud[Cloud!here].d1
    /\ Cloud!At("upsert") /\ publishing.done # Nothing => Uploaded(Cloud!here, publishing.done)

(* What has been served is all there, and stays. *)
Served(v) ==
    /\ cloud[v].d1 # Nothing /\ {Cloud!Schema} \cup disk[v].sql \subseteq cloud[v].d1
    /\ cloud[v].index # Nothing /\ (v \notin mixed => v[1] \subseteq cloud[v].index)

CloudInv ==
    /\ Shapes /\ Progress
    /\ \A v \in Cloud!Versions : Exported(v) /\ DatabaseHolds(v) /\ IndexHolds(v)
    /\ \A v \in deployed : Served(v)
    /\ worker # Nothing => worker.version \in deployed
    /\ {top.current, top.previous} \subseteq deployed \cup {Nothing}

-----------------------------------------------------------------------------
(* The i-th chunk: positions and chunks correspond one to one. *)
LEMMA IthCounts ==
    ASSUME NEW S, Cloud!IsFiniteSet(S), S \subseteq Int
    PROVE  /\ \A i \in 1..Cloud!Cardinality(S) : Cloud!Ith(S, i) \in S
           /\ \A c \in S : \E i \in 1..Cloud!Cardinality(S) : Cloud!Ith(S, i) = c
<1> DEFINE N == Cardinality(S)
           below(c) == {d \in S : d < c}
           position == [c \in S |-> Cardinality(below(c)) + 1]
<1>1. N \in Nat /\ \A c \in S : IsFiniteSet(below(c)) /\ Cardinality(below(c)) \in Nat
    BY SameSizes, FS_CardinalityType, FS_Subset
<1>2. ASSUME NEW c \in S, NEW d \in S, c < d PROVE Cardinality(below(c)) < Cardinality(below(d))
    <2>1. d \in Int /\ c \in Int
        OBVIOUS
    <2>2. c \in below(d) /\ c \notin below(c)
        BY <1>2, <2>1
    <2>3. \A e \in below(c) : e \in below(d)
        <3>1. SUFFICES ASSUME NEW e \in S, e < c PROVE e < d
            OBVIOUS
        <3>2. e \in Int
            OBVIOUS
        <3> QED BY <1>2, <2>1, <3>1, <3>2
    <2>4. below(c) \in SUBSET below(d) /\ below(c) # below(d)
        BY <2>2, <2>3
    <2>5. /\ Cardinality(below(c)) <= Cardinality(below(d))
          /\ Cardinality(below(d)) = Cardinality(below(c)) => below(d) = below(c)
        BY <1>1, <2>4, FS_Subset
    <2> HIDE DEF below
    <2> QED BY <1>1, <2>4, <2>5
<1>3. ASSUME NEW c \in S PROVE Cardinality(below(c)) < N
    <2>1. below(c) \in SUBSET S /\ c \notin below(c)
        OBVIOUS
    <2>2. Cardinality(below(c)) <= N /\ (N = Cardinality(below(c)) => S = below(c))
        BY <2>1, FS_Subset, SameSizes
    <2> QED BY <1>1, <2>1, <2>2
<1>4. position \in [S -> 1..N]
    BY <1>1, <1>3
<1>5. \A c, d \in S : position[c] = position[d] => c = d
    <2>1. SUFFICES ASSUME NEW c \in S, NEW d \in S, c < d PROVE position[c] # position[d]
        OBVIOUS
    <2> QED BY <1>1, <1>2, <2>1
<1>6. position \in Injection(S, 1..N)
    BY <1>4, <1>5 DEF Injection, IsInjective
<1>7. IsFiniteSet(1..N) /\ Cardinality(1..N) = N
    BY <1>1, FS_Interval
<1>8. position \in Surjection(S, 1..N)
    BY <1>6, <1>7, FS_Injection
<1>9. ASSUME NEW i \in 1..N PROVE Cloud!Ith(S, i) \in S /\ Cardinality(below(Cloud!Ith(S, i))) = i - 1
    <2>1. PICK c \in S : position[c] = i
        BY <1>8 DEF Surjection
    <2>2. Cardinality(below(c)) + 1 = i
        BY <2>1
    <2>3. Cardinality(below(c)) \in Nat
        BY <1>1
    <2>4. Cardinality(below(c)) = i - 1
        <3> HIDE DEF below
        <3> QED BY <2>2, <2>3
    <2>5. Cloud!Cardinality(below(c)) = i - 1
        BY <2>4, SameSizes
    <2>6. Cloud!Ith(S, i) \in S /\ Cloud!Cardinality(below(Cloud!Ith(S, i))) = i - 1
        BY <2>5 DEF Cloud!Ith
    <2> QED BY <2>6, SameSizes
<1>10. ASSUME NEW c \in S PROVE Cloud!Ith(S, position[c]) = c
    <2>1. position[c] \in 1..N
        BY <1>4
    <2> DEFINE e == Cloud!Ith(S, position[c])
    <2>2. e \in S /\ Cardinality(below(e)) = position[c] - 1
        BY <1>9, <2>1
    <2>3. position[e] = Cardinality(below(e)) + 1 /\ position[c] \in Nat
        BY <1>1, <2>1, <2>2
    <2> HIDE DEF position, below, e
    <2>4. position[e] = position[c]
        BY <2>2, <2>3
    <2>5. e = c
        BY <1>5, <2>2, <2>4
    <2> QED BY <2>5 DEF e
<1>11. N = Cloud!Cardinality(S)
    BY SameSizes
<1> HIDE DEF N, position
<1> QED BY <1>4, <1>9, <1>10, <1>11

(* The record of a finished step: one field of one version. *)
LEMMA RecordedFacts ==
    ASSUME Shapes, Cloud!here \in Cloud!Versions, NEW field \in DOMAIN Cloud!Fresh, NEW value,
           Cloud!Recorded(field, value)
    PROVE  /\ DOMAIN disk' = Cloud!Versions /\ \A v \in Cloud!Versions : DOMAIN disk'[v] = DOMAIN Cloud!Fresh
           /\ disk'[Cloud!here][field] = value
           /\ \A f \in DOMAIN Cloud!Fresh \ {field} : disk'[Cloud!here][f] = disk[Cloud!here][f]
           /\ \A v \in Cloud!Versions \ {Cloud!here} : disk'[v] = disk[v]
BY DEF Shapes, Cloud!Recorded

(* A chunk or edge row is not the schema, and its kind tells them apart. *)
LEMMA RowKinds ==
    ASSUME NEW g
    PROVE  /\ Cloud!Schema \notin Cloud!ChunkRows(g) \cup Cloud!EdgeRows(g)
           /\ Cloud!IdsOf("chunk", Cloud!ChunkRows(g)) = g.chunks /\ Cloud!IdsOf("edge", Cloud!ChunkRows(g)) = {}
           /\ Cloud!IdsOf("edge", Cloud!EdgeRows(g)) = g.edges /\ Cloud!IdsOf("chunk", Cloud!EdgeRows(g)) = {}
<1>1. \A r \in Cloud!ChunkRows(g) : r[1] = "chunk" /\ r[2] \in g.chunks
    BY DEF Cloud!ChunkRows
<1>2. \A r \in Cloud!EdgeRows(g) : r[1] = "edge" /\ r[2] \in g.edges
    BY DEF Cloud!EdgeRows
<1>3. Cloud!Schema[1] = "schema"
    BY DEF Cloud!Schema
<1>4. ASSUME NEW c \in g.chunks PROVE \E r \in Cloud!ChunkRows(g) : r[1] = "chunk" /\ r[2] = c
    <2> DEFINE row == <<"chunk", c, g.rev>>
    <2>1. row \in Cloud!ChunkRows(g) /\ row[1] = "chunk" /\ row[2] = c
        BY DEF Cloud!ChunkRows
    <2> QED BY <2>1
<1>5. ASSUME NEW e \in g.edges PROVE \E r \in Cloud!EdgeRows(g) : r[1] = "edge" /\ r[2] = e
    <2> DEFINE row == <<"edge", e, g.rev>>
    <2>1. row \in Cloud!EdgeRows(g) /\ row[1] = "edge" /\ row[2] = e
        BY DEF Cloud!EdgeRows
    <2> QED BY <2>1
<1>6. Cloud!IdsOf("chunk", Cloud!ChunkRows(g)) = g.chunks /\ Cloud!IdsOf("edge", Cloud!ChunkRows(g)) = {}
    BY <1>1, <1>4 DEF Cloud!IdsOf
<1>7. Cloud!IdsOf("edge", Cloud!EdgeRows(g)) = g.edges /\ Cloud!IdsOf("chunk", Cloud!EdgeRows(g)) = {}
    BY <1>2, <1>5 DEF Cloud!IdsOf
<1> QED BY <1>1, <1>2, <1>3, <1>6, <1>7

LEMMA IdsOfUnion ==
    ASSUME NEW kind, NEW A, NEW B
    PROVE  Cloud!IdsOf(kind, A \cup B) = Cloud!IdsOf(kind, A) \cup Cloud!IdsOf(kind, B)
BY DEF Cloud!IdsOf

LEMMA IdsOfFiles == ASSUME NEW kind \in {"chunk", "edge"} PROVE Cloud!IdsOf(kind, {Cloud!Schema}) = {}
BY DEF Cloud!IdsOf, Cloud!Schema

LEMMA InitCloudInv == Cloud!Init => CloudInv
<1> SUFFICES ASSUME Cloud!Init PROVE CloudInv
    OBVIOUS
<1> USE DEF Cloud!Init
<1>1. Shapes
    BY DEF Shapes, Cloud!Idle, Cloud!Fresh, Cloud!At, Cloud!here, Steps
<1>2. Progress
    BY DEF Progress, Cloud!Idle, Cloud!At, Cloud!Exporting, AfterSql, AfterImport, AfterRows, AfterVectors,
           AfterUpsert
<1>3. \A v \in Cloud!Versions : Exported(v) /\ DatabaseHolds(v) /\ IndexHolds(v)
    BY DEF Exported, DatabaseHolds, IndexHolds, Cloud!Fresh
<1> QED BY <1>1, <1>2, <1>3 DEF CloudInv

-----------------------------------------------------------------------------
(* The steps. *)

(* A version that neither its directory nor its resources change keeps what    *)
(* holds of it, whether or not it comes to be mixed.                           *)
LEMMA SameVersion ==
    ASSUME NEW v, disk'[v] = disk[v], cloud'[v] = cloud[v], mixed \subseteq mixed'
    PROVE  /\ Exported(v) => Exported(v)'
           /\ DatabaseHolds(v) => DatabaseHolds(v)'
           /\ IndexHolds(v) => IndexHolds(v)'
           /\ Served(v) => Served(v)'
BY DEF Exported, DatabaseHolds, IndexHolds, Served, Uploaded

(* Steps that only move the publish on. *)
LEMMA MovesKeep ==
    ASSUME Cloud!ConstantsOK, CloudInv,
           \/ Cloud!Begin \/ Cloud!ReadChunks \/ Cloud!Imported \/ Cloud!ReadForVectors
           \/ Cloud!VectorsWritten \/ Cloud!Upserted
           \/ Cloud!Kill \/ UNCHANGED Cloud!cloudVars
    PROVE  CloudInv'
<1> USE DEF Cloud!Begin, Cloud!ReadChunks, Cloud!Imported, Cloud!ReadForVectors, Cloud!VectorsWritten,
            Cloud!Upserted, Cloud!Kill, Cloud!cloudVars
<1> USE DEF AfterSql, AfterImport, AfterRows, AfterVectors, AfterUpsert
<1>1. Shapes /\ Progress
    BY DEF CloudInv
<1>2. /\ disk' = disk /\ cloud' = cloud /\ mixed' = mixed
      /\ graph' = graph /\ deployed' = deployed /\ top' = top /\ worker' = worker
    OBVIOUS
<1>3. Shapes'
    <2>1. publishing'.pc \in Steps /\ DOMAIN publishing' = DOMAIN Cloud!Idle
        <3>1. CASE Cloud!Begin
            BY <3>1 DEF Cloud!Idle, Steps
        <3>2. CASE Cloud!Kill
            BY <3>2 DEF Cloud!Idle, Steps
        <3>3. CASE Cloud!ReadChunks \/ Cloud!ReadForVectors
            BY <1>1, <3>3 DEF Shapes, Cloud!Idle, Steps
        <3>4. CASE Cloud!Imported \/ Cloud!VectorsWritten \/ Cloud!Upserted \/ UNCHANGED Cloud!cloudVars
            BY <1>1, <3>4 DEF Shapes, Cloud!Idle, Steps, Cloud!Go
        <3> QED BY <3>1, <3>2, <3>3, <3>4
    <2>2. Cloud!Version(graph) \in Cloud!Versions
        BY <1>1 DEF Shapes, Cloud!Versions
    <2>3. /\ publishing'.version \in Cloud!Versions \cup {Nothing}
          /\ publishing'.pc # "idle" => publishing'.version \in Cloud!Versions
        <3>1. CASE Cloud!Begin
            BY <2>2, <3>1 DEF Cloud!Idle
        <3>2. CASE Cloud!Kill
            BY <3>2 DEF Cloud!Idle
        <3>3. CASE Cloud!ReadChunks \/ Cloud!Imported \/ Cloud!ReadForVectors \/ Cloud!VectorsWritten
                   \/ Cloud!Upserted \/ UNCHANGED Cloud!cloudVars
            BY <1>1, <3>3 DEF Shapes, Cloud!Idle, Cloud!here, Cloud!At, Cloud!Go
        <3> QED BY <3>1, <3>2, <3>3
    <2> QED BY <1>1, <1>2, <2>1, <2>3 DEF Shapes, Cloud!here, Cloud!At
<1>4. Progress'
    <2> USE <1>1, <1>2 DEF Cloud!here, Cloud!Mine, Cloud!At, Cloud!Go, Cloud!Exporting, Cloud!Positions, Uploaded
    <2>1. CASE Cloud!Begin
        BY <2>1 DEF Progress, Cloud!Idle
    <2>2. CASE Cloud!ReadChunks
        <3>1. DOMAIN publishing = DOMAIN Cloud!Idle /\ graph \in Graphs
            BY DEF Shapes
        <3>2. Cloud!here \notin mixed => graph.chunks = Cloud!here[1]
            BY <2>2 DEF Progress, Cloud!Version
        <3> QED BY <2>2, <3>1, <3>2 DEF Progress, Cloud!Idle
    <2>3. CASE Cloud!Imported
        BY <2>3 DEF Progress, Shapes, Cloud!Idle
    <2>4. CASE Cloud!ReadForVectors
        <3>1. DOMAIN publishing = DOMAIN Cloud!Idle /\ graph.chunks \subseteq Cloud!ChunkIds
            BY DEF Shapes, Cloud!ChunkIds
        <3>2. Cloud!here \notin mixed => graph.chunks = Cloud!here[1]
            BY <2>4 DEF Progress, Cloud!Version
        <3> QED BY <2>4, <3>1, <3>2 DEF Progress, Cloud!Idle
    <2>5. CASE Cloud!VectorsWritten
        BY <2>5 DEF Progress, Shapes, Cloud!Idle
    <2>6. CASE Cloud!Upserted
        BY <2>6 DEF Progress, Shapes, Cloud!Idle
    <2>7. CASE Cloud!Kill
        BY <2>7 DEF Progress, Cloud!Idle
    <2>8. CASE UNCHANGED Cloud!cloudVars
        BY <2>8 DEF Progress
    <2> QED BY <2>1, <2>2, <2>3, <2>4, <2>5, <2>6, <2>7, <2>8
<1> QED BY <1>2, <1>3, <1>4, SameVersion DEF CloudInv

(* The Worker is pointed at a version that is all there, and its record. *)
LEMMA DeployKeeps ==
    ASSUME Cloud!ConstantsOK, CloudInv, Cloud!Deploy \/ Cloud!RecordPrevious \/ Cloud!RecordCurrent PROVE CloudInv'
<1> USE DEF Cloud!Deploy, Cloud!RecordPrevious, Cloud!RecordCurrent
<1> USE DEF AfterSql, AfterImport, AfterRows, AfterVectors, AfterUpsert
<1>1. Shapes /\ Progress /\ Cloud!here \in Cloud!Versions
    BY DEF CloudInv, Shapes, Cloud!At
<1>2. disk' = disk /\ cloud' = cloud /\ mixed' = mixed /\ graph' = graph
    OBVIOUS
<1>3. Cloud!Deploy => Served(Cloud!here)
    <2> SUFFICES ASSUME Cloud!Deploy PROVE Served(Cloud!here)
        OBVIOUS
    <2>1. Exported(Cloud!here) /\ DatabaseHolds(Cloud!here) /\ IndexHolds(Cloud!here)
        BY <1>1 DEF CloudInv
    <2>2. /\ disk[Cloud!here].d1 /\ {Cloud!Schema} \cup disk[Cloud!here].sql \subseteq disk[Cloud!here].imported
          /\ disk[Cloud!here].index /\ 1..Cloud!Cardinality(publishing.chunks) \subseteq disk[Cloud!here].upserted
          /\ Cloud!here \notin mixed => publishing.chunks = Cloud!here[1]
          /\ publishing.chunks \subseteq Cloud!ChunkIds
        BY <1>1 DEF Progress, Cloud!At, Cloud!Mine, Cloud!Positions
    <2>3. {Cloud!Schema} \cup disk[Cloud!here].sql \subseteq cloud[Cloud!here].d1 /\ cloud[Cloud!here].d1 # Nothing
        BY <2>1, <2>2 DEF DatabaseHolds
    <2>4. cloud[Cloud!here].index # Nothing
        BY <2>1, <2>2 DEF IndexHolds
    <2>5. ASSUME Cloud!here \notin mixed, NEW c \in Cloud!here[1] PROVE c \in cloud[Cloud!here].index
        <3>1. Cloud!IsFiniteSet(Cloud!here[1]) /\ Cloud!here[1] \subseteq Int
            BY <2>2, <2>5, FS_Subset, SameSizes DEF Cloud!ConstantsOK
        <3>2. PICK i \in 1..Cloud!Cardinality(Cloud!here[1]) : Cloud!Ith(Cloud!here[1], i) = c
            BY <3>1, <2>5, IthCounts
        <3>3. i \in disk[Cloud!here].upserted
            BY <2>2, <2>5
        <3>4. Uploaded(Cloud!here, i)
            BY <2>1, <3>3 DEF IndexHolds
        <3> QED BY <2>5, <3>2, <3>4 DEF Uploaded
    <2> QED BY <2>3, <2>4, <2>5 DEF Served
<1>4. deployed' = deployed \cup (IF Cloud!Deploy THEN {Cloud!here} ELSE {}) /\ deployed \subseteq deployed'
    BY DEF Cloud!At
<1>5. deployed' \subseteq Cloud!Versions
    BY <1>1, <1>4 DEF Shapes
<1>6. Shapes'
    BY <1>1, <1>2, <1>5 DEF Shapes, Cloud!Idle, Cloud!here, Cloud!At, Cloud!Go, Steps
<1>7. Progress'
    BY <1>1, <1>2 DEF Cloud!here, Cloud!Mine, Cloud!At, Cloud!Go, Cloud!Exporting, Cloud!Positions, Uploaded,
                      Progress, Shapes, Cloud!Idle
<1>8. worker' # Nothing => worker'.version \in deployed'
    BY <1>1 DEF CloudInv
<1>9. {top'.current, top'.previous} \subseteq deployed' \cup {Nothing}
    <2>1. {top.current, top.previous} \subseteq deployed \cup {Nothing} /\ DOMAIN top = {"current", "previous"}
        BY DEF CloudInv, Shapes
    <2>2. Cloud!RecordCurrent => Cloud!here \in deployed
        BY <1>1 DEF Progress, Cloud!At
    <2> QED BY <1>4, <2>1, <2>2
<1> QED BY <1>2, <1>3, <1>4, <1>6, <1>7, <1>8, <1>9, SameVersion DEF CloudInv

(* The build edits the graph. *)
LEMMA EditKeeps == ASSUME Cloud!ConstantsOK, CloudInv, Cloud!Edit PROVE CloudInv'
<1> USE DEF Cloud!Edit
<1>1. Shapes /\ Progress /\ disk' = disk /\ cloud' = cloud /\ publishing' = publishing
    BY DEF CloudInv
<1>2. mixed \subseteq mixed' /\ mixed' \subseteq Cloud!Versions /\ graph' \in Graphs
    BY <1>1 DEF Shapes, Cloud!At, Cloud!Exporting
<1>3. Shapes'
    BY <1>1, <1>2 DEF Shapes, Cloud!here, Cloud!At
<1>4. publishing.pc \in Cloud!Exporting /\ Cloud!here \notin mixed' => Cloud!Version(graph') = Cloud!here
    BY <1>1, <1>2 DEF Progress
<1>5. Progress'
    BY <1>1, <1>2, <1>4 DEF Progress, Cloud!here, Cloud!Mine, Cloud!At, Cloud!Positions, Uploaded
<1> QED BY <1>1, <1>2, <1>3, <1>5, SameVersion DEF CloudInv

(* Exports, and what the state file says of them. *)
LEMMA ExportSqlKeeps == ASSUME Cloud!ConstantsOK, CloudInv, Cloud!ExportSql PROVE CloudInv'
<1> DEFINE rows == publishing.rows \cup Cloud!EdgeRows(graph)
<1>1. /\ Shapes /\ Progress /\ Cloud!here \in Cloud!Versions /\ publishing.pc = "edges"
      /\ publishing' = [publishing EXCEPT !.pc = "d1"]
      /\ Cloud!Recorded("sql", rows)
      /\ UNCHANGED <<graph, registry, top, cloud, worker, edits, kills, mixed, deployed>>
    BY DEF CloudInv, Shapes, Cloud!ExportSql, Cloud!At, Cloud!Go
<1>2. /\ DOMAIN disk' = Cloud!Versions /\ \A v \in Cloud!Versions : DOMAIN disk'[v] = DOMAIN Cloud!Fresh
      /\ disk'[Cloud!here].sql = rows
      /\ \A f \in DOMAIN Cloud!Fresh \ {"sql"} : disk'[Cloud!here][f] = disk[Cloud!here][f]
      /\ \A v \in Cloud!Versions \ {Cloud!here} : disk'[v] = disk[v]
    BY <1>1, RecordedFacts DEF Cloud!Fresh
<1>3. /\ disk'[Cloud!here].imported = disk[Cloud!here].imported /\ disk'[Cloud!here].d1 = disk[Cloud!here].d1
      /\ disk'[Cloud!here].index = disk[Cloud!here].index /\ disk'[Cloud!here].vectors = disk[Cloud!here].vectors
      /\ disk'[Cloud!here].upserted = disk[Cloud!here].upserted
    BY <1>2 DEF Cloud!Fresh
<1>4. PICK g \in Graphs :
          publishing.rows = Cloud!ChunkRows(g) /\ (Cloud!here \notin mixed => g.chunks = Cloud!here[1])
    BY <1>1 DEF Progress, Cloud!At
<1>5. graph \in Graphs /\ rows \subseteq Cloud!Files \ {Cloud!Schema}
    BY <1>1, <1>4, RowKinds DEF Shapes, Cloud!Files
<1>6. rows # Nothing
    BY <1>5 DEF Cloud!ConstantsOK
<1>7. Cloud!here \notin mixed => <<Cloud!IdsOf("chunk", rows), Cloud!IdsOf("edge", rows)>> = Cloud!here
    <2> SUFFICES ASSUME Cloud!here \notin mixed
                 PROVE  <<Cloud!IdsOf("chunk", rows), Cloud!IdsOf("edge", rows)>> = Cloud!here
        OBVIOUS
    <2> DEFINE A == Cloud!ChunkRows(g)
               B == Cloud!EdgeRows(graph)
    <2>3. rows = A \cup B
        BY <1>4
    <2>4. /\ Cloud!IdsOf("chunk", A) = g.chunks /\ Cloud!IdsOf("edge", A) = {}
          /\ Cloud!IdsOf("edge", B) = graph.edges /\ Cloud!IdsOf("chunk", B) = {}
        BY RowKinds
    <2> HIDE DEF A, B
    <2>5. Cloud!IdsOf("chunk", A \cup B) = Cloud!IdsOf("chunk", A) \cup Cloud!IdsOf("chunk", B)
        BY IdsOfUnion
    <2>6. Cloud!IdsOf("edge", A \cup B) = Cloud!IdsOf("edge", A) \cup Cloud!IdsOf("edge", B)
        BY IdsOfUnion
    <2>1. Cloud!IdsOf("chunk", rows) = g.chunks /\ Cloud!IdsOf("edge", rows) = graph.edges
        BY <2>3, <2>4, <2>5, <2>6
    <2>2. <<graph.chunks, graph.edges>> = Cloud!here
        BY <1>1 DEF Progress, Cloud!Exporting, Cloud!Version
    <2> QED BY <1>4, <2>1, <2>2
<1>8. /\ \A v \in Cloud!Versions : Exported(v) /\ DatabaseHolds(v) /\ IndexHolds(v)
      /\ \A v \in deployed : Served(v)
    BY DEF CloudInv
<1>9. Cloud!here' = Cloud!here /\ Shapes'
    BY <1>1, <1>2 DEF Shapes, Cloud!here, Cloud!At, Cloud!Idle, Steps, AfterSql
<1>10. disk[Cloud!here].sql = Nothing
    BY <1>1 DEF Progress, Cloud!Mine
<1>11. /\ cloud[Cloud!here].d1 = Nothing /\ ~disk[Cloud!here].d1
       /\ disk[Cloud!here].imported = {} /\ Cloud!here \notin deployed
    BY <1>1, <1>8, <1>10 DEF DatabaseHolds, Served
<1>12. ASSUME NEW v \in Cloud!Versions PROVE Exported(v)' /\ DatabaseHolds(v)' /\ IndexHolds(v)'
    <2>1. CASE v = Cloud!here
        <3>1. Exported(v)'
            BY <1>1, <1>2, <1>5, <1>7, <2>1 DEF Exported
        <3>2. DatabaseHolds(v)'
            BY <1>1, <1>3, <1>11, <2>1 DEF DatabaseHolds
        <3>3. IndexHolds(v)'
            BY <1>1, <1>3, <1>8, <2>1 DEF IndexHolds, Uploaded
        <3> QED BY <3>1, <3>2, <3>3
    <2>2. CASE v # Cloud!here
        BY <1>1, <1>2, <1>8, <2>2, SameVersion
    <2> QED BY <2>1, <2>2
<1>13. \A v \in deployed : Served(v)'
    BY <1>1, <1>2, <1>8, <1>11, SameVersion DEF Shapes
<1>14. Progress'
    BY <1>1, <1>2, <1>6, <1>9
       DEF Progress, Cloud!Mine, Cloud!At, Shapes, Cloud!Idle, AfterSql, AfterImport, AfterRows, AfterVectors,
           AfterUpsert, Cloud!Exporting
<1> QED BY <1>1, <1>9, <1>12, <1>13, <1>14 DEF CloudInv

LEMMA FoundKeeps ==
    ASSUME Cloud!ConstantsOK, CloudInv, NEW kind \in {"d1", "index"}, Cloud!Found(kind)
    PROVE  CloudInv'
<1>1. /\ Shapes /\ Progress /\ Cloud!here \in Cloud!Versions /\ publishing.pc = kind
      /\ publishing' = [publishing EXCEPT !.pc = IF kind = "d1" THEN "import" ELSE "upsert"]
      /\ Cloud!Recorded(kind, TRUE)
      /\ UNCHANGED <<graph, registry, top, cloud, worker, edits, kills, mixed, deployed>>
    BY DEF CloudInv, Shapes, Cloud!Found, Cloud!At, Cloud!Go
<1>2. /\ DOMAIN disk' = Cloud!Versions /\ \A v \in Cloud!Versions : DOMAIN disk'[v] = DOMAIN Cloud!Fresh
      /\ disk'[Cloud!here][kind] = TRUE
      /\ \A f \in DOMAIN Cloud!Fresh \ {kind} : disk'[Cloud!here][f] = disk[Cloud!here][f]
      /\ \A v \in Cloud!Versions \ {Cloud!here} : disk'[v] = disk[v]
    BY <1>1, RecordedFacts DEF Cloud!Fresh
<1>3. /\ disk'[Cloud!here].sql = disk[Cloud!here].sql /\ disk'[Cloud!here].imported = disk[Cloud!here].imported
      /\ disk'[Cloud!here].vectors = disk[Cloud!here].vectors
      /\ disk'[Cloud!here].upserted = disk[Cloud!here].upserted
    BY <1>2 DEF Cloud!Fresh
<1>4. /\ kind = "d1" => disk'[Cloud!here].d1 /\ disk'[Cloud!here].index = disk[Cloud!here].index
      /\ kind = "index" => disk'[Cloud!here].index /\ disk'[Cloud!here].d1 = disk[Cloud!here].d1
    BY <1>2 DEF Cloud!Fresh
<1>5. /\ \A v \in Cloud!Versions : Exported(v) /\ DatabaseHolds(v) /\ IndexHolds(v)
      /\ \A v \in deployed : Served(v)
    BY DEF CloudInv
<1>6. Cloud!here' = Cloud!here /\ Shapes'
    BY <1>1, <1>2 DEF Shapes, Cloud!here, Cloud!At, Cloud!Idle, Steps, AfterSql, AfterImport, AfterRows,
                      AfterVectors
<1>7. cloud[Cloud!here][kind] # Nothing
    BY <1>1, <1>5 DEF Cloud!Found, Cloud!Mine, DatabaseHolds, IndexHolds
<1>8. ASSUME NEW v \in Cloud!Versions PROVE Exported(v)' /\ DatabaseHolds(v)' /\ IndexHolds(v)'
    <2>1. CASE v = Cloud!here
        <3>1. Exported(v)'
            BY <1>1, <1>3, <1>5, <2>1 DEF Exported
        <3>2. DatabaseHolds(v)'
            BY <1>1, <1>3, <1>4, <1>5, <1>7, <2>1 DEF DatabaseHolds
        <3>3. IndexHolds(v)'
            BY <1>1, <1>3, <1>4, <1>5, <1>7, <2>1 DEF IndexHolds, Uploaded
        <3> QED BY <3>1, <3>2, <3>3
    <2>2. CASE v # Cloud!here
        BY <1>1, <1>2, <1>5, <2>2, SameVersion
    <2> QED BY <2>1, <2>2
<1>9. \A v \in deployed : Served(v)'
    BY <1>1, <1>2, <1>3, <1>5 DEF Shapes, Served
<1>10. Progress'
    BY <1>1, <1>3, <1>4, <1>6
       DEF Progress, Cloud!Mine, Cloud!At, Shapes, Cloud!Idle, AfterSql, AfterImport, AfterRows, AfterVectors,
           AfterUpsert, Cloud!Exporting, Cloud!Positions
<1> QED BY <1>1, <1>6, <1>8, <1>9, <1>10 DEF CloudInv

LEMMA RecordImportKeeps == ASSUME Cloud!ConstantsOK, CloudInv, Cloud!RecordImport PROVE CloudInv'
<1> DEFINE value == disk[Cloud!here].imported \cup {publishing.done}
<1>1. /\ Shapes /\ Progress /\ Cloud!here \in Cloud!Versions /\ publishing.pc = "import"
      /\ publishing.done # Nothing
      /\ publishing' = [publishing EXCEPT !.done = Nothing]
      /\ Cloud!Recorded("imported", value)
      /\ UNCHANGED <<graph, registry, top, cloud, worker, edits, kills, mixed, deployed>>
    BY DEF CloudInv, Shapes, Cloud!RecordImport, Cloud!At, Cloud!Mine
<1>2. /\ DOMAIN disk' = Cloud!Versions /\ \A v \in Cloud!Versions : DOMAIN disk'[v] = DOMAIN Cloud!Fresh
      /\ disk'[Cloud!here].imported = value
      /\ \A f \in DOMAIN Cloud!Fresh \ {"imported"} : disk'[Cloud!here][f] = disk[Cloud!here][f]
      /\ \A v \in Cloud!Versions \ {Cloud!here} : disk'[v] = disk[v]
    BY <1>1, RecordedFacts DEF Cloud!Fresh
<1>3. /\ disk'[Cloud!here].sql = disk[Cloud!here].sql /\ disk'[Cloud!here].d1 = disk[Cloud!here].d1
      /\ disk'[Cloud!here].index = disk[Cloud!here].index
      /\ disk'[Cloud!here].vectors = disk[Cloud!here].vectors
      /\ disk'[Cloud!here].upserted = disk[Cloud!here].upserted
    BY <1>2 DEF Cloud!Fresh
<1>4. /\ \A v \in Cloud!Versions : Exported(v) /\ DatabaseHolds(v) /\ IndexHolds(v)
      /\ \A v \in deployed : Served(v)
    BY DEF CloudInv
<1>5. Cloud!here' = Cloud!here /\ Shapes'
    BY <1>1, <1>2 DEF Shapes, Cloud!here, Cloud!At, Cloud!Idle
<1>6. disk[Cloud!here].d1 /\ publishing.done \in cloud[Cloud!here].d1
    BY <1>1 DEF Progress, Cloud!Mine, Cloud!At, AfterSql
<1>7. ASSUME NEW v \in Cloud!Versions PROVE Exported(v)' /\ DatabaseHolds(v)' /\ IndexHolds(v)'
    <2>1. CASE v = Cloud!here
        <3>1. Exported(v)'
            BY <1>1, <1>3, <1>4, <2>1 DEF Exported
        <3>2. DatabaseHolds(v)'
            BY <1>1, <1>2, <1>3, <1>4, <1>6, <2>1 DEF DatabaseHolds
        <3>3. IndexHolds(v)'
            BY <1>1, <1>3, <1>4, <2>1 DEF IndexHolds, Uploaded
        <3> QED BY <3>1, <3>2, <3>3
    <2>2. CASE v # Cloud!here
        BY <1>1, <1>2, <1>4, <2>2, SameVersion
    <2> QED BY <2>1, <2>2
<1>8. \A v \in deployed : Served(v)'
    BY <1>1, <1>2, <1>3, <1>4 DEF Shapes, Served
<1>9. Progress'
    BY <1>1, <1>3, <1>5
       DEF Progress, Cloud!Mine, Cloud!At, Shapes, Cloud!Idle, AfterSql, AfterImport, AfterRows, AfterVectors,
           AfterUpsert, Cloud!Exporting
<1> QED BY <1>1, <1>5, <1>7, <1>8, <1>9 DEF CloudInv

LEMMA WriteVectorsKeeps ==
    ASSUME Cloud!ConstantsOK, CloudInv, NEW i \in 1..Cloud!Cardinality(Cloud!ChunkIds), Cloud!WriteVectors(i)
    PROVE  CloudInv'
<1> DEFINE old == disk[Cloud!here].vectors
           c == Cloud!Ith(publishing.chunks, i)
           value == [j \in DOMAIN old \cup {i} |-> IF j = i THEN c ELSE old[j]]
<1>1. /\ Shapes /\ Progress /\ Cloud!here \in Cloud!Versions /\ publishing.pc = "vectors"
      /\ publishing' = publishing
      /\ Cloud!Recorded("vectors", value) /\ i \in 1..Cloud!Cardinality(publishing.chunks)
      /\ UNCHANGED <<graph, registry, top, cloud, worker, edits, kills, mixed, deployed>>
    BY DEF CloudInv, Shapes, Cloud!WriteVectors, Cloud!At, Cloud!Mine, Cloud!Positions
<1>2. /\ DOMAIN disk' = Cloud!Versions /\ \A v \in Cloud!Versions : DOMAIN disk'[v] = DOMAIN Cloud!Fresh
      /\ disk'[Cloud!here].vectors = value
      /\ \A f \in DOMAIN Cloud!Fresh \ {"vectors"} : disk'[Cloud!here][f] = disk[Cloud!here][f]
      /\ \A v \in Cloud!Versions \ {Cloud!here} : disk'[v] = disk[v]
    BY <1>1, RecordedFacts DEF Cloud!Fresh
<1>3. /\ disk'[Cloud!here].sql = disk[Cloud!here].sql /\ disk'[Cloud!here].d1 = disk[Cloud!here].d1
      /\ disk'[Cloud!here].index = disk[Cloud!here].index
      /\ disk'[Cloud!here].imported = disk[Cloud!here].imported
      /\ disk'[Cloud!here].upserted = disk[Cloud!here].upserted
    BY <1>2 DEF Cloud!Fresh
<1>4. /\ \A v \in Cloud!Versions : Exported(v) /\ DatabaseHolds(v) /\ IndexHolds(v)
      /\ \A v \in deployed : Served(v)
    BY DEF CloudInv
<1>5. Cloud!here' = Cloud!here /\ Shapes'
    BY <1>1, <1>2 DEF Shapes, Cloud!here, Cloud!At
<1>6. publishing.chunks \subseteq Cloud!ChunkIds /\ (Cloud!here \notin mixed => publishing.chunks = Cloud!here[1])
    BY <1>1 DEF Progress, AfterRows
<1>7. c \in Cloud!ChunkIds
    <2>1. Cloud!IsFiniteSet(publishing.chunks) /\ publishing.chunks \subseteq Int
        BY <1>6, FS_Subset, SameSizes DEF Cloud!ConstantsOK
    <2> QED BY <1>1, <1>6, <2>1, IthCounts
<1>8. ASSUME NEW v \in Cloud!Versions PROVE Exported(v)' /\ DatabaseHolds(v)' /\ IndexHolds(v)'
    <2>1. CASE v = Cloud!here
        <3>1. Exported(v)'
            BY <1>1, <1>3, <1>4, <2>1 DEF Exported
        <3>2. DatabaseHolds(v)'
            BY <1>1, <1>3, <1>4, <2>1 DEF DatabaseHolds
        <3>3. ASSUME NEW j \in DOMAIN value
              PROVE  /\ j \in 1..Cloud!Cardinality(Cloud!ChunkIds) /\ value[j] \in Cloud!ChunkIds
                     /\ v \notin mixed => value[j] = Cloud!Ith(v[1], j)
            BY <1>4, <1>6, <1>7, <2>1 DEF IndexHolds
        <3> HIDE DEF value
        <3>4. IndexHolds(v)'
            BY <1>1, <1>2, <1>3, <1>4, <2>1, <3>3 DEF IndexHolds, Uploaded
        <3> QED BY <3>1, <3>2, <3>4
    <2>2. CASE v # Cloud!here
        BY <1>1, <1>2, <1>4, <2>2, SameVersion
    <2> QED BY <2>1, <2>2
<1>9. \A v \in deployed : Served(v)'
    BY <1>1, <1>2, <1>3, <1>4 DEF Shapes, Served
<1>10. Progress'
    BY <1>1, <1>3, <1>5
       DEF Progress, Cloud!Mine, Cloud!At, Shapes, AfterSql, AfterImport, AfterRows, AfterVectors, AfterUpsert, Cloud!Exporting
<1> QED BY <1>1, <1>5, <1>8, <1>9, <1>10 DEF CloudInv

LEMMA RecordUpsertKeeps == ASSUME Cloud!ConstantsOK, CloudInv, Cloud!RecordUpsert PROVE CloudInv'
<1> DEFINE value == disk[Cloud!here].upserted \cup {publishing.done}
<1>1. /\ Shapes /\ Progress /\ Cloud!here \in Cloud!Versions /\ publishing.pc = "upsert"
      /\ publishing.done # Nothing
      /\ publishing' = [publishing EXCEPT !.done = Nothing]
      /\ Cloud!Recorded("upserted", value)
      /\ UNCHANGED <<graph, registry, top, cloud, worker, edits, kills, mixed, deployed>>
    BY DEF CloudInv, Shapes, Cloud!RecordUpsert, Cloud!At, Cloud!Mine
<1>2. /\ DOMAIN disk' = Cloud!Versions /\ \A v \in Cloud!Versions : DOMAIN disk'[v] = DOMAIN Cloud!Fresh
      /\ disk'[Cloud!here].upserted = value
      /\ \A f \in DOMAIN Cloud!Fresh \ {"upserted"} : disk'[Cloud!here][f] = disk[Cloud!here][f]
      /\ \A v \in Cloud!Versions \ {Cloud!here} : disk'[v] = disk[v]
    BY <1>1, RecordedFacts DEF Cloud!Fresh
<1>3. /\ disk'[Cloud!here].sql = disk[Cloud!here].sql /\ disk'[Cloud!here].d1 = disk[Cloud!here].d1
      /\ disk'[Cloud!here].index = disk[Cloud!here].index
      /\ disk'[Cloud!here].imported = disk[Cloud!here].imported
      /\ disk'[Cloud!here].vectors = disk[Cloud!here].vectors
    BY <1>2 DEF Cloud!Fresh
<1>4. /\ \A v \in Cloud!Versions : Exported(v) /\ DatabaseHolds(v) /\ IndexHolds(v)
      /\ \A v \in deployed : Served(v)
    BY DEF CloudInv
<1>5. Cloud!here' = Cloud!here /\ Shapes'
    BY <1>1, <1>2 DEF Shapes, Cloud!here, Cloud!At, Cloud!Idle
<1>6. disk[Cloud!here].index /\ Uploaded(Cloud!here, publishing.done)
    BY <1>1 DEF Progress, Cloud!Mine, Cloud!At
<1>7. ASSUME NEW v \in Cloud!Versions PROVE Exported(v)' /\ DatabaseHolds(v)' /\ IndexHolds(v)'
    <2>1. CASE v = Cloud!here
        <3>1. Exported(v)'
            BY <1>1, <1>3, <1>4, <2>1 DEF Exported
        <3>2. DatabaseHolds(v)'
            BY <1>1, <1>3, <1>4, <2>1 DEF DatabaseHolds
        <3>3. \A i \in value : Uploaded(v, i)
            BY <1>4, <1>6, <2>1 DEF IndexHolds
        <3>4. \A i \in value : Uploaded(v, i)'
            BY <1>1, <3>3 DEF Uploaded
        <3> HIDE DEF value
        <3>6. /\ disk'[v].index /\ disk[v].index /\ disk'[v].vectors = disk[v].vectors /\ disk'[v].upserted = value
              /\ cloud'[v] = cloud[v] /\ mixed' = mixed
            BY <1>1, <1>2, <1>3, <1>6, <2>1
        <3>5. IndexHolds(v)'
            BY <1>4, <3>4, <3>6 DEF IndexHolds
        <3> QED BY <3>1, <3>2, <3>5
    <2>2. CASE v # Cloud!here
        BY <1>1, <1>2, <1>4, <2>2, SameVersion
    <2> QED BY <2>1, <2>2
<1>8. \A v \in deployed : Served(v)'
    BY <1>1, <1>2, <1>3, <1>4 DEF Shapes, Served
<1>9. Progress'
    BY <1>1, <1>2, <1>3, <1>5
       DEF Progress, Cloud!Mine, Cloud!At, Shapes, Cloud!Idle, AfterSql, AfterImport, AfterRows, AfterVectors,
           AfterUpsert, Cloud!Exporting, Cloud!Positions
<1> QED BY <1>1, <1>5, <1>7, <1>8, <1>9 DEF CloudInv

(* What the account comes to hold. *)
LEMMA CreateKeeps ==
    ASSUME Cloud!ConstantsOK, CloudInv, NEW kind \in {"d1", "index"}, Cloud!Create(kind)
    PROVE  CloudInv'
<1>1. /\ Shapes /\ Progress /\ Cloud!here \in Cloud!Versions /\ publishing.pc = kind
      /\ cloud[Cloud!here][kind] = Nothing
      /\ cloud' = [cloud EXCEPT ![Cloud!here][kind] = {}]
      /\ UNCHANGED <<graph, registry, disk, top, worker, publishing, edits, kills, mixed, deployed>>
    BY DEF CloudInv, Shapes, Cloud!Create, Cloud!At
<1>2. /\ DOMAIN cloud' = Cloud!Versions /\ \A v \in Cloud!Versions : DOMAIN cloud'[v] = {"d1", "index"}
      /\ cloud'[Cloud!here][kind] = {} /\ {} # Nothing
      /\ \A k \in {"d1", "index"} \ {kind} : cloud'[Cloud!here][k] = cloud[Cloud!here][k]
      /\ \A v \in Cloud!Versions \ {Cloud!here} : cloud'[v] = cloud[v]
    BY <1>1 DEF Shapes, Cloud!ConstantsOK
<1>3. /\ \A v \in Cloud!Versions : Exported(v) /\ DatabaseHolds(v) /\ IndexHolds(v)
      /\ \A v \in deployed : Served(v)
    BY DEF CloudInv
<1>4. Cloud!here' = Cloud!here /\ Shapes'
    BY <1>1, <1>2 DEF Shapes, Cloud!here, Cloud!At
<1>5. Cloud!here \notin deployed
    BY <1>1, <1>3 DEF Served
<1>6. disk[Cloud!here].sql # Nothing
    BY <1>1 DEF Progress, Cloud!Mine, AfterSql, AfterImport, AfterRows, AfterVectors
<1>7. ASSUME NEW v \in Cloud!Versions PROVE Exported(v)' /\ DatabaseHolds(v)' /\ IndexHolds(v)'
    <2>1. CASE v = Cloud!here
        <3>1. Exported(v)'
            BY <1>1, <1>3, <2>1 DEF Exported
        <3>2. DatabaseHolds(v)'
            BY <1>1, <1>2, <1>3, <1>6, <2>1 DEF DatabaseHolds
        <3>3. kind = "index" => ~disk[Cloud!here].index
            BY <1>1, <1>3 DEF IndexHolds
        <3>4. IndexHolds(v)'
            BY <1>1, <1>2, <1>3, <2>1, <3>3 DEF IndexHolds, Uploaded
        <3> QED BY <3>1, <3>2, <3>4
    <2>2. CASE v # Cloud!here
        BY <1>1, <1>2, <1>3, <2>2, SameVersion
    <2> QED BY <2>1, <2>2
<1>8. \A v \in deployed : Served(v)'
    BY <1>1, <1>2, <1>3, <1>5, SameVersion DEF Shapes
<1>9. Progress'
    BY <1>1, <1>2, <1>4 DEF Progress, Cloud!Mine, Cloud!At, AfterSql, Cloud!Exporting, Cloud!Positions, Uploaded
<1> QED BY <1>1, <1>4, <1>7, <1>8, <1>9 DEF CloudInv

LEMMA ImportKeeps == ASSUME Cloud!ConstantsOK, CloudInv, NEW f \in Cloud!Files, Cloud!Import(f) PROVE CloudInv'
<1>1. /\ Shapes /\ Progress /\ Cloud!here \in Cloud!Versions /\ publishing.pc = "import"
      /\ f \in {Cloud!Schema} \cup disk[Cloud!here].sql
      /\ cloud' = [cloud EXCEPT ![Cloud!here].d1 = @ \cup {f}] /\ publishing' = [publishing EXCEPT !.done = f]
      /\ UNCHANGED <<graph, registry, disk, top, worker, edits, kills, mixed, deployed>>
    BY DEF CloudInv, Shapes, Cloud!Import, Cloud!At, Cloud!Mine
<1>2. /\ \A v \in Cloud!Versions : Exported(v) /\ DatabaseHolds(v) /\ IndexHolds(v)
      /\ \A v \in deployed : Served(v)
    BY DEF CloudInv
<1>3. /\ disk[Cloud!here].sql # Nothing /\ disk[Cloud!here].d1
      /\ cloud[Cloud!here].d1 \subseteq Cloud!Files /\ cloud[Cloud!here].d1 # Nothing
    <2>1. disk[Cloud!here].sql # Nothing /\ disk[Cloud!here].d1
        BY <1>1 DEF Progress, Cloud!Mine, AfterSql
    <2> QED BY <1>1, <1>2, <2>1 DEF DatabaseHolds, Exported, Cloud!Files
<1>4. cloud[Cloud!here].d1 \cup {f} # Nothing
    BY <1>3 DEF Cloud!ConstantsOK
<1>5. /\ DOMAIN cloud' = Cloud!Versions /\ \A v \in Cloud!Versions : DOMAIN cloud'[v] = {"d1", "index"}
      /\ cloud'[Cloud!here].d1 = cloud[Cloud!here].d1 \cup {f} /\ cloud'[Cloud!here].index = cloud[Cloud!here].index
      /\ \A v \in Cloud!Versions \ {Cloud!here} : cloud'[v] = cloud[v]
    BY <1>1 DEF Shapes
<1>6. Cloud!here' = Cloud!here /\ Shapes'
    BY <1>1, <1>5 DEF Shapes, Cloud!here, Cloud!At, Cloud!Idle
<1>7. ASSUME NEW v \in Cloud!Versions PROVE Exported(v)' /\ DatabaseHolds(v)' /\ IndexHolds(v)'
    <2>1. CASE v = Cloud!here
        <3>1. Exported(v)'
            BY <1>1, <1>2, <2>1 DEF Exported
        <3>2. DatabaseHolds(v)'
            BY <1>1, <1>2, <1>3, <1>4, <1>5, <2>1 DEF DatabaseHolds
        <3>3. IndexHolds(v)'
            BY <1>1, <1>2, <1>5, <2>1 DEF IndexHolds, Uploaded
        <3> QED BY <3>1, <3>2, <3>3
    <2>2. CASE v # Cloud!here
        BY <1>1, <1>2, <1>5, <2>2, SameVersion
    <2> QED BY <2>1, <2>2
<1>8. \A v \in deployed : Served(v)'
    BY <1>1, <1>2, <1>4, <1>5 DEF Shapes, Served
<1>9. Progress'
    BY <1>1, <1>5, <1>6
       DEF Progress, Cloud!Mine, Cloud!At, Shapes, Cloud!Idle, AfterSql, AfterImport, AfterRows, AfterVectors,
           AfterUpsert, Cloud!Exporting, Cloud!Positions
<1> QED BY <1>1, <1>6, <1>7, <1>8, <1>9 DEF CloudInv

LEMMA UpsertKeeps ==
    ASSUME Cloud!ConstantsOK, CloudInv, NEW i \in 1..Cloud!Cardinality(Cloud!ChunkIds), Cloud!Upsert(i)
    PROVE  CloudInv'
<1> DEFINE c == disk[Cloud!here].vectors[i]
<1>1. /\ Shapes /\ Progress /\ Cloud!here \in Cloud!Versions /\ publishing.pc = "upsert"
      /\ i \in 1..Cloud!Cardinality(publishing.chunks) /\ i \notin disk[Cloud!here].upserted
      /\ cloud' = [cloud EXCEPT ![Cloud!here].index = @ \cup {c}] /\ publishing' = [publishing EXCEPT !.done = i]
      /\ UNCHANGED <<graph, registry, disk, top, worker, edits, kills, mixed, deployed>>
    BY DEF CloudInv, Shapes, Cloud!Upsert, Cloud!At, Cloud!Mine, Cloud!Positions
<1>2. /\ \A v \in Cloud!Versions : Exported(v) /\ DatabaseHolds(v) /\ IndexHolds(v)
      /\ \A v \in deployed : Served(v)
    BY DEF CloudInv
<1>3. /\ disk[Cloud!here].index /\ i \in DOMAIN disk[Cloud!here].vectors
      /\ publishing.chunks \subseteq Cloud!ChunkIds
      /\ (Cloud!here \notin mixed => publishing.chunks = Cloud!here[1])
    BY <1>1 DEF Progress, Cloud!Mine, Cloud!Positions, AfterRows, AfterVectors
<1>4. /\ c \in Cloud!ChunkIds /\ (Cloud!here \notin mixed => c = Cloud!Ith(Cloud!here[1], i))
      /\ cloud[Cloud!here].index # Nothing /\ cloud[Cloud!here].index \subseteq Cloud!ChunkIds
    BY <1>1, <1>2, <1>3 DEF IndexHolds
<1>5. Cloud!here \notin mixed => c \in Cloud!here[1]
    <2>1. Cloud!IsFiniteSet(publishing.chunks) /\ publishing.chunks \subseteq Int
        BY <1>3, FS_Subset, SameSizes DEF Cloud!ConstantsOK
    <2> QED BY <1>1, <1>3, <1>4, <2>1, IthCounts
<1>6. cloud[Cloud!here].index \cup {c} # Nothing
    <2>1. cloud[Cloud!here].index \cup {c} \in SUBSET Cloud!ChunkIds
        BY <1>4
    <2> QED BY <2>1 DEF Cloud!ConstantsOK
<1>7. /\ DOMAIN cloud' = Cloud!Versions /\ \A v \in Cloud!Versions : DOMAIN cloud'[v] = {"d1", "index"}
      /\ cloud'[Cloud!here].index = cloud[Cloud!here].index \cup {c} /\ cloud'[Cloud!here].d1 = cloud[Cloud!here].d1
      /\ \A v \in Cloud!Versions \ {Cloud!here} : cloud'[v] = cloud[v]
    BY <1>1 DEF Shapes
<1>8. Cloud!here' = Cloud!here /\ Shapes'
    BY <1>1, <1>7 DEF Shapes, Cloud!here, Cloud!At, Cloud!Idle
<1>9. ASSUME NEW v \in Cloud!Versions PROVE Exported(v)' /\ DatabaseHolds(v)' /\ IndexHolds(v)'
    <2>1. CASE v = Cloud!here
        <3>1. Exported(v)'
            BY <1>1, <1>2, <2>1 DEF Exported
        <3>2. DatabaseHolds(v)'
            BY <1>1, <1>2, <1>7, <2>1 DEF DatabaseHolds
        <3>3. IndexHolds(v)'
            BY <1>1, <1>2, <1>3, <1>4, <1>5, <1>6, <1>7, <2>1 DEF IndexHolds, Uploaded
        <3> QED BY <3>1, <3>2, <3>3
    <2>2. CASE v # Cloud!here
        BY <1>1, <1>2, <1>7, <2>2, SameVersion
    <2> QED BY <2>1, <2>2
<1>10. \A v \in deployed : Served(v)'
    BY <1>1, <1>2, <1>6, <1>7 DEF Shapes, Served
<1>11. Uploaded(Cloud!here, i)'
    BY <1>1, <1>4, <1>7, <1>8 DEF Uploaded
<1>12. Progress'
    BY <1>1, <1>7, <1>8, <1>11
       DEF Progress, Cloud!Mine, Cloud!At, Shapes, Cloud!Idle, AfterSql, AfterImport, AfterRows, AfterVectors,
           AfterUpsert, Cloud!Exporting, Cloud!Positions, Uploaded
<1> QED BY <1>1, <1>8, <1>9, <1>10, <1>12 DEF CloudInv

LEMMA NextCloudInv == Cloud!ConstantsOK /\ CloudInv /\ [Cloud!Next]_Cloud!cloudVars => CloudInv'
BY MovesKeep, DeployKeeps, EditKeeps, ExportSqlKeeps, FoundKeeps, RecordImportKeeps, WriteVectorsKeeps,
   RecordUpsertKeeps, CreateKeeps, ImportKeeps, UpsertKeeps
   DEF Cloud!Next, Cloud!Step

(* The invariant says of the Worker what is to be shown. *)
LEMMA CloudInvServes == Cloud!ConstantsOK /\ CloudInv => Cloud!ServedIsWhole /\ Cloud!PreviousWasServed
<1> SUFFICES ASSUME Cloud!ConstantsOK, CloudInv PROVE Cloud!ServedIsWhole /\ Cloud!PreviousWasServed
    OBVIOUS
<1>1. /\ Shapes /\ deployed \subseteq Cloud!Versions
      /\ \A v \in Cloud!Versions : Exported(v) /\ DatabaseHolds(v) /\ IndexHolds(v)
      /\ \A v \in deployed : Served(v)
    BY DEF CloudInv, Shapes
<1>2. {top.current, top.previous} \subseteq deployed \cup {Nothing}
    BY DEF CloudInv
<1>3. Cloud!TypeOK
    <2>1. ASSUME NEW v \in Cloud!Versions
          PROVE  /\ DOMAIN disk[v].vectors \cup disk[v].upserted \subseteq 1..Cloud!Cardinality(Cloud!ChunkIds)
                 /\ disk[v].imported # {} => disk[v].sql # Nothing /\ disk[v].d1
                 /\ disk[v].upserted # {} => disk[v].index
        BY <1>1 DEF DatabaseHolds, IndexHolds, Uploaded
    <2>2. {top.current, top.previous} \cup {publishing.version} \subseteq Cloud!Versions \cup {Nothing}
        BY <1>1, <1>2 DEF Shapes, Cloud!here
    <2> QED BY <1>1, <2>1, <2>2 DEF Cloud!TypeOK, Shapes
<1>4. ASSUME NEW v \in deployed
      PROVE  /\ Cloud!Schema \in cloud[v].d1
             /\ v \notin mixed =>
                  /\ <<Cloud!IdsOf("chunk", cloud[v].d1), Cloud!IdsOf("edge", cloud[v].d1)>> = v
                  /\ cloud[v].index = v[1]
    <2>1. v \in Cloud!Versions /\ Exported(v) /\ DatabaseHolds(v) /\ IndexHolds(v) /\ Served(v)
        BY <1>1
    <2>2. cloud[v].d1 = {Cloud!Schema} \cup disk[v].sql /\ disk[v].sql # Nothing
        BY <2>1 DEF DatabaseHolds, Served
    <2>3. \A kind \in {"chunk", "edge"} : Cloud!IdsOf(kind, cloud[v].d1) = Cloud!IdsOf(kind, disk[v].sql)
        <3>1. ASSUME NEW kind \in {"chunk", "edge"}
              PROVE  Cloud!IdsOf(kind, cloud[v].d1) = Cloud!IdsOf(kind, disk[v].sql)
            BY <2>2, IdsOfFiles, IdsOfUnion
        <3> QED BY <3>1
    <2>4. v \notin mixed => cloud[v].index = v[1]
        BY <2>1 DEF IndexHolds, Served
    <2> QED BY <2>1, <2>2, <2>3, <2>4 DEF Exported
<1>5. Cloud!ServedIsWhole
    BY <1>3, <1>4 DEF CloudInv, Cloud!ServedIsWhole
<1> QED BY <1>2, <1>5 DEF Cloud!PreviousWasServed

(* Whatever edits, kills and reruns came before: the Worker's database and     *)
(* index hold the whole of its version, and what is kept to go back to was     *)
(* once served.                                                                *)
THEOREM WorkerServesWhole == Cloud!Spec => [](Cloud!ServedIsWhole /\ Cloud!PreviousWasServed)
<1>1. Cloud!Init => CloudInv
    BY CloudAssumption, InitCloudInv
<1>2. CloudInv /\ [Cloud!Next]_Cloud!cloudVars => CloudInv'
    BY CloudAssumption, NextCloudInv
<1>3. CloudInv => Cloud!ServedIsWhole /\ Cloud!PreviousWasServed
    BY CloudAssumption, CloudInvServes
<1> QED BY <1>1, <1>2, <1>3, PTL DEF Cloud!Spec

-----------------------------------------------------------------------------
(* Both targets. *)
Targeted(rank) ==
    /\ Located /\ Whole(rank) /\ CloudInv

LEMMA InitTargeted == ASSUME NEW rank, InitPublish PROVE Targeted(rank)
BY InitLocated, InitWhole, InitCloudInv DEF InitPublish, Targeted

LEMMA NextTargeted ==
    ASSUME NEW rank, NeverBack(rank), Targeted(rank), [PublishPostgres \/ PublishCloudflare]_targetVars
    PROVE  Targeted(rank)'
<1>1. [Next]_vars
    BY DEF PublishPostgres, PublishCloudflare, targetVars
<1>2. [Cloud!Next]_cloudVars
    BY DEF PublishPostgres, PublishCloudflare, targetVars
<1>3. Cloud!ConstantsOK
    BY CloudAssumption
<1>4. Cloud!cloudVars = cloudVars /\ Cloud!cloudVars' = cloudVars'
    BY DEF Cloud!cloudVars, cloudVars
<1>5. [Cloud!Next]_Cloud!cloudVars
    BY <1>2, <1>4
<1>6. CloudInv'
    BY <1>3, <1>5, NextCloudInv DEF Targeted
<1> QED BY <1>1, <1>6, NextLocated, NextWhole DEF Targeted

(* What serves at either target is a whole graph, for a source whose tables   *)
(* never return to an earlier number of rows.                                 *)
THEOREM ServesComplete == RowsNeverBack => (PublishSpec => []ServedIsComplete)
<1> SUFFICES ASSUME RowsNeverBack PROVE PublishSpec => []ServedIsComplete
    OBVIOUS
<1>1. PICK rank : NeverBack(rank)
    BY DEF RowsNeverBack
<1>2. InitPublish => Targeted(rank)
    BY InitTargeted
<1>3. Targeted(rank) /\ [PublishPostgres \/ PublishCloudflare]_targetVars => Targeted(rank)'
    BY <1>1, NextTargeted
<1>4. Targeted(rank) => ServedIsComplete
    BY CloudAssumption, CloudInvServes DEF Targeted, Located, Whole, ServedIsComplete
<1> QED BY <1>2, <1>3, <1>4, PTL DEF PublishSpec

(* The version kept to go back to at Cloudflare was served, whatever the edits. *)
THEOREM PreviousServed == PublishSpec => []PreviousWasServed
<1> DEFINE Inv == CloudInv
<1>1. InitPublish => Inv
    BY InitCloudInv DEF InitPublish
<1>2. Inv /\ [PublishPostgres \/ PublishCloudflare]_targetVars => Inv'
    <2> SUFFICES ASSUME Inv, [PublishPostgres \/ PublishCloudflare]_targetVars PROVE Inv'
        OBVIOUS
    <2>1. [Cloud!Next]_cloudVars
        BY DEF PublishPostgres, PublishCloudflare, targetVars
    <2>2. [Cloud!Next]_Cloud!cloudVars
        BY <2>1 DEF Cloud!cloudVars, cloudVars
    <2> QED BY <2>2, CloudAssumption, NextCloudInv
<1>3. Inv => PreviousWasServed
    BY CloudAssumption, CloudInvServes DEF PreviousWasServed
<1> QED BY <1>1, <1>2, <1>3, PTL DEF PublishSpec

(* A deployment with either target publishes to Postgres as Publish says, so    *)
(* the theorems about Publish's Spec hold of it.                               *)
THEOREM TargetsImplementPublish == PublishSpec => Spec
<1>1. InitPublish => Init
    BY DEF InitPublish
<1>2. [PublishPostgres \/ PublishCloudflare]_targetVars => [Next]_vars
    BY DEF PublishPostgres, PublishCloudflare, targetVars
<1> QED BY <1>1, <1>2, PTL DEF PublishSpec, Spec
=============================================================================
