------------------------------- MODULE Publish -------------------------------
(***************************************************************************)
(* store/publish.py: the built graph replaces the database a query server  *)
(* reads.  The graph is loaded into <name>_next table by table, recording  *)
(* progress so that an interrupted publish is resumed; the server's        *)
(* sign-ins are carried over; two renames put <name>_next in the place of  *)
(* <name>, which becomes <name>_prev.  Statements run in autocommit mode,  *)
(* so a kill or an error may fall between any two of them.                 *)
(*                                                                         *)
(* A table's content is a value of Contents with RowsIn of it rows, or     *)
(* Empty.  One publish runs at a time, next to the build that edits the    *)
(* source and the server that signs people in.                             *)
(***************************************************************************)
EXTENDS Integers, Sequences, SequencesExt

CONSTANTS
    Order,      \* the published tables in the order they are loaded
    Refs,       \* <<child, parent>>: the foreign keys among them
    Contents,   \* contents a source table may have
    RowsIn,     \* RowsIn[c]: the number of rows of content c
    Edits,      \* <<before, after>>: how the build may change a table's content
    People,     \* who signs in at the server
    LateSignIns,\* whether people sign in while a publish is past carrying them
    Faults,     \* the kinds of interruption this instance allows
    MaxFaults,  \* bound on the interruptions
    Empty,      \* the content of a table without rows
    None,       \* no progress recorded
    Absent      \* no such database

Tables == ToSet(Order)

ASSUME PublishAssumption ==
    /\ Refs \subseteq Tables \X Tables
    /\ RowsIn \in [Contents -> Nat \ {0}]
    /\ Edits \subseteq Contents \X Contents
    /\ LateSignIns \in BOOLEAN
    /\ Faults \subseteq {"error", "kill"}
    /\ MaxFaults \in Nat
    /\ Empty \notin Contents /\ None \notin Nat

VARIABLES
    source,   \* source[t]: the content of table t in the build database
    db,       \* db[n]: the database under name n on the target server
    phase,    \* where the publish is
    replace,  \* local: <name> existed when the publish began
    todo,     \* local: tables still to load
    faults,   \* interruptions so far
    killed    \* history: one of them was a kill

vars == <<source, db, phase, replace, todo, faults, killed>>

Names == {"name", "next", "prev"}
Phases == {"idle", "begun", "planned", "truncated", "loading", "indexing", "carrying",
           "dropping", "closing", "closed", "reopening", "rescuing", "renaming"}
Rows(c) == IF c = Empty THEN 0 ELSE RowsIn[c]
Counts == {RowsIn[c] : c \in Contents} \cup {0}
Database == [tables : [Tables -> Contents \cup {Empty}], progress : [Tables -> Counts \cup {None}],
             indexed : SUBSET Tables, signIns : SUBSET People, allow : BOOLEAN]

ASSUME AbsentAssumption == Absent \notin Database

(* A database as migrations leave it: tables without rows, with their indexes. *)
Created == [tables |-> [t \in Tables |-> Empty], progress |-> [t \in Tables |-> None],
            indexed |-> Tables, signIns |-> {}, allow |-> TRUE]

TypeOK ==
    /\ source \in [Tables -> Contents]
    /\ db \in [Names -> Database \cup {Absent}]
    /\ phase \in Phases
    /\ replace \in BOOLEAN
    /\ todo \subseteq Tables
    /\ faults \in 0..MaxFaults
    /\ killed \in BOOLEAN

Init ==
    /\ source \in [Tables -> Contents]
    /\ db = [n \in Names |-> Absent]
    /\ phase = "idle"
    /\ replace = FALSE
    /\ todo = {}
    /\ faults = 0
    /\ killed = FALSE

-----------------------------------------------------------------------------
(* The tables emptied together with those of S: all that reference them. *)
Emptied(S) ==
    {t \in Tables :
        \A T \in SUBSET Tables :
            S \subseteq T /\ (\A r \in Refs : r[2] \in T => r[1] \in T) => t \in T}

(* Rows loaded per table, by the progress table; by the tables themselves when *)
(* it is empty.                                                               *)
Done(d) ==
    IF \A t \in Tables : d.progress[t] = None
    THEN [t \in Tables |-> IF d.tables[t] = Empty THEN None ELSE Rows(d.tables[t])]
    ELSE d.progress

Stale == {t \in Tables : Done(db["next"])[t] # Rows(source[t])}

Complete(d) == d # Absent /\ \A t \in Tables : d.tables[t] # Empty /\ t \in d.indexed

(* The build goes on beside the publish. *)
Edit(t) ==
    /\ \E e \in Edits : source[t] = e[1] /\ source' = [source EXCEPT ![t] = e[2]]
    /\ UNCHANGED <<db, phase, replace, todo, faults, killed>>

(* A person signs in at the server, whose pooled connections to <name> outlive *)
(* ALLOW_CONNECTIONS false and end with the rename.                           *)
SignIn(u) ==
    /\ db["name"] # Absent
    /\ LateSignIns \/ phase \notin {"dropping", "closing", "closed"}
    /\ db' = [db EXCEPT !["name"].signIns = @ \cup {u}]
    /\ UNCHANGED <<source, phase, replace, todo, faults, killed>>

-----------------------------------------------------------------------------
(* Regression: the old rollback is dropped to make room when a publish begins. *)
BeginDroppingPrev ==
    /\ phase = "idle"
    /\ phase' = "begun"
    /\ replace' = (db["name"] # Absent)
    /\ db' = [db EXCEPT !["next"] = IF @ = Absent THEN Created ELSE @, !["prev"] = Absent]
    /\ UNCHANGED <<source, todo, faults, killed>>

(* publish: is there a database to replace; is there one to resume. *)
Begin ==
    /\ phase = "idle"
    /\ phase' = "begun"
    /\ replace' = (db["name"] # Absent)
    /\ db' = IF db["next"] = Absent THEN [db EXCEPT !["next"] = Created] ELSE db
    /\ UNCHANGED <<source, todo, faults, killed>>

(* _load decides which tables to load. *)
Plan ==
    /\ phase = "begun"
    /\ todo' = Emptied(Stale)
    /\ phase' = IF todo' = {} THEN "indexing" ELSE "planned"
    /\ UNCHANGED <<source, db, replace, faults, killed>>

Truncate ==
    /\ phase = "planned"
    /\ phase' = "truncated"
    /\ db' = [db EXCEPT !["next"].tables =
                [t \in Tables |-> IF t \in todo THEN Empty ELSE @[t]]]
    /\ UNCHANGED <<source, replace, todo, faults, killed>>

ForgetProgress ==
    /\ phase = "truncated"
    /\ phase' = "loading"
    /\ db' = [db EXCEPT !["next"].progress =
                [t \in Tables |-> IF t \in todo THEN None ELSE @[t]]]
    /\ UNCHANGED <<source, replace, todo, faults, killed>>

(* Before the first table is loaded, the secondary indexes of all of them go. *)
DropIndex(t) ==
    /\ phase = "loading"
    /\ t \in todo \cap db["next"].indexed
    /\ db' = [db EXCEPT !["next"].indexed = @ \ {t}]
    /\ UNCHANGED <<source, phase, replace, todo, faults, killed>>

(* _copy: the rows and the progress record, in one transaction. *)
Copy(i) ==
    /\ phase = "loading"
    /\ todo \cap db["next"].indexed = {}
    /\ Order[i] \in todo
    /\ \A j \in 1..(i - 1) : Order[j] \notin todo
    /\ db' = [db EXCEPT !["next"].tables[Order[i]] = source[Order[i]],
                        !["next"].progress[Order[i]] = Rows(source[Order[i]])]
    /\ todo' = todo \ {Order[i]}
    /\ phase' = IF todo' = {} THEN "indexing" ELSE "loading"
    /\ UNCHANGED <<source, replace, faults, killed>>

(* Each missing index is kept as soon as it is built. *)
BuildIndex(t) ==
    /\ phase = "indexing"
    /\ t \notin db["next"].indexed
    /\ db' = [db EXCEPT !["next"].indexed = @ \cup {t}]
    /\ UNCHANGED <<source, phase, replace, todo, faults, killed>>

(* Regression: missing indexes are built only by a publish that loads tables. *)
LoadedUnindexed ==
    /\ phase = "indexing"
    /\ phase' = IF replace THEN "carrying" ELSE "renaming"
    /\ UNCHANGED <<source, db, replace, todo, faults, killed>>

Loaded ==
    /\ phase = "indexing"
    /\ db["next"].indexed = Tables
    /\ phase' = IF replace THEN "carrying" ELSE "renaming"
    /\ UNCHANGED <<source, db, replace, todo, faults, killed>>

(* Regression: a publish after an interrupted one takes them as carried over. *)
CarryOnce ==
    /\ phase = "carrying"
    /\ db["name"].allow
    /\ phase' = "dropping"
    /\ db' = IF faults = 0 THEN [db EXCEPT !["next"].signIns = db["name"].signIns] ELSE db
    /\ UNCHANGED <<source, replace, todo, faults, killed>>

(* _carry_sign_ins, taken fresh each time. *)
CarrySignIns ==
    /\ phase = "carrying"
    /\ db["name"].allow
    /\ phase' = "dropping"
    /\ db' = [db EXCEPT !["next"].signIns = db["name"].signIns]
    /\ UNCHANGED <<source, replace, todo, faults, killed>>

(* <name> does not accept the connection: the publish fails. *)
CarryRefused ==
    /\ phase = "carrying"
    /\ ~db["name"].allow
    /\ phase' = "idle"
    /\ UNCHANGED <<source, db, replace, todo, faults, killed>>

-----------------------------------------------------------------------------
(* _swap *)
DropPrev ==
    /\ phase = "dropping"
    /\ phase' = "closing"
    /\ db' = [db EXCEPT !["prev"] = Absent]
    /\ UNCHANGED <<source, replace, todo, faults, killed>>

CloseName ==
    /\ phase = "closing"
    /\ phase' = "closed"
    /\ db' = [db EXCEPT !["name"].allow = FALSE]
    /\ UNCHANGED <<source, replace, todo, faults, killed>>

(* The server's connections are terminated and <name> is renamed. *)
RenameName ==
    /\ phase = "closed"
    /\ phase' = "reopening"
    /\ db' = [db EXCEPT !["prev"] = db["name"], !["name"] = Absent]
    /\ UNCHANGED <<source, replace, todo, faults, killed>>

(* The `finally`: under whichever name, the replaced database opens again. *)
Reopen ==
    /\ phase \in {"reopening", "rescuing"}
    /\ phase' = IF phase = "reopening" THEN "renaming" ELSE "idle"
    /\ LET current == IF db["prev"] # Absent THEN "prev" ELSE "name"
       IN  db' = [db EXCEPT ![current].allow = TRUE]
    /\ UNCHANGED <<source, replace, todo, faults, killed>>

RenameNext ==
    /\ phase = "renaming"
    /\ phase' = "idle"
    /\ db' = [db EXCEPT !["name"] = db["next"], !["next"] = Absent]
    /\ UNCHANGED <<source, replace, todo, faults, killed>>

(* Regression: no `finally`. *)
ErrorAnywhere ==
    /\ "error" \in Faults /\ faults < MaxFaults
    /\ phase \notin {"idle", "reopening", "rescuing"}
    /\ phase' = "idle"
    /\ faults' = faults + 1
    /\ UNCHANGED <<source, db, replace, todo, killed>>

(* A statement fails: the publish ends, after the `finally` if it is in the try. *)
Error ==
    /\ "error" \in Faults /\ faults < MaxFaults
    /\ phase \notin {"idle", "reopening", "rescuing"}
    /\ phase' = IF phase = "closed" THEN "rescuing" ELSE "idle"
    /\ faults' = faults + 1
    /\ UNCHANGED <<source, db, replace, todo, killed>>

(* The process is killed, or its connections break. *)
Kill ==
    /\ "kill" \in Faults /\ faults < MaxFaults
    /\ phase # "idle"
    /\ phase' = "idle"
    /\ faults' = faults + 1
    /\ killed' = TRUE
    /\ UNCHANGED <<source, db, replace, todo>>

-----------------------------------------------------------------------------
Step ==
    \/ Begin \/ Plan \/ Truncate \/ ForgetProgress
    \/ \E t \in Tables : DropIndex(t) \/ BuildIndex(t)
    \/ \E i \in DOMAIN Order : Copy(i)
    \/ Loaded \/ CarrySignIns \/ CarryRefused
    \/ DropPrev \/ CloseName \/ RenameName \/ Reopen \/ RenameNext

Next ==
    \/ Step \/ Error \/ Kill
    \/ \E t \in Tables : Edit(t)
    \/ \E u \in People : SignIn(u)

Spec == Init /\ [][Next]_vars

-----------------------------------------------------------------------------
(* Whatever serves, or is kept as a rollback, has every table with rows and    *)
(* indexes, however many interrupted publishes loaded it.  Tables are copied  *)
(* one by one while the graph changes: they need not be of one moment.        *)
ServedTablesComplete ==
    \A n \in {"name", "prev"} : db[n] # Absent => Complete(db[n])

(* Once a graph has been published there is always a whole copy to serve or to *)
(* go back to, wherever the swaps that follow are cut off.                    *)
HasCopy(d) == \E n \in {"name", "prev"} : Complete(d[n])
NeverWithoutCopy == [][HasCopy(db) => HasCopy(db')]_vars

(* _carry_sign_ins, "so publishing signs no one out": who had signed in at the *)
(* database that was replaced is signed in at the one that replaced it.       *)
NobodySignedOut ==
    db["name"] # Absent /\ db["prev"] # Absent
        => db["prev"].signIns \subseteq db["name"].signIns

=============================================================================
