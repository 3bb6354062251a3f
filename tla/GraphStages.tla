---------------------------- MODULE GraphStages ----------------------------
(***************************************************************************)
(* The two parts of a build that draw the graph over chunks: links, audit  *)
(* and evolution in rounds (Build), and the resolution of entities before  *)
(* them (Entities).  They meet in candidate pairs only, which Build takes  *)
(* as given, so an instance runs one of them.                              *)
(***************************************************************************)
EXTENDS Build

CONSTANTS EntityIds, Key, Form, Close, MaxMoves, MaxBreaks

VARIABLES
    stage,  \* the one that runs
    rows, entities, fresh, said, root, name, merged, named, at, left, broken, moves, breaks

R == INSTANCE Entities WITH
    Entities <- EntityIds, Near <- Close, MaxChanges <- MaxMoves, MaxFaults <- MaxBreaks,
    present <- entities, new <- fresh, pc <- at, todo <- left, failed <- broken,
    changes <- moves, faults <- breaks

ASSUME ResolutionAssumption == R!EntitiesAssumption

entityVars == <<rows, entities, fresh, said, root, name, merged, named, at, left, broken, moves, breaks>>
stageVars == <<vars, stage, entityVars>>

InitStages == stage \in {"links", "entities"} /\ Init /\ R!Init

Link == stage = "links" /\ Next /\ UNCHANGED <<stage, entityVars>>
ResolveEntities == stage = "entities" /\ R!Next /\ UNCHANGED <<stage, vars>>

StagesSpec == InitStages /\ [][Link \/ ResolveEntities]_stageVars

-----------------------------------------------------------------------------
(* s5_entities.py, unionfind.py: see Entities. *)
ClustersStand == R!ClustersStand
MergesAreComplete == R!MergesAreComplete
=============================================================================
