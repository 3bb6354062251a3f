---------------------------- MODULE PublishTargets ----------------------------
(***************************************************************************)
(* cli.py `publish`: the graph is published to a Postgres server or to a   *)
(* Cloudflare Worker.  A deployment has one target, publishes to it again  *)
(* and again, and resumes a publish that was cut off.                      *)
(***************************************************************************)
EXTENDS Publish

CONSTANTS Graphs, MaxEdits, MaxKills, Nothing

VARIABLES
    target,     \* --target
    graph, registry, disk, top, cloud, worker, publishing, edits, kills, mixed, deployed

Cloud == INSTANCE CloudPublish

ASSUME CloudAssumption == Cloud!ConstantsOK

cloudVars == <<graph, registry, disk, top, cloud, worker, publishing, edits, kills, mixed, deployed>>
targetVars == <<vars, target, cloudVars>>

InitPublish ==
    /\ target \in {"postgres", "cloudflare"}
    /\ Init /\ Cloud!Init
    /\ target = "postgres" => graph = (CHOOSE g \in Graphs : TRUE)
    /\ target = "cloudflare" => source = (CHOOSE s \in [Tables -> Contents] : TRUE)

PublishPostgres == target = "postgres" /\ Next /\ UNCHANGED <<target, cloudVars>>
PublishCloudflare == target = "cloudflare" /\ Cloud!Next /\ UNCHANGED <<target, vars>>

PublishSpec ==
    /\ InitPublish
    /\ [][PublishPostgres \/ PublishCloudflare]_targetVars
    /\ WF_targetVars(target = "postgres" /\ Step /\ UNCHANGED <<target, cloudVars>>)
    /\ WF_targetVars(target = "cloudflare" /\ Cloud!Step /\ UNCHANGED <<target, vars>>)

-----------------------------------------------------------------------------
(* At either target, what serves is a whole graph: every table of the database *)
(* (store/publish.py, the swap), every chunk the Worker's version says it has  *)
(* (cloudflare/publish.py, the deploy).                                        *)
ServedIsComplete == TypeOK /\ ServedTablesComplete /\ Cloud!ServedIsWhole

(* cloudflare/publish.py `previous`: the version kept to go back to was served. *)
PreviousWasServed == Cloud!PreviousWasServed

(* However it is cut off, a publish that is rerun lands: a swap in Postgres    *)
(* (as long as none was killed with <name> closed), a deploy of the graph as   *)
(* it is at Cloudflare.                                                        *)
PublishLands ==
    /\ (target = "postgres" /\ []~killed) => []<>(phase = "renaming")
    /\ target = "cloudflare" => Cloud!WorkerCatchesUp
=============================================================================
