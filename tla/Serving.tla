------------------------------ MODULE Serving ------------------------------
(***************************************************************************)
(* The query path (Query), which chooses Jev's outcomes freely, and two    *)
(* things on the way to such an outcome, for the build, the server and the *)
(* Worker alike: the limiter that a call to Jev passes (Limiter), and the  *)
(* gate that turns Jev's answers into the outcome (Gating).  They share no *)
(* state: an instance runs one.                                            *)
(***************************************************************************)
EXTENDS Query, Gating, Limiter

VARIABLE side  \* the one that runs

servingVars == <<side, queryVars, gatingVars, limiterVars>>

InitServing ==
    /\ side \in {"query", "gate", "limiter"} /\ InitQuery /\ InitGating /\ InitLimiter
    /\ side # "gate" => qs = CHOOSE s \in QuestionSets : Lint(s)
    /\ side # "query" => served = CHOOSE c \in Copies : TRUE

Serve == side = "query" /\ NextQuery /\ UNCHANGED <<side, gatingVars, limiterVars>>
Judge == side = "gate" /\ NextGating /\ UNCHANGED <<side, queryVars, limiterVars>>
Limit(A) == side = "limiter" /\ A /\ UNCHANGED <<side, queryVars, gatingVars>>

ServingSpec ==
    /\ InitServing
    /\ [][Serve \/ Judge \/ Limit(NextLimiter)]_servingVars
    /\ WF_servingVars(Limit(Look)) /\ WF_servingVars(Limit(Tick))
=============================================================================
