------------------------------ MODULE MCPublish ------------------------------
(* Postgres: a table and one that references it; contents "b" and "c" have    *)
(* the same number of rows.  Cloudflare: a graph, the same graph with other   *)
(* rows under its IDs, and a smaller one.                                     *)
EXTENDS PublishTargets, TLC
CONSTANTS documents, chunks

LoadOrder == <<documents, chunks>>
ForeignKeys == {<<chunks, documents>>}
RowCounts == "a" :> 1 @@ "b" :> 2 @@ "c" :> 2
Grow == {<<"a", "b">>, <<"b", "c">>, <<"c", "b">>}
ServedGraphs ==
    {[chunks |-> {1, 2}, edges |-> {"e"}, rev |-> 1], [chunks |-> {1, 2}, edges |-> {"e"}, rev |-> 2],
     [chunks |-> {2}, edges |-> {}, rev |-> 1]}
=============================================================================
