--------------------------- MODULE MCGraphStages ---------------------------
(* GraphStages: three chunks, of which 1 and 2 have 3 and each other for       *)
(* nearest; four entities, of which 2 and 4 have the same name and type.     *)
EXTENDS GraphStages, TLC

Nearest == 1 :> <<2, 3>> @@ 2 :> <<3, 1>> @@ 3 :> <<2, 1>>
Yes(pick, holds) == [pick |-> pick, related |-> TRUE, undirected |-> FALSE, holds |-> holds]
Picks == {Yes("none", TRUE), Yes("other", TRUE), Yes("typed", TRUE)}
Excesses == 0 :> 9 @@ 1 :> 2 @@ 2 :> 2 @@ 3 :> 3

Keys == <<1, 2, 3, 2>>
Surfaces == <<"One", "Two", "Three", "two">>
=============================================================================
