----------------------------- MODULE MCTraining -----------------------------
(* Two documents in different splits; chunk 2 holds a fact, an edge joins. *)
EXTENDS Training
MCHome == (1 :> 1) @@ (2 :> 2)
MCFactsOf == (1 :> {}) @@ (2 :> {11})
MCSplitOf == (1 :> "train") @@ (2 :> "test")
MCLinks == <<[src |-> 1, dst |-> 2, rel |-> 1, directed |-> TRUE, hop |-> TRUE]>>
MCAlike == {<<1, 2>>}
MCMenus == {{"qa", "pair"}, {"qa", "rerank"}, {"hop", "graph", "triple"}, {"fact", "qa"}}
=============================================================================
