--------------------------- MODULE MCJevService ---------------------------
(* JevService with one process and two tasks. *)
EXTENDS JevService, TLC
CONSTANTS p1, c1, c2, k1, k2

OneProcess == c1 :> p1 @@ c2 :> p1
FirstCoversSecond == {<<k1, k2>>}
=============================================================================
