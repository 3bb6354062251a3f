------------------------------ MODULE MCLedger ------------------------------
(* Ledger on small instances: runs and items are interchangeable. *)
EXTENDS Ledger, TLC

Symmetry == Permutations(Runs) \cup Permutations(Items)
=============================================================================
