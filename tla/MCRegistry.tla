----------------------------- MODULE MCRegistry -----------------------------
(* Registry on three files: policies.yaml stands for all that a command needs. *)
EXTENDS Registry, TLC

Listed == <<"ontology", "policies", "new_set">>
=============================================================================
