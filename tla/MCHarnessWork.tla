--------------------------- MODULE MCHarnessWork ---------------------------
(* HarnessWork: a job of two records; a stage of four chunks, a batch cut      *)
(* into parts: three jobs, for two slots.                                    *)
EXTENDS HarnessWork

CONSTANTS a, b, c, d

Three == <<<<a, b>>, <<c>>, <<d>>>>
=============================================================================
