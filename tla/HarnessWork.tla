---------------------------- MODULE HarnessWork ----------------------------
(***************************************************************************)
(* Work of a coding-agent harness: the calls for one job (HarnessJobs) and *)
(* the stage that runs many of them and waits (Enrich).  The stage sees of *)
(* a call what HarnessJobs shows of it, that it ends and keeps every valid *)
(* record, so an instance runs one of the two.                             *)
(***************************************************************************)
EXTENDS Enrich

CONSTANTS Ids, JobAttempts, MaxCalls, NoSession, NoAgent

VARIABLES
    level,  \* the one that runs
    kept, output, input, recorded, pc, got, missing, left, session, stray, calls, spoilt

Job == INSTANCE HarnessJobs

ASSUME JobAssumption == Job!HarnessJobsAssumption

jobVars == <<kept, output, input, recorded, pc, got, missing, left, session, stray, calls, spoilt>>
workVars == <<vars, level, jobVars>>

InitWork == level \in {"job", "stage"} /\ Init /\ Job!Init

RunStage == level = "stage" /\ Next /\ UNCHANGED <<level, jobVars>>
RunJob == level = "job" /\ Job!Next /\ UNCHANGED <<level, vars>>

(* Jobs return and the event loop goes on; the build is run again as long as   *)
(* chunks are left, while nobody need call a single job again.                 *)
InStage(A) == level = "stage" /\ A /\ UNCHANGED <<level, jobVars>>

WorkSpec ==
    /\ InitWork
    /\ [][RunStage \/ RunJob]_workVars
    /\ WF_workVars(InStage(StartRun))
    /\ WF_workVars(InStage(StartCleanup))
    /\ WF_workVars(InStage(EndRun))
    /\ \A b \in Jobs : WF_workVars(InStage(JobBegins(b))) /\ WF_workVars(InStage(PartReturns(b)))
    /\ \A c \in Chunks : WF_workVars(InStage(ItemStep(c)))

-----------------------------------------------------------------------------
(* harness/jobs.py: see HarnessJobs. *)
ContinuesWhatItWasShown == TypeOK /\ Job!TypeOK /\ Job!ContinuesWhatItWasShown
RecordsSurvive == Job!RecordsSurvive
NothingAskedTwice == Job!NothingAskedTwice

(* s3_enrich.py: every chunk is written or has failed for good in the end.     *)
ChunksEndSettled == level = "stage" => ChunksSettle
=============================================================================
