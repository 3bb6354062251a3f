---------------------------- MODULE HarnessJobs ----------------------------
(***************************************************************************)
(* One batch job of a coding-agent harness (harness/jobs.py, base.py,      *)
(* claude.py, codex.py): a workspace with an input file, the output file   *)
(* that the agent writes and the kept file with the records found valid so *)
(* far; and the calls of run_job for this job's key, one after the other,  *)
(* any of which may end by an exception or by the death of its process.    *)
(*                                                                         *)
(* A record is its id; what the agent writes for it is valid or bad under  *)
(* the record schema.  The agent is external: it writes its output file    *)
(* over and over, as it likes, until it ends or is killed.  An agent whose *)
(* pipeline process dies is not killed with it (base.py starts it in a     *)
(* session of its own) and may write on.                                   *)
(***************************************************************************)
EXTENDS Integers, FiniteSets

CONSTANTS
    Ids,         \* the records of the job
    JobAttempts, \* policy harness.job_attempts
    MaxCalls,    \* bound on the calls of run_job
    NoSession,
    NoAgent

(* Asserted where an instance is made. *)
HarnessJobsAssumption ==
    /\ IsFiniteSet(Ids) /\ Ids # {}
    /\ JobAttempts \in Nat \ {0} /\ MaxCalls \in Nat
    /\ \A ids \in SUBSET Ids : NoSession # ids /\ NoAgent # ids

VARIABLES
    kept,     \* ids in KEPT_FILE
    output,   \* output[i]: what OUTPUT_FILE has for i
    input,    \* ids in INPUT_FILE
    recorded, \* the latest session in harness_runs: the ids it was shown
    pc,       \* where run_job is
    got,      \* outcome.records
    missing,  \* outcome.missing
    left,     \* attempts_left
    session,  \* the session to continue, if any
    stray,    \* the ids an agent works on whose process has died, or NoAgent
    calls,    \* calls of run_job so far
    spoilt    \* history: the kept file was torn, or an agent outlived its process

files == <<kept, output, input>>
job == <<got, missing, left, session>>
vars == <<files, recorded, pc, job, stray, calls, spoilt>>

Sessions == {NoSession} \cup SUBSET Ids

TypeOK ==
    /\ kept \subseteq Ids /\ input \subseteq Ids
    /\ output \in [Ids -> {"none", "bad", "valid"}]
    /\ recorded \in Sessions /\ session \in Sessions
    /\ pc \in {"idle", "keeping", "asking", "clearing", "running", "closing"}
    /\ got \subseteq Ids /\ missing \subseteq Ids
    /\ left \in 0..JobAttempts
    /\ stray \in {NoAgent} \cup SUBSET Ids
    /\ calls \in 0..MaxCalls
    /\ spoilt \in BOOLEAN

Init ==
    /\ kept = {} /\ input = {}
    /\ output = [i \in Ids |-> "none"]
    /\ recorded = NoSession /\ session = NoSession
    /\ pc = "idle"
    /\ got = {} /\ missing = {}
    /\ left = 0
    /\ stray = NoAgent
    /\ calls = 0
    /\ spoilt = FALSE

-----------------------------------------------------------------------------
Valid == {i \in Ids : output[i] = "valid"}
Bad == {i \in Ids : output[i] = "bad"}
Pending(records) == Ids \ records

(* Regression: a call begins with what the agent wrote last, not with what    *)
(* earlier calls kept.                                                        *)
FoundInOutput == Valid

(* What a call finds in its workspace.                                        *)
Found == kept \cup Valid

(* run_job collects what earlier calls left and looks up their last session.  *)
Call ==
    /\ pc = "idle" /\ calls < MaxCalls
    /\ calls' = calls + 1
    /\ got' = Found
    /\ missing' = Bad
    /\ left' = JobAttempts
    /\ session' = recorded
    /\ pc' = IF Pending(Found) = {} THEN "closing" ELSE "keeping"
    /\ UNCHANGED <<files, recorded, stray, spoilt>>

(* Regression: the kept file is written at the end only.                      *)
WrittenAtEnd == kept

(* The kept file is written, before the agent may touch the output again.     *)
Written == got
LeftAfter == left - 1

Keep ==
    /\ pc = "keeping"
    /\ left' = LeftAfter
    /\ kept' = Written
    /\ pc' = "asking"
    /\ UNCHANGED <<output, input, recorded, got, missing, session, stray, calls, spoilt>>

(* continue_with: the session is asked for the rest.                          *)
Continue ==
    /\ pc = "asking" /\ session # NoSession
    /\ pc' = "running"
    /\ UNCHANGED <<files, recorded, job, stray, calls, spoilt>>

(* Regression: a restart is over the whole job.                               *)
AskedAgain(records) == Ids

Asked(records) == Pending(records)

(* A new session: the input is the pending records, then the output goes.     *)
WriteInput ==
    /\ pc = "asking" /\ session = NoSession
    /\ input' = Asked(got)
    /\ pc' = "clearing"
    /\ UNCHANGED <<kept, output, recorded, job, stray, calls, spoilt>>

ClearOutput ==
    /\ pc = "clearing"
    /\ output' = [i \in Ids |-> "none"]
    /\ pc' = "running"
    /\ UNCHANGED <<kept, input, recorded, job, stray, calls, spoilt>>

(* An agent writes its output file anew, with anything for the ids in its     *)
(* input; it may leave out what the file had before.                          *)
Writes(ids) ==
    /\ output' \in {o \in [Ids -> {"none", "bad", "valid"}] :
                       \A i \in Ids \ ids : o[i] \in {"none", output[i]}}
    /\ output' # output

AgentWrites ==
    /\ pc = "running"
    /\ Writes(IF session = NoSession THEN input ELSE session)
    /\ UNCHANGED <<kept, input, recorded, pc, job, stray, calls, spoilt>>

StrayWrites ==
    /\ stray # NoAgent
    /\ Writes(stray)
    /\ UNCHANGED <<kept, input, recorded, pc, job, stray, calls, spoilt>>

StrayEnds ==
    /\ stray # NoAgent
    /\ stray' = NoAgent
    /\ UNCHANGED <<files, recorded, pc, job, calls, spoilt>>

After(records) == IF Pending(records) # {} /\ left > 0 THEN "keeping" ELSE "closing"

(* The session to continue in the next attempt: a new one, unless it is known  *)
(* to have timed out.                                                          *)
NextSession(named) == IF session = NoSession /\ named THEN input ELSE NoSession

(* The agent ends or is killed at the profile's timeout.  A result that names  *)
(* a session is recorded with it: Claude Code's always does, Codex's when it   *)
(* got that far.  That a run timed out is passed on by Codex only; a session   *)
(* is dropped if it is (`late`).  Then the output is collected.                *)
AgentEnds ==
    \E named, late \in BOOLEAN :
        /\ pc = "running"
        /\ (session # NoSession) => named
        /\ recorded' = IF ~named THEN recorded ELSE IF session # NoSession THEN session ELSE input
        /\ session' = NextSession(named /\ ~late)
        /\ got' = got \cup Valid
        /\ missing' = missing \cup Bad
        /\ pc' = After(got \cup Valid)
        /\ UNCHANGED <<files, left, stray, calls, spoilt>>

MissingAtEnd(records) == (missing \cup Pending(records)) \ records

(* The end of run_job: the kept file again, and a reason for each id without   *)
(* a record, for no other.                                                     *)
Return ==
    /\ pc = "closing"
    /\ kept' = got
    /\ missing' = MissingAtEnd(got)
    /\ pc' = "idle"
    /\ UNCHANGED <<output, input, recorded, got, left, session, stray, calls, spoilt>>

Forget == got' = {} /\ missing' = {} /\ left' = 0 /\ session' = NoSession

(* A usage limit, a cancelled caller or another error while the agent runs:    *)
(* the agent is killed, the harness run recorded as failed without a session.  *)
Raise ==
    /\ pc = "running"
    /\ pc' = "idle"
    /\ Forget
    /\ UNCHANGED <<files, recorded, stray, calls, spoilt>>

(* The process dies.  A file it is writing is cut off anywhere; its agent may  *)
(* go on.                                                                      *)
Kill ==
    /\ pc # "idle"
    /\ pc' = "idle"
    /\ \/ UNCHANGED kept
       \/ pc \in {"keeping", "closing"} /\ kept' \in SUBSET got
    /\ \/ UNCHANGED input
       \/ pc = "asking" /\ session = NoSession /\ input' \in SUBSET Asked(got)
    /\ \/ UNCHANGED stray
       \/ pc = "running" /\ stray = NoAgent /\ stray' = IF session = NoSession THEN input ELSE session
    /\ spoilt' = (spoilt \/ kept' # kept \/ stray' # NoAgent)
    /\ Forget
    /\ UNCHANGED <<output, recorded, calls>>

RunnerStep ==
    Call \/ Keep \/ Continue \/ WriteInput \/ ClearOutput \/ AgentEnds \/ Return
AgentStep == AgentWrites \/ StrayWrites \/ StrayEnds
Next == RunnerStep \/ AgentStep \/ Raise \/ Kill

-----------------------------------------------------------------------------
(* The valid records somebody has collected, or nobody will disturb.          *)
Collected == kept \cup (IF pc = "idle" THEN Valid ELSE got)

(* A valid record, once collected, survives sessions that go on and rewrite   *)
(* the output, restarts, errors and kills (jobs.py:8), unless a kill cuts off *)
(* the kept file as it is written, or an agent outlives its process.  The     *)
(* agent itself may take back what nobody has collected.                      *)
RecordsSurvive == [][spoilt' \/ Collected \subseteq Collected']_vars

(* A session is asked only for records that it was shown, though the input    *)
(* file has been rewritten since and the session may be of an older process   *)
(* (run_job's continue message names ids and sends no records).               *)
ContinuesWhatItWasShown ==
    pc = "running" /\ session # NoSession /\ ~spoilt => Pending(got) \subseteq session

(* No agent gets a record as its input that a file of the workspace has       *)
(* valid (jobs.py:10: a restart is with only the missing or invalid ones).    *)
NothingAskedTwice ==
    [][input' # input /\ ~spoilt' /\ pc' = "clearing" => input' \cap (kept \cup Valid) = {}]_vars

=============================================================================
