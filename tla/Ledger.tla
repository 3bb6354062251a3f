------------------------------- MODULE Ledger -------------------------------
(***************************************************************************)
(* The run and work-item ledger of one pipeline stage (ledger/ledger.py)   *)
(* together with the stage runner that drives it (pipeline/common.py).     *)
(*                                                                         *)
(* Several processes may run the same stage against one database: a second *)
(* `build`, an `update`, a `run --resume`.  A run enumerates the stage's   *)
(* items with the hash of their current inputs, claims them one row at a   *)
(* time, and commits an item's outputs in the transaction that completes   *)
(* its row.  Each run owns a dedicated connection: its session advisory    *)
(* lock tells other runs that it lives, and its heartbeats keep the leases *)
(* of the run's `running` rows fresh.                                      *)
(***************************************************************************)
EXTENDS Integers, FiniteSets

CONSTANTS
    Runs,         \* run identifiers; a run is started at most once
    Items,        \* the items the stage enumerates
    Hashes,       \* input hashes
    MaxAttempts,  \* policies.yaml ledger.max_attempts
    Concurrency,  \* run.concurrency.<stage>: the runner's semaphore
    AfterItem,    \* whether the stage overrides after_item (links does)
    Options,      \* the RunOptions that runs may be started with
    Faults,       \* the kinds of fault this instance allows
    NoRun, NoHash \* SQL NULLs

FaultKinds == {"fail", "stop", "crash", "owner_loss", "abort"}
OptionKinds == {"all", "resume", "part"}

ASSUME LedgerAssumption ==
    /\ MaxAttempts \in Nat \ {0}
    /\ Concurrency \in Nat \ {0}
    /\ AfterItem \in BOOLEAN
    /\ Options \subseteq OptionKinds
    /\ Faults \subseteq FaultKinds
    /\ NoRun \notin Runs
    /\ NoHash \notin Hashes

VARIABLES
    input,   \* input[i]: the hash of item i's inputs as the database holds them now
    row,     \* row[i]: item i's work_items row
    out,     \* out[i]: the input hash whose outputs are committed in the graph
    owners,  \* the runs whose owner session (advisory lock, heartbeat) is up
    phase,   \* phase[r]: where run r's process is
    option,  \* option[r]: the RunOptions of run r
    want,    \* want[r][i]: the hash run r enumerated item i with
    got,     \* got[r][i]: the hash of the inputs run r's task for i has read, or NoHash
    todo,    \* todo[r]: items run r selected and has not reached yet
    work,    \* work[r][i]: what run r's task for item i is doing
    stops,   \* stops[r]: a run stop (harness usage limit) was recorded
    past,    \* history: past[i] has the hashes item i's inputs had and left
    fails,   \* history: failures of item i since its row took its present hash
    solo     \* history: the run that has had the ledger to itself, or NoRun

vars == <<input, row, out, owners, phase, option, want, got, todo, work, stops, past, fails, solo>>
runState == <<phase, option, want, got, todo, work, stops>>

Statuses == {"missing", "pending", "running", "done", "failed", "review"}
Settled == {"done", "review", "failed"}
Rows == [status : Statuses, hash : Hashes \cup {NoHash}, attempts : Nat,
         run : Runs \cup {NoRun}, fresh : BOOLEAN]
Phases == {"new", "reclaimed", "enumerated", "open", "finished", "aborted", "dead"}
TaskStates == {"idle", "claimed", "committed"}

(* The work_items rows of a stage no run has touched. *)
NoRow == [status |-> "missing", hash |-> NoHash, attempts |-> 0, run |-> NoRun, fresh |-> FALSE]

TypeOK ==
    /\ input \in [Items -> Hashes]
    /\ row \in [Items -> Rows]
    /\ out \in [Items -> Hashes \cup {NoHash}]
    /\ owners \subseteq Runs
    /\ phase \in [Runs -> Phases]
    /\ option \in [Runs -> OptionKinds]
    /\ want \in [Runs -> [Items -> Hashes \cup {NoHash}]]
    /\ got \in [Runs -> [Items -> Hashes \cup {NoHash}]]
    /\ todo \in [Runs -> SUBSET Items]
    /\ work \in [Runs -> [Items -> TaskStates]]
    /\ stops \in [Runs -> BOOLEAN]
    /\ past \in [Items -> SUBSET Hashes]
    /\ fails \in [Items -> Nat]
    /\ solo \in Runs \cup {NoRun}

Init ==
    /\ input \in [Items -> Hashes]
    /\ row = [i \in Items |-> NoRow]
    /\ out = [i \in Items |-> NoHash]
    /\ owners = {}
    /\ phase = [r \in Runs |-> "new"]
    /\ option \in [Runs -> Options]
    /\ want = [r \in Runs |-> [i \in Items |-> NoHash]]
    /\ got = [r \in Runs |-> [i \in Items |-> NoHash]]
    /\ todo = [r \in Runs |-> {}]
    /\ work = [r \in Runs |-> [i \in Items |-> "idle"]]
    /\ stops = [r \in Runs |-> FALSE]
    /\ past = [i \in Items |-> {}]
    /\ fails = [i \in Items |-> 0]
    /\ solo = NoRun

-----------------------------------------------------------------------------
(* Ledger.classify: the row's status, unless its inputs have changed. *)
Classify(i, h) ==
    IF row[i].status = "missing" THEN "missing"
    ELSE IF row[i].hash # h THEN "stale"
    ELSE row[i].status

(* An item the ledger has given up on for hash h. *)
FailedFinal(i, h) == Classify(i, h) = "failed" /\ row[i].attempts >= MaxAttempts

(* Regressions of the rules below: the claim forgets the lease; it forgets    *)
(* that done is done; every attempt counts as the first; a new input is no    *)
(* reason to run; the reclaim takes back every running row.                   *)
ClaimableHeld(i, h) ==
    /\ ~(row[i].status = "done" /\ row[i].hash = h)
    /\ ~(row[i].status = "failed" /\ row[i].hash = h /\ row[i].attempts >= MaxAttempts)
ClaimableDone(i, h) ==
    /\ ~(row[i].status = "running" /\ row[i].fresh)
    /\ ~(row[i].status = "failed" /\ row[i].hash = h /\ row[i].attempts >= MaxAttempts)
AttemptsAlwaysOne(i, h) == 1
RunnableNotStale(r) ==
    {i \in Items : Classify(i, want[r][i]) \in {"missing", "pending", "failed", "running"}}
ReclaimableAlways(i) == row[i].status = "running"

(* select_items over everything run r enumerated, before --limit and --sample. *)
Runnable(r) ==
    {i \in Items :
        /\ Classify(i, want[r][i]) \in {"missing", "stale", "pending", "failed", "running"}
        /\ ~FailedFinal(i, want[r][i])
        /\ option[r] = "resume" => Classify(i, want[r][i]) \notin {"missing", "stale"}}

(* The condition of claim's upsert: not done with this hash, not held under a *)
(* fresh lease, not failed with this hash and out of attempts.                *)
Claimable(i, h) ==
    /\ ~(row[i].status = "done" /\ row[i].hash = h)
    /\ ~(row[i].status = "running" /\ row[i].fresh)
    /\ ~(row[i].status = "failed" /\ row[i].hash = h /\ row[i].attempts >= MaxAttempts)

(* The attempts the upsert leaves in the row. *)
AttemptsAfter(i, h) == IF row[i].hash = h THEN row[i].attempts + 1 ELSE 1

(* The rows reclaim_expired takes back: an old lease, or no owner lock. *)
Reclaimable(i) ==
    row[i].status = "running" /\ (~row[i].fresh \/ row[i].run \notin owners)

InFlight(r) == {i \in Items : work[r][i] # "idle"}
(* Tasks of an aborted run go on until the process exits. *)
Alive(r) == phase[r] \in {"open", "aborted"}
Started(r) == phase[r] \in {"reclaimed", "enumerated", "open", "aborted"}

-----------------------------------------------------------------------------
(* A document, a Registry artifact or an earlier stage's output changes. *)
Edit(i, h) ==
    /\ h # input[i]
    /\ input' = [input EXCEPT ![i] = h]
    /\ past' = [past EXCEPT ![i] = past[i] \cup {input[i]}]
    /\ UNCHANGED <<row, out, owners, runState, fails, solo>>

(* reclaim_expired, the first thing a stage run does to the ledger. *)
Reclaim(r) ==
    /\ phase[r] = "new"
    /\ phase' = [phase EXCEPT ![r] = "reclaimed"]
    /\ row' = [i \in Items |->
                 IF Reclaimable(i) THEN [row[i] EXCEPT !.status = "pending"] ELSE row[i]]
    /\ solo' = IF owners = {} /\ \A q \in Runs \ {r} : ~Started(q) THEN r ELSE NoRun
    /\ UNCHANGED <<input, out, owners, option, want, got, todo, work, stops, past, fails>>

(* stage.enumerate: every item, with the hash of the inputs it reads now. *)
Enumerate(r) ==
    /\ phase[r] = "reclaimed"
    /\ phase' = [phase EXCEPT ![r] = "enumerated"]
    /\ want' = [want EXCEPT ![r] = input]
    /\ UNCHANGED <<input, row, out, owners, option, got, todo, work, stops, past, fails, solo>>

(* The second half of select_items (the ledger is read after the enumeration) *)
(* and start_run.  --limit and --sample keep some part of the selection.      *)
StartRun(r) ==
    /\ phase[r] = "enumerated"
    /\ phase' = [phase EXCEPT ![r] = "open"]
    /\ \E selected \in SUBSET Runnable(r) :
         /\ option[r] # "part" => selected = Runnable(r)
         /\ todo' = [todo EXCEPT ![r] = selected]
    /\ owners' = owners \cup {r}
    /\ UNCHANGED <<input, row, out, option, want, got, work, stops, past, fails, solo>>

(* run_item's claim succeeds: one upsert takes the row for run r. *)
Claim(r, i) ==
    /\ Alive(r)
    /\ i \in todo[r]
    /\ ~stops[r]
    /\ Cardinality(InFlight(r)) < Concurrency
    /\ Claimable(i, want[r][i])
    /\ row' = [row EXCEPT ![i] = [status |-> "running", hash |-> want[r][i],
                                  attempts |-> AttemptsAfter(i, want[r][i]),
                                  run |-> r, fresh |-> TRUE]]
    /\ fails' = [fails EXCEPT ![i] = IF row[i].hash = want[r][i] THEN fails[i] ELSE 0]
    /\ todo' = [todo EXCEPT ![r] = todo[r] \ {i}]
    /\ work' = [work EXCEPT ![r][i] = "claimed"]
    /\ got' = [got EXCEPT ![r][i] = NoHash]
    /\ solo' = IF solo = r THEN r ELSE NoRun
    /\ UNCHANGED <<input, out, owners, phase, option, want, stops, past>>

(* The claim returns no row: the item is counted as skipped. *)
ClaimRefused(r, i) ==
    /\ Alive(r)
    /\ i \in todo[r]
    /\ ~stops[r]
    /\ Cardinality(InFlight(r)) < Concurrency
    /\ ~Claimable(i, want[r][i])
    /\ todo' = [todo EXCEPT ![r] = todo[r] \ {i}]
    /\ UNCHANGED <<input, row, out, owners, phase, option, want, got, work, stops, past, fails, solo>>

(* stage.process reads its inputs, some time after the claim: what enumerate   *)
(* put into the item's payload, or the database, the Registry and the files   *)
(* as they are now (a mixture of both counts as the later).                   *)
Read(r, i) ==
    /\ Alive(r)
    /\ work[r][i] = "claimed" /\ got[r][i] = NoHash
    /\ \E h \in {want[r][i], input[i]} : got' = [got EXCEPT ![r][i] = h]
    /\ UNCHANGED <<input, row, out, owners, phase, option, want, todo, work, stops, past, fails, solo>>

(* Regression: the row is completed for the hash its inputs have by now.       *)
CommitRehashed(r, i, status) ==
    /\ Alive(r)
    /\ work[r][i] = "claimed" /\ got[r][i] # NoHash
    /\ out' = [out EXCEPT ![i] = got[r][i]]
    /\ got' = [got EXCEPT ![r][i] = NoHash]
    /\ row' = [row EXCEPT ![i].status = status, ![i].hash = input[i], ![i].fresh = TRUE]
    /\ work' = [work EXCEPT ![r][i] = IF AfterItem THEN "committed" ELSE "idle"]
    /\ UNCHANGED <<input, owners, phase, option, want, todo, stops, past, fails, solo>>

(* What a writer may return.  The links stage's, the one with an after_item,  *)
(* never sends its item to review.                                            *)
Outcomes == IF AfterItem THEN {"done"} ELSE {"done", "review"}

(* The writer's rows and Ledger.complete commit in one transaction.  complete *)
(* updates the row by stage and item alone: it does not ask whose it is, and  *)
(* the hash stays the claim's, whatever was read since.                       *)
Commit(r, i, status) ==
    /\ Alive(r)
    /\ work[r][i] = "claimed" /\ got[r][i] # NoHash
    /\ out' = [out EXCEPT ![i] = got[r][i]]
    /\ got' = [got EXCEPT ![r][i] = NoHash]
    /\ row' = [row EXCEPT ![i].status = status, ![i].fresh = TRUE]
    /\ work' = [work EXCEPT ![r][i] = IF AfterItem THEN "committed" ELSE "idle"]
    /\ UNCHANGED <<input, owners, phase, option, want, todo, stops, past, fails, solo>>

(* after_item returns; nothing of the item is left to do. *)
AfterItemDone(r, i) ==
    /\ Alive(r)
    /\ work[r][i] = "committed"
    /\ work' = [work EXCEPT ![r][i] = "idle"]
    /\ UNCHANGED <<input, row, out, owners, phase, option, want, got, todo, stops, past, fails, solo>>

(* A run stop in process or in after_item: Ledger.release, and no further item. *)
Stop(r, i) ==
    /\ "stop" \in Faults
    /\ Alive(r)
    /\ work[r][i] # "idle"
    /\ row' = [row EXCEPT ![i].status = "pending",
                          ![i].attempts = IF row[i].attempts = 0 THEN 0 ELSE row[i].attempts - 1]
    /\ work' = [work EXCEPT ![r][i] = "idle"]
    /\ got' = [got EXCEPT ![r][i] = NoHash]
    /\ stops' = [stops EXCEPT ![r] = TRUE]
    /\ solo' = NoRun
    /\ UNCHANGED <<input, out, owners, phase, option, want, todo, past, fails>>

(* Any other exception of process, the writer or after_item: Ledger.fail. *)
Fail(r, i) ==
    /\ "fail" \in Faults
    /\ Alive(r)
    /\ work[r][i] # "idle"
    /\ row' = [row EXCEPT ![i].status = IF row[i].attempts >= MaxAttempts THEN "failed" ELSE "pending",
                          ![i].fresh = TRUE]
    /\ fails' = [fails EXCEPT ![i] = fails[i] + 1]
    /\ work' = [work EXCEPT ![r][i] = "idle"]
    /\ got' = [got EXCEPT ![r][i] = NoHash]
    /\ solo' = NoRun
    /\ UNCHANGED <<input, out, owners, phase, option, want, todo, stops, past>>

(* Regression: the runner waits for items it will not start after a stop. *)
FinishWhenEmpty(r) ==
    /\ phase[r] = "open"
    /\ InFlight(r) = {}
    /\ todo[r] = {}
    /\ phase' = [phase EXCEPT ![r] = "finished"]
    /\ owners' = owners \ {r}
    /\ UNCHANGED <<input, row, out, option, want, got, todo, work, stops, past, fails, solo>>

(* gather has returned: finalize, finish_run, and the owner session closes. *)
FinishRun(r) ==
    /\ phase[r] = "open"
    /\ InFlight(r) = {}
    /\ todo[r] = {} \/ stops[r]
    /\ phase' = [phase EXCEPT ![r] = "finished"]
    /\ owners' = owners \ {r}
    /\ UNCHANGED <<input, row, out, option, want, got, todo, work, stops, past, fails, solo>>

(* A statement outside run_item's try fails: an item's claim, its release or   *)
(* its fail, or one of prepare and finalize.  gather raises at once and does  *)
(* not cancel the other items' tasks; finish_run runs while they go on, the   *)
(* queued ones claiming, until the command's event loop is closed.            *)
Abort(r) ==
    /\ "abort" \in Faults
    /\ phase[r] = "open"
    /\ phase' = [phase EXCEPT ![r] = "aborted"]
    /\ \/ \E i \in todo[r] :
            /\ todo' = [todo EXCEPT ![r] = todo[r] \ {i}]
            /\ UNCHANGED <<work, got>>
       \/ \E i \in InFlight(r) :
            /\ work' = [work EXCEPT ![r][i] = "idle"]
            /\ got' = [got EXCEPT ![r][i] = NoHash]
            /\ UNCHANGED todo
       \/ UNCHANGED <<todo, work, got>>
    /\ owners' = owners \ {r}
    /\ solo' = NoRun
    /\ UNCHANGED <<input, row, out, option, want, stops, past, fails>>

(* The process dies, or exits with tasks it cancels: their rows stay `running`. *)
Crash(r) ==
    /\ phase[r] = "aborted" \/ ("crash" \in Faults /\ phase[r] = "open")
    /\ phase' = [phase EXCEPT ![r] = "dead"]
    /\ todo' = [todo EXCEPT ![r] = {}]
    /\ work' = [work EXCEPT ![r] = [i \in Items |-> "idle"]]
    /\ got' = [got EXCEPT ![r] = [i \in Items |-> NoHash]]
    /\ solo' = NoRun
    /\ UNCHANGED <<input, row, out, owners, option, want, stops, past, fails>>

(* The server ends an owner session: its process is gone, or the connection  *)
(* broke under a live run (the pool reconnects, the owner connection does not). *)
OwnerGone(r) ==
    /\ r \in owners
    /\ phase[r] = "dead" \/ "owner_loss" \in Faults
    /\ owners' = owners \ {r}
    /\ solo' = NoRun
    /\ UNCHANGED <<input, row, out, runState, past, fails>>

(* lease_seconds pass without a heartbeat.  A live owner session beats well    *)
(* inside the lease, so only rows of a lost or finished session get this old. *)
LeaseLapses(i) ==
    /\ row[i].status = "running" /\ row[i].fresh
    /\ row[i].run \notin owners \/ phase[row[i].run] = "dead"
    /\ row' = [row EXCEPT ![i].fresh = FALSE]
    /\ UNCHANGED <<input, out, owners, runState, past, fails, solo>>

-----------------------------------------------------------------------------
ItemStep(r, i) ==
    \/ Claim(r, i) \/ ClaimRefused(r, i) \/ Read(r, i)
    \/ \E status \in Outcomes : Commit(r, i, status)
    \/ AfterItemDone(r, i)

RunStep(r) ==
    \/ Reclaim(r) \/ Enumerate(r) \/ StartRun(r) \/ FinishRun(r)
    \/ Abort(r) \/ Crash(r) \/ OwnerGone(r)

Next ==
    \/ \E i \in Items, h \in Hashes : Edit(i, h)
    \/ \E r \in Runs : RunStep(r)
    \/ \E r \in Runs, i \in Items : ItemStep(r, i) \/ Stop(r, i) \/ Fail(r, i)
    \/ \E i \in Items : LeaseLapses(i)

Spec == Init /\ [][Next]_vars

-----------------------------------------------------------------------------
(* What the ledger promises its stages, as an abstract machine: an item is    *)
(* checked out by one run, for one hash, and what is published for it is of   *)
(* that hash or of inputs it had while it was checked out.                    *)
Checkouts ==
    [i \in Items |-> IF \E r \in Runs : work[r][i] = "claimed"
                     THEN [run |-> row[i].run, hash |-> row[i].hash, read |-> got[row[i].run][i]]
                     ELSE [run |-> NoRun, hash |-> NoHash, read |-> NoHash]]

Promise == INSTANCE Checkout WITH checkout <- Checkouts
ImplementsCheckout == Promise!Spec

-----------------------------------------------------------------------------
(* Fairness: a started run's process keeps scheduling its tasks and its steps *)
(* return; the server notices a dead client; time passes.  Nothing makes a    *)
(* user start a run, a fault happen, or an input change, except that          *)
(* RerunFairness has the user re-run the command.                             *)
Fairness ==
    /\ \A r \in Runs :
         /\ WF_vars(Enumerate(r)) /\ WF_vars(StartRun(r)) /\ WF_vars(FinishRun(r))
         /\ WF_vars(OwnerGone(r) /\ phase[r] = "dead")
         /\ WF_vars(Crash(r) /\ phase[r] = "aborted")
         /\ \A i \in Items : WF_vars(ItemStep(r, i))
    /\ \A i \in Items : WF_vars(LeaseLapses(i))
RerunFairness == \A r \in Runs : WF_vars(Reclaim(r))

FairSpec == Spec /\ Fairness /\ RerunFairness

-----------------------------------------------------------------------------
(* Ledger.claim, "unless another live worker holds it": an item is being      *)
(* processed by at most one task of all runs.                                 *)
ExclusiveWork ==
    \A i \in Items, q, r \in Runs :
        work[q][i] = "claimed" /\ work[r][i] = "claimed" => q = r

(* Ledger's module comment, "a slow item never loses its lease": while a run  *)
(* processes an item, the row says so: running, for this run, with the hash   *)
(* the run enumerated it with.                                                *)
WorkerHoldsRow ==
    \A i \in Items, r \in Runs :
        work[r][i] = "claimed" =>
            /\ row[i].status = "running" /\ row[i].run = r
            /\ row[i].hash = want[r][i]

(* Skipping a completed item loses nothing: when its row carries the hash its *)
(* inputs have now, the committed outputs are of these inputs.  They may be   *)
(* of others while the row is stale, since process reads after the claim, and *)
(* when the inputs left a value that they came back to: past has those.       *)
SettledMeansWritten ==
    \A i \in Items :
        row[i].status \in {"done", "review"} /\ row[i].hash = input[i] /\ input[i] \notin past[i] =>
            out[i] = row[i].hash

(* claim and fail together: whatever mix of failures, stops, crashes and      *)
(* rival runs an item meets, it fails at most max_attempts times on one hash. *)
RetryBudget == \A i \in Items : fails[i] <= MaxAttempts

(* A run that had the ledger to itself and met no fault left nothing behind,  *)
(* whatever state earlier runs and crashes had left the rows in: every item   *)
(* it enumerated is completed, or was given up on, for the hash it saw.       *)
SoloRunSettles ==
    solo # NoRun /\ phase[solo] = "finished" /\ option[solo] = "all" =>
        \A i \in Items : row[i].status \in Settled /\ row[i].hash = want[solo][i]

(* Completed and given-up rows stay as they are until a run comes with other  *)
(* inputs: no late task of any run takes one back or does it again.           *)
SettledRowsStay ==
    [][\A i \in Items :
         row[i].status \in {"done", "failed"} =>
             row'[i] = row[i] \/ row'[i].hash # row[i].hash]_vars

(* Every run that starts comes to an end: no item waits for the semaphore, a  *)
(* refused claim or a recorded stop for ever.                                 *)
RunsEnd == \A r \in Runs : phase[r] = "open" ~> phase[r] \in {"finished", "dead"}

=============================================================================
