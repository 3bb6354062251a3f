------------------------------- MODULE Enrich -------------------------------
(***************************************************************************)
(* The enrich stage (pipeline/s3_enrich.py) under the stage runner         *)
(* (pipeline/common.py): harness jobs run in the background, each over the *)
(* selected chunks of one batch, and the item of a chunk waits for its job *)
(* and is then verified and written.  A usage limit stops the run: items   *)
(* and jobs not begun are left, jobs that run may finish.                  *)
(*                                                                         *)
(* A call of run_job is one step with any outcome that HarnessJobs allows: *)
(* it returns the valid records its workspace has, among them those of     *)
(* earlier calls with the same records.  Leases are left to Ledger; one    *)
(* run of the stage at a time.                                             *)
(***************************************************************************)
EXTENDS Integers, FiniteSets, SequencesExt

CONSTANTS
    Batches,     \* the enumerated chunks, cut into extract.batch_chunks
    Cap,         \* max_batch_records of the profile
    JobSlots,    \* run.concurrency.harness_jobs
    ItemSlots,   \* run.concurrency.enrich
    MaxAttempts, \* of an item, before it has failed for good
    Faults,      \* the kinds of fault this instance allows
    MaxFaults    \* bound on their number

Chunks == UNION {ToSet(Batches[b]) : b \in DOMAIN Batches}

ASSUME EnrichAssumption ==
    /\ IsFiniteSet(Chunks)
    /\ \A b \in DOMAIN Batches : Batches[b] # <<>> /\ IsInjective(Batches[b])
    /\ \A b, c \in DOMAIN Batches : b # c => ToSet(Batches[b]) \cap ToSet(Batches[c]) = {}
    /\ {Cap, JobSlots, ItemSlots, MaxAttempts} \subseteq Nat \ {0}
    /\ Faults \subseteq {"limit", "error", "unverified", "kill", "abort"}
    /\ MaxFaults \in Nat

VARIABLES
    done,     \* chunks whose item is done
    attempts, \* attempts[c]: of the item, as the ledger counts them
    failed,   \* chunks whose item has failed last
    held,     \* held[k]: chunks with a valid record in the workspace for the records k
    phase,    \* of the stage run
    stopped,  \* STOP_KEY: what stops the jobs
    stops,    \* the item runner has met a usage limit
    group,    \* group[b]: the selected chunks of batch b
    job,      \* job[b]: where its background task is: the parts it has finished, or not begun
    ready,    \* ready[c]: the chunk's future
    record,   \* record[c]: CACHE_KEY has a record for the chunk
    item,     \* item[c]: where the chunk's item is
    faults    \* faults so far

ledger == <<done, attempts, failed>>
jobs == <<stopped, group, job, ready, record>>
vars == <<ledger, held, phase, jobs, stops, item, faults>>

Jobs == DOMAIN Batches
Queued == -1
Over == -2

TypeOK ==
    /\ done \subseteq Chunks
    /\ attempts \in [Chunks -> 0..(MaxAttempts + MaxFaults)]
    /\ failed \subseteq Chunks \ done
    /\ \A k \in DOMAIN held : held[k] \subseteq k
    /\ phase \in {"idle", "items", "cleanup"}
    /\ stopped \in {"no", "limit", "over"}
    /\ stops \in BOOLEAN
    /\ \A b \in Jobs : group[b] \subseteq ToSet(Batches[b])
    /\ job \in [Jobs -> {Queued, Over} \cup 0..Cardinality(Chunks)]
    /\ ready \in [Chunks -> {"none", "waiting", "set", "limit", "over", "error"}]
    /\ record \in [Chunks -> BOOLEAN]
    /\ item \in [Chunks -> {"none", "left", "claimed", "verifying"}]
    /\ faults \in 0..MaxFaults

Keys == {k \in UNION {SUBSET ToSet(Batches[b]) : b \in Jobs} : k # {} /\ Cardinality(k) <= Cap}

NoGroups == [b \in Jobs |-> {}]
AllOver == [b \in Jobs |-> Over]
All(value) == [c \in Chunks |-> value]

Init ==
    /\ done = {}
    /\ attempts = All(0) /\ failed = {}
    /\ held = [k \in Keys |-> {}]
    /\ phase = "idle"
    /\ stopped = "no" /\ stops = FALSE
    /\ group = NoGroups /\ job = AllOver
    /\ ready = All("none") /\ record = All(FALSE) /\ item = All("none")
    /\ faults = 0

-----------------------------------------------------------------------------
Settled(c) == c \in done \/ (c \in failed /\ attempts[c] >= MaxAttempts)

(* Regression: only chunks that no run has begun on are taken up.             *)
SelectedFresh == {c \in Chunks \ done : attempts[c] = 0}

(* select_items: what is not done and has not failed for good.                *)
Selected == {c \in Chunks : ~Settled(c)}

Fault(kind) == kind \in Faults /\ faults < MaxFaults /\ faults' = faults + 1

(* The records of the next call of run_job for batch b: the selected chunks in *)
(* the batch's order, Cap at a time.                                          *)
Before(b, n) == {m \in 1..(n - 1) : Batches[b][m] \in group[b]}
InPart(b, n) == Batches[b][n] \in group[b] /\ Cardinality(Before(b, n)) \div Cap = job[b]
Part(b) == {Batches[b][n] : n \in {m \in DOMAIN Batches[b] : InPart(b, m)}}
Running(b) == job[b] >= 0

(* A run selects what is not done, and `prepare` starts a task per batch.     *)
StartRun ==
    /\ phase = "idle" /\ Selected # {}
    /\ phase' = "items"
    /\ group' = [b \in Jobs |-> ToSet(Batches[b]) \cap Selected]
    /\ job' = [b \in Jobs |-> IF group'[b] = {} THEN Over ELSE Queued]
    /\ ready' = [c \in Chunks |-> IF c \in Selected THEN "waiting" ELSE "none"]
    /\ item' = [c \in Chunks |-> IF c \in Selected THEN "left" ELSE "none"]
    /\ UNCHANGED <<ledger, held, stopped, stops, record, faults>>

(* The futures of a job's chunks when it ends with an exception.              *)
Failed(b, why) ==
    [c \in Chunks |-> IF c \in group[b] /\ ready[c] = "waiting" THEN why ELSE ready[c]]

(* Regression: jobs that never began fail with an error of their own, as they *)
(* do once the stage has ended.                                               *)
RefusedAsOver(b) == Failed(b, "over")

(* A job that was queued when the run stopped does not start.                 *)
Refused(b) == Failed(b, stopped)

JobBegins(b) ==
    /\ phase # "idle" /\ job[b] = Queued
    /\ Cardinality({c \in Jobs : Running(c)}) < JobSlots
    /\ IF stopped = "no"
       THEN job' = [job EXCEPT ![b] = 0] /\ UNCHANGED ready
       ELSE job' = [job EXCEPT ![b] = Over] /\ ready' = Refused(b)
    /\ UNCHANGED <<ledger, held, phase, stopped, stops, group, record, item, faults>>

(* run_job returns for the next part; its chunks may go on.                   *)
PartReturns(b) ==
    /\ phase # "idle" /\ Running(b)
    /\ \E got \in SUBSET Part(b) :
        /\ held[Part(b)] \subseteq got
        /\ held' = [held EXCEPT ![Part(b)] = got]
        /\ record' = [c \in Chunks |-> IF c \in Part(b) THEN c \in got ELSE record[c]]
        /\ ready' = [c \in Chunks |-> IF c \in Part(b) THEN "set" ELSE ready[c]]
        /\ job' = [job EXCEPT ![b] = IF (@ + 1) * Cap < Cardinality(group[b]) THEN @ + 1 ELSE Over]
        /\ UNCHANGED <<ledger, phase, stopped, stops, group, item, faults>>

(* run_job, or the choice of a profile before it, raises.                     *)
JobFails(b) ==
    /\ phase # "idle" /\ Running(b)
    /\ \E why \in {"limit", "error"} :
        /\ Fault(why)
        /\ stopped' = IF why = "limit" /\ stopped = "no" THEN "limit" ELSE stopped
        /\ ready' = Failed(b, why)
    /\ \E got \in SUBSET Part(b) :
        /\ held[Part(b)] \subseteq got
        /\ held' = [held EXCEPT ![Part(b)] = got]
    /\ job' = [job EXCEPT ![b] = Over]
    /\ UNCHANGED <<ledger, phase, stops, group, record, item>>

-----------------------------------------------------------------------------
InHand == {c \in Chunks : item[c] \in {"claimed", "verifying"}}
Left == {c \in Chunks : item[c] = "left"}

(* An item gets a slot and is claimed; after a stop it is left to a later run.*)
ItemBegins(c) ==
    /\ phase # "idle" /\ item[c] = "left"
    /\ Cardinality(InHand) < ItemSlots
    /\ IF stops
       THEN item' = [item EXCEPT ![c] = "none"] /\ UNCHANGED ledger
       ELSE /\ item' = [item EXCEPT ![c] = "claimed"]
            /\ attempts' = [attempts EXCEPT ![c] = @ + 1]
            /\ failed' = failed \ {c}
            /\ UNCHANGED done
    /\ UNCHANGED <<held, phase, jobs, stops, faults>>

HasRecord(c) == record[c]

ItemGoesOn(c) ==
    /\ item[c] = "claimed" /\ ready[c] = "set" /\ HasRecord(c)
    /\ item' = [item EXCEPT ![c] = "verifying"]
    /\ UNCHANGED <<ledger, held, phase, jobs, stops, faults>>

(* run_item's handler of exceptions: its job's error, no record, or Jev fails.*)
ItemFails(c) ==
    /\ \/ item[c] = "claimed" /\ ready[c] = "set" /\ ~HasRecord(c) /\ UNCHANGED faults
       \/ item[c] = "claimed" /\ ready[c] \in {"error", "over"} /\ UNCHANGED faults
       \/ item[c] = "verifying" /\ Fault("unverified")
    /\ failed' = failed \cup {c}
    /\ item' = [item EXCEPT ![c] = "none"]
    /\ UNCHANGED <<done, attempts, held, phase, jobs, stops>>

(* A usage limit: the claim is released and the run stops.                    *)
ItemStops(c) ==
    /\ item[c] = "claimed" /\ ready[c] = "limit"
    /\ stops' = TRUE
    /\ attempts' = [attempts EXCEPT ![c] = @ - 1]
    /\ item' = [item EXCEPT ![c] = "none"]
    /\ UNCHANGED <<done, failed, held, phase, jobs, faults>>

(* The writer and the item's completion, one transaction.                     *)
ItemWritten(c) ==
    /\ item[c] = "verifying"
    /\ done' = done \cup {c}
    /\ item' = [item EXCEPT ![c] = "none"]
    /\ UNCHANGED <<attempts, failed, held, phase, jobs, stops, faults>>

(* run_stage comes to its `finally` when all items are over, or when the      *)
(* ledger fails under one of them and gather raises: the others go on.        *)
StartCleanup ==
    /\ phase = "items"
    /\ \/ Left \cup InHand = {} /\ UNCHANGED faults
       \/ InHand # {} /\ Fault("abort")
    /\ phase' = "cleanup"
    /\ stopped' = IF stopped = "no" THEN "over" ELSE stopped
    /\ UNCHANGED <<ledger, held, stops, group, job, ready, record, item>>

Forget ==
    /\ stopped' = "no" /\ stops' = FALSE
    /\ group' = NoGroups /\ job' = AllOver
    /\ ready' = All("none") /\ record' = All(FALSE) /\ item' = All("none")

(* cleanup has waited for the jobs; items that still go are cancelled.        *)
EndRun ==
    /\ phase = "cleanup" /\ \A b \in Jobs : job[b] = Over
    /\ phase' = "idle"
    /\ Forget
    /\ UNCHANGED <<ledger, held, faults>>

(* The process dies.  Claimed items are reclaimed by the next run.            *)
Kill ==
    /\ phase # "idle" /\ Fault("kill")
    /\ phase' = "idle"
    /\ Forget
    /\ UNCHANGED <<ledger, held>>

JobStep(b) == JobBegins(b) \/ PartReturns(b) \/ JobFails(b)
ItemStep(c) == ItemBegins(c) \/ ItemGoesOn(c) \/ ItemFails(c) \/ ItemStops(c) \/ ItemWritten(c)

Next ==
    \/ StartRun \/ StartCleanup \/ EndRun \/ Kill
    \/ \E b \in Jobs : JobStep(b)
    \/ \E c \in Chunks : ItemStep(c)

Spec == Init /\ [][Next]_vars

-----------------------------------------------------------------------------

(* A usage limit fails no item: as long as a run goes on, an item fails only  *)
(* when its own job has begun and ended otherwise.  Chunks of the job that    *)
(* met the limit, and of jobs it keeps from starting, are tried again.        *)
LimitCostsNothing ==
    [][phase = "items" => \A c \in failed' \ failed : ready[c] \in {"set", "error"}]_vars

(* With the build run again, every chunk is written or has failed for good.   *)
ChunksSettle == <>[](\A c \in Chunks : Settled(c))

=============================================================================
