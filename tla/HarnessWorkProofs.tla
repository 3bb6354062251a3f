-------------------------- MODULE HarnessWorkProofs --------------------------
(***************************************************************************)
(* Theorems about HarnessWork: one harness job for any records, attempts   *)
(* and calls, and the enrich stage for any batches, slots and faults.      *)
(***************************************************************************)
EXTENDS HarnessWork, TLAPS, FiniteSetTheorems

-----------------------------------------------------------------------------
(* A job. *)

(* Where a call is says what its files hold: what a call has collected is kept *)
(* before the agent may touch the output again, and is not asked for anew.     *)
KeptSoFar ==
    /\ pc # "idle" => kept \subseteq got
    /\ pc \in {"asking", "clearing", "running"} => got = kept
    /\ pc \in {"keeping", "asking", "closing"} => Job!Valid \subseteq got
    /\ pc \in {"keeping", "closing"} => got \subseteq kept \cup Job!Valid
    /\ pc \in {"clearing", "running"} /\ session = NoSession => input = Job!Pending(kept)

(* Sessions that may be continued were shown all that is not kept.             *)
Shown(s) == s # NoSession => Job!Pending(kept) \subseteq s

JobInv ==
    /\ Job!TypeOK
    /\ pc = "keeping" => left > 0
    /\ pc = "clearing" => session = NoSession
    /\ ~spoilt =>
         /\ stray = NoAgent
         /\ KeptSoFar
         /\ Shown(recorded)
         /\ pc # "idle" => Shown(session)

LEMMA InitJob == ASSUME Job!Init PROVE JobInv
<1>1. JobAttempts \in Nat /\ MaxCalls \in Nat
    BY JobAssumption DEF Job!HarnessJobsAssumption
<1>2. Job!TypeOK
    <2>1. 0 \in 0..JobAttempts /\ 0 \in 0..MaxCalls
        BY <1>1
    <2>2. output \in [Ids -> {"none", "bad", "valid"}]
        BY DEF Job!Init
    <2> QED BY <2>1, <2>2 DEF Job!Init, Job!TypeOK, Job!Sessions
<1>3. KeptSoFar /\ Shown(recorded) /\ Shown(session)
    BY DEF Job!Init, KeptSoFar, Shown
<1> QED BY <1>2, <1>3 DEF JobInv, Job!Init

(* The agent, and one whose process has died. *)
LEMMA AgentKeeps == ASSUME JobInv, Job!AgentStep PROVE JobInv'
<1> USE DEF Job!TypeOK, Job!Sessions, Job!Valid, Job!Pending, KeptSoFar, Shown, JobInv
<1>1. CASE Job!AgentWrites
    BY <1>1 DEF Job!AgentWrites, Job!Writes, Job!job
<1>2. CASE Job!StrayWrites
    BY <1>2 DEF Job!StrayWrites, Job!Writes, Job!job
<1>3. CASE Job!StrayEnds
    BY <1>3 DEF Job!StrayEnds, Job!files, Job!job
<1> QED BY <1>1, <1>2, <1>3 DEF Job!AgentStep

(* run_job. *)
LEMMA RunnerKeeps == ASSUME JobInv, Job!RunnerStep PROVE JobInv'
<1> USE JobAssumption
    DEF Job!HarnessJobsAssumption, Job!TypeOK, Job!Sessions, Job!Valid, Job!Pending, KeptSoFar, Shown, JobInv,
        Job!files, Job!job
<1>1. CASE Job!Call
    BY <1>1 DEF Job!Call, Job!Found, Job!Bad
<1>2. CASE Job!Keep
    BY <1>2 DEF Job!Keep, Job!Written, Job!LeftAfter
<1>3. CASE Job!Continue
    BY <1>3 DEF Job!Continue
<1>4. CASE Job!WriteInput
    BY <1>4 DEF Job!WriteInput, Job!Asked
<1>5. CASE Job!ClearOutput
    BY <1>5 DEF Job!ClearOutput
<1>6. CASE Job!AgentEnds
    BY <1>6 DEF Job!AgentEnds, Job!NextSession, Job!After, Job!Bad
<1>7. CASE Job!Return
    BY <1>7 DEF Job!Return, Job!MissingAtEnd
<1> QED BY <1>1, <1>2, <1>3, <1>4, <1>5, <1>6, <1>7 DEF Job!RunnerStep

(* A call that ends otherwise. *)
LEMMA CutOffKeeps == ASSUME JobInv, Job!Raise \/ Job!Kill PROVE JobInv'
<1> USE JobAssumption
    DEF Job!HarnessJobsAssumption, Job!TypeOK, Job!Sessions, Job!Valid, Job!Pending, KeptSoFar, Shown, JobInv,
        Job!files, Job!job, Job!Forget
<1>1. CASE Job!Raise
    BY <1>1 DEF Job!Raise
<1>2. CASE Job!Kill
    <2>1. /\ pc' = "idle" /\ got' = {} /\ missing' = {} /\ left' = 0 /\ session' = NoSession
          /\ kept' = kept \/ kept' \in SUBSET got
          /\ input' = input \/ input' \in SUBSET Ids
          /\ stray' = stray \/ stray' \in {input, session} \ {NoSession}
          /\ spoilt' = (spoilt \/ kept' # kept \/ stray' # NoAgent)
          /\ output' = output /\ recorded' = recorded /\ calls' = calls
        BY <1>2 DEF Job!Kill, Job!Asked
    <2>2. stray' \in {NoAgent} \cup SUBSET Ids
        BY <2>1
    <2>3. Job!TypeOK'
        BY <2>1, <2>2
    <2>4. ~spoilt' => stray' = NoAgent /\ KeptSoFar' /\ Shown(recorded)'
        BY <2>1
    <2> QED BY <2>1, <2>3, <2>4
<1> QED BY <1>1, <1>2

LEMMA NextJob == JobInv /\ [Job!Next]_Job!vars => JobInv'
<1> SUFFICES ASSUME JobInv, [Job!Next]_Job!vars PROVE JobInv'
    OBVIOUS
<1>1. CASE Job!Next
    BY <1>1, AgentKeeps, RunnerKeeps, CutOffKeeps DEF Job!Next
<1>2. CASE UNCHANGED Job!vars
    BY <1>2 DEF Job!vars, Job!files, Job!job, JobInv, Job!TypeOK, Job!Valid, Job!Pending, KeptSoFar, Shown
<1> QED BY <1>1, <1>2

(* What a step does to the records somebody has collected, and what an agent   *)
(* is given as its input.                                                     *)
LEMMA JobRecords ==
    ASSUME JobInv, [Job!Next]_Job!vars
    PROVE  spoilt' \/ Job!Collected \subseteq Job!Collected'
<1> USE DEF JobInv, KeptSoFar, Job!TypeOK, Job!Valid, Job!Collected, Job!files, Job!job
<1> SUFFICES ASSUME ~spoilt' PROVE Job!Collected \subseteq Job!Collected'
    OBVIOUS
<1>1. CASE Job!RunnerStep
    BY <1>1 DEF Job!RunnerStep, Job!Call, Job!Keep, Job!Continue, Job!WriteInput, Job!ClearOutput, Job!AgentEnds,
                Job!Return, Job!Found, Job!Written, Job!After
<1>2. CASE Job!AgentStep
    BY <1>2 DEF Job!AgentStep, Job!AgentWrites, Job!StrayWrites, Job!StrayEnds
<1>3. CASE Job!Raise
    BY <1>3 DEF Job!Raise, Job!Forget
<1>4. CASE Job!Kill
    BY <1>4 DEF Job!Kill, Job!Forget
<1>5. CASE UNCHANGED Job!vars
    BY <1>5 DEF Job!vars
<1> QED BY <1>1, <1>2, <1>3, <1>4, <1>5 DEF Job!Next

LEMMA JobInputs ==
    ASSUME JobInv, [Job!Next]_Job!vars, input' # input, ~spoilt', pc' = "clearing"
    PROVE  input' \cap (kept \cup Job!Valid) = {}
<1> USE DEF JobInv, KeptSoFar, Job!TypeOK, Job!Valid, Job!files, Job!job
<1>1. CASE Job!RunnerStep
    BY <1>1 DEF Job!RunnerStep, Job!Call, Job!Keep, Job!Continue, Job!WriteInput, Job!ClearOutput, Job!AgentEnds,
                Job!Return, Job!Asked, Job!Pending
<1>2. CASE ~Job!RunnerStep
    BY <1>2 DEF Job!Next, Job!AgentStep, Job!AgentWrites, Job!StrayWrites, Job!StrayEnds, Job!Raise, Job!Kill,
                Job!vars
<1> QED BY <1>1, <1>2

-----------------------------------------------------------------------------
(* The stage. *)

(* The attempts of an item that is not written, by where it is.  A run that    *)
(* begins takes up what has attempts left or has not failed; only a fault, one *)
(* for many items, leaves an item that is neither.                             *)
AttemptsLeft(c) ==
    /\ item[c] \in {"claimed", "verifying"} => attempts[c] >= 1
    /\ attempts[c] <= MaxAttempts + faults
    /\ c \notin failed \cup done /\ item[c] \notin {"claimed", "verifying"} =>
         attempts[c] < MaxAttempts + faults
    /\ c \in failed /\ item[c] = "left" => attempts[c] < MaxAttempts
    /\ item[c] # "none" => c \notin done
    /\ item[c] \in {"claimed", "verifying"} => c \notin failed
    /\ phase = "cleanup" /\ item[c] # "none" => faults > 0 /\ attempts[c] < MaxAttempts + faults
    /\ phase = "cleanup" /\ item[c] = "left" /\ c \notin failed => attempts[c] + 1 < MaxAttempts + faults
    /\ phase = "idle" => item[c] = "none"

(* A future fails as over only after the stage is, and a verified item's job   *)
(* has returned.                                                              *)
Futures ==
    /\ stopped = "over" => phase = "cleanup"
    /\ \A c \in Chunks : ready[c] = "over" => phase = "cleanup"
    /\ \A c \in Chunks : item[c] = "verifying" => ready[c] = "set"

StageInv ==
    /\ TypeOK
    /\ Futures
    /\ \A c \in Chunks : AttemptsLeft(c)

LEMMA GroupChunks == ASSUME TypeOK, NEW b \in Jobs PROVE group[b] \subseteq Chunks
BY DEF TypeOK, Chunks, Jobs

LEMMA InitStage == ASSUME Init PROVE StageInv
<1>1. MaxAttempts \in Nat \ {0} /\ MaxFaults \in Nat
    BY EnrichAssumption
<1>2. TypeOK
    <2>1. 0 \in 0..(MaxAttempts + MaxFaults) /\ 0 \in 0..MaxFaults
        BY <1>1
    <2>2. /\ attempts \in [Chunks -> 0..(MaxAttempts + MaxFaults)]
          /\ job \in [Jobs -> {Queued, Over} \cup 0..Cardinality(Chunks)]
          /\ ready \in [Chunks -> {"none", "waiting", "set", "limit", "over", "error"}]
          /\ record \in [Chunks -> BOOLEAN] /\ item \in [Chunks -> {"none", "left", "claimed", "verifying"}]
        BY <2>1 DEF Init, All, AllOver
    <2> QED BY <2>1, <2>2 DEF Init, TypeOK, NoGroups
<1>3. Futures /\ \A c \in Chunks : AttemptsLeft(c)
    BY <1>1 DEF Init, Futures, AttemptsLeft, All
<1> QED BY <1>2, <1>3 DEF StageInv

(* The jobs' side: nothing of an item but its future changes, and no future    *)
(* that is set.                                                               *)
LEMMA JobsKeepItems ==
    ASSUME StageInv, UNCHANGED <<ledger, phase, item>>,
           faults' \in faults..MaxFaults,
           stopped' \in {"no", "limit", "over"}, stopped' = "over" => stopped = "over",
           ready' \in [Chunks -> {"none", "waiting", "set", "limit", "over", "error"}],
           \A c \in Chunks : ready'[c] = "over" => ready[c] = "over" \/ stopped = "over",
           \A c \in Chunks : ready[c] = "set" => ready'[c] = "set"
    PROVE  /\ Futures'
           /\ \A c \in Chunks : AttemptsLeft(c)'
<1> USE EnrichAssumption DEF StageInv, TypeOK, ledger
<1>1. Futures'
    BY DEF Futures
<1>2. ASSUME NEW c \in Chunks PROVE AttemptsLeft(c)'
    BY DEF AttemptsLeft
<1> QED BY <1>1, <1>2

LEMMA FailedFutures ==
    ASSUME TypeOK, NEW b \in Jobs, NEW why \in {"limit", "over", "error"}
    PROVE  /\ Failed(b, why) \in [Chunks -> {"none", "waiting", "set", "limit", "over", "error"}]
           /\ \A c \in Chunks : Failed(b, why)[c] = "over" => ready[c] = "over" \/ why = "over"
           /\ \A c \in Chunks : ready[c] = "set" => Failed(b, why)[c] = "set"
BY DEF TypeOK, Failed

LEMMA JobBeginsKeeps == ASSUME StageInv, NEW b \in Jobs, JobBegins(b) PROVE StageInv'
<1> USE DEF StageInv
<1>1. /\ phase' = phase /\ stopped' = stopped /\ faults' = faults /\ item' = item /\ done' = done
      /\ attempts' = attempts /\ failed' = failed /\ held' = held /\ group' = group
      /\ stops' = stops /\ record' = record
      /\ faults' \in faults..MaxFaults /\ stopped \in {"no", "limit", "over"}
    BY DEF JobBegins, ledger, TypeOK
<1>2. job' \in [Jobs -> {Queued, Over} \cup 0..Cardinality(Chunks)]
    <2>1. 0 \in 0..Cardinality(Chunks)
        BY EnrichAssumption, FS_CardinalityType
    <2> QED BY <2>1 DEF JobBegins, TypeOK
<1>3. ready' = ready \/ (stopped # "no" /\ ready' = Failed(b, stopped))
    <2>1. CASE stopped = "no"
        BY <2>1 DEF JobBegins
    <2>2. CASE stopped # "no"
        BY <2>2 DEF JobBegins, Refused
    <2> QED BY <2>1, <2>2
<1>4. /\ ready' \in [Chunks -> {"none", "waiting", "set", "limit", "over", "error"}]
      /\ \A c \in Chunks : ready'[c] = "over" => ready[c] = "over" \/ stopped = "over"
      /\ \A c \in Chunks : ready[c] = "set" => ready'[c] = "set"
    <2>1. CASE ready' = ready
        BY <2>1 DEF TypeOK
    <2>2. CASE stopped # "no" /\ ready' = Failed(b, stopped)
        BY <1>1, <2>2, FailedFutures
    <2> QED BY <1>3, <2>1, <2>2
<1>5. TypeOK'
    BY <1>1, <1>2, <1>4 DEF TypeOK
<1> QED BY <1>1, <1>4, <1>5, JobsKeepItems DEF ledger

LEMMA PartReturnsKeeps == ASSUME StageInv, NEW b \in Jobs, PartReturns(b) PROVE StageInv'
<1> USE DEF StageInv
<1>1. PICK records \in SUBSET Part(b) :
          /\ held' = [held EXCEPT ![Part(b)] = records]
          /\ record' = [c \in Chunks |-> IF c \in Part(b) THEN c \in records ELSE record[c]]
          /\ ready' = [c \in Chunks |-> IF c \in Part(b) THEN "set" ELSE ready[c]]
          /\ job' = [job EXCEPT ![b] = IF (@ + 1) * Cap < Cardinality(group[b]) THEN @ + 1 ELSE Over]
    BY DEF PartReturns
<1>2. /\ phase' = phase /\ stopped' = stopped /\ faults' = faults /\ item' = item /\ done' = done
      /\ attempts' = attempts /\ failed' = failed /\ group' = group /\ stops' = stops /\ job[b] >= 0
      /\ faults' \in faults..MaxFaults /\ stopped \in {"no", "limit", "over"}
    BY DEF PartReturns, ledger, TypeOK, Running
<1>3. job' \in [Jobs -> {Queued, Over} \cup 0..Cardinality(Chunks)]
    <2>1. /\ Cardinality(group[b]) \in Nat /\ Cardinality(Chunks) \in Nat
          /\ Cardinality(group[b]) <= Cardinality(Chunks)
        BY GroupChunks, EnrichAssumption, FS_Subset, FS_CardinalityType
    <2>2. job[b] \in 0..Cardinality(Chunks) /\ Cap \in Nat \ {0}
        BY <1>2, EnrichAssumption DEF TypeOK, Queued, Over
    <2>3. (job[b] + 1) * Cap < Cardinality(group[b]) => job[b] + 1 \in 0..Cardinality(Chunks)
        <3> DEFINE n == job[b] + 1
        <3>1. n \in Nat /\ n <= n * Cap
            BY <2>2
        <3> HIDE DEF n
        <3>2. n * Cap < Cardinality(group[b]) => n \in 0..Cardinality(Chunks)
            BY <2>1, <2>2, <3>1
        <3> QED BY <3>2 DEF n
    <2> QED BY <1>1, <2>3 DEF TypeOK
<1>4. /\ ready' \in [Chunks -> {"none", "waiting", "set", "limit", "over", "error"}]
      /\ \A c \in Chunks : ready'[c] = "over" => ready[c] = "over"
      /\ \A c \in Chunks : ready[c] = "set" => ready'[c] = "set"
    BY <1>1 DEF TypeOK
<1>5. record' \in [Chunks -> BOOLEAN]
    <2> DEFINE now(c) == IF c \in Part(b) THEN c \in records ELSE record[c]
    <2>1. ASSUME NEW c \in Chunks PROVE now(c) \in BOOLEAN
        <3>1. record[c] \in BOOLEAN
            BY DEF TypeOK
        <3>2. (c \in records) \in BOOLEAN
            OBVIOUS
        <3> QED BY <3>1, <3>2, Zenon
    <2>2. record' = [c \in Chunks |-> now(c)]
        BY <1>1
    <2> HIDE DEF now
    <2> QED BY <2>1, <2>2
<1>7. \A k \in DOMAIN held' : held'[k] \subseteq k
    BY <1>1 DEF TypeOK
<1>6. TypeOK'
    BY <1>2, <1>3, <1>4, <1>5, <1>7 DEF TypeOK
<1> QED BY <1>2, <1>4, <1>6, JobsKeepItems DEF ledger

LEMMA JobFailsKeeps == ASSUME StageInv, NEW b \in Jobs, JobFails(b) PROVE StageInv'
<1> USE DEF StageInv
<1>1. PICK why \in {"limit", "error"} :
          /\ Fault(why) /\ ready' = Failed(b, why)
          /\ stopped' = IF why = "limit" /\ stopped = "no" THEN "limit" ELSE stopped
    BY DEF JobFails
<1>2. PICK records \in SUBSET Part(b) : held' = [held EXCEPT ![Part(b)] = records]
    BY DEF JobFails
<1>3. /\ phase' = phase /\ item' = item /\ done' = done /\ attempts' = attempts /\ failed' = failed
      /\ group' = group /\ stops' = stops /\ record' = record /\ job' = [job EXCEPT ![b] = Over]
    BY DEF JobFails, ledger
<1>4. faults' \in faults..MaxFaults /\ faults' \in 0..MaxFaults
    BY <1>1, EnrichAssumption DEF Fault, TypeOK
<1>5. stopped' \in {"no", "limit", "over"} /\ (stopped' = "over" => stopped = "over")
    BY <1>1 DEF TypeOK
<1>6. /\ ready' \in [Chunks -> {"none", "waiting", "set", "limit", "over", "error"}]
      /\ \A c \in Chunks : ready'[c] = "over" => ready[c] = "over"
      /\ \A c \in Chunks : ready[c] = "set" => ready'[c] = "set"
    BY <1>1, FailedFutures
<1>7. \A k \in DOMAIN held' : held'[k] \subseteq k
    BY <1>2 DEF TypeOK
<1>8. TypeOK'
    BY <1>3, <1>4, <1>5, <1>6, <1>7 DEF TypeOK
<1> QED BY <1>3, <1>4, <1>5, <1>6, <1>8, JobsKeepItems DEF ledger

(* The items' side: one item changes, its future does not.                    *)
LEMMA ItemBeginsKeeps == ASSUME StageInv, NEW c \in Chunks, ItemBegins(c) PROVE StageInv'
<1> USE EnrichAssumption DEF StageInv, ItemBegins, TypeOK, ledger, jobs
<1>1. /\ attempts \in [Chunks -> 0..(MaxAttempts + MaxFaults)] /\ AttemptsLeft(c) /\ faults \in 0..MaxFaults
      /\ MaxAttempts \in Nat \ {0} /\ MaxFaults \in Nat /\ attempts[c] \in Nat
    OBVIOUS
<1>2. ~stops => attempts[c] + 1 <= MaxAttempts + faults
    BY <1>1 DEF AttemptsLeft
<1>3. TypeOK'
    <2>1. CASE stops
        BY <2>1
    <2>2. CASE ~stops
        <3>1. attempts[c] + 1 \in 0..(MaxAttempts + MaxFaults)
            BY <1>1, <1>2, <2>2
        <3>2. attempts' = [attempts EXCEPT ![c] = attempts[c] + 1]
            BY <2>2
        <3>3. attempts' \in [Chunks -> 0..(MaxAttempts + MaxFaults)]
            BY <1>1, <3>1, <3>2
        <3>4. /\ item' = [item EXCEPT ![c] = "claimed"] /\ failed' = failed \ {c} /\ done' = done
              /\ UNCHANGED <<held, phase, jobs, stops, faults>>
            BY <2>2
        <3> QED BY <3>3, <3>4
    <2> QED BY <2>1, <2>2
<1>4. Futures'
    BY DEF Futures
<1>5. ASSUME NEW d \in Chunks PROVE AttemptsLeft(d)'
    BY <1>1, <1>2 DEF AttemptsLeft
<1> QED BY <1>3, <1>4, <1>5

LEMMA ItemGoesOnKeeps == ASSUME StageInv, NEW c \in Chunks, ItemGoesOn(c) PROVE StageInv'
<1> USE DEF StageInv, ItemGoesOn, TypeOK, ledger, jobs
<1>1. TypeOK'
    OBVIOUS
<1>2. Futures'
    BY DEF Futures
<1>3. ASSUME NEW d \in Chunks PROVE AttemptsLeft(d)'
    BY DEF AttemptsLeft
<1> QED BY <1>1, <1>2, <1>3

LEMMA ItemFailsKeeps == ASSUME StageInv, NEW c \in Chunks, ItemFails(c) PROVE StageInv'
<1> USE EnrichAssumption DEF StageInv, TypeOK, ledger, jobs
<1>1. /\ failed' = failed \cup {c} /\ item' = [item EXCEPT ![c] = "none"] /\ item[c] \in {"claimed", "verifying"}
      /\ UNCHANGED <<done, attempts, held, phase, jobs, stops>> /\ faults' \in faults..MaxFaults
      /\ c \notin done
    BY DEF ItemFails, Fault, AttemptsLeft
<1>2. TypeOK'
    BY <1>1
<1>3. Futures'
    BY <1>1 DEF Futures
<1>4. ASSUME NEW d \in Chunks PROVE AttemptsLeft(d)'
    BY <1>1 DEF AttemptsLeft
<1> QED BY <1>2, <1>3, <1>4

LEMMA ItemStopsKeeps == ASSUME StageInv, NEW c \in Chunks, ItemStops(c) PROVE StageInv'
<1> USE EnrichAssumption DEF StageInv, ItemStops, TypeOK, ledger, jobs
<1>1. attempts[c] >= 1
    BY DEF AttemptsLeft
<1>2. TypeOK'
    BY <1>1
<1>3. Futures'
    BY DEF Futures
<1>4. ASSUME NEW d \in Chunks PROVE AttemptsLeft(d)'
    BY <1>1 DEF AttemptsLeft
<1> QED BY <1>2, <1>3, <1>4

LEMMA ItemWrittenKeeps == ASSUME StageInv, NEW c \in Chunks, ItemWritten(c) PROVE StageInv'
<1> USE DEF StageInv, ItemWritten, TypeOK, ledger, jobs
<1>1. c \notin failed
    BY DEF AttemptsLeft
<1>2. TypeOK'
    BY <1>1
<1>3. Futures'
    BY DEF Futures
<1>4. ASSUME NEW d \in Chunks PROVE AttemptsLeft(d)'
    BY DEF AttemptsLeft
<1> QED BY <1>2, <1>3, <1>4

(* The stage itself. *)
LEMMA StartRunKeeps == ASSUME StageInv, StartRun PROVE StageInv'
<1> USE EnrichAssumption DEF StageInv, StartRun, ledger
<1>1. TypeOK'
    BY DEF TypeOK
<1>2. Futures'
    BY DEF Futures
<1>3. ASSUME NEW c \in Chunks PROVE AttemptsLeft(c)'
    BY DEF AttemptsLeft, Selected, Settled, TypeOK
<1> QED BY <1>1, <1>2, <1>3

LEMMA StartCleanupKeeps == ASSUME StageInv, StartCleanup PROVE StageInv'
<1> USE EnrichAssumption DEF StageInv, StartCleanup, ledger
<1>1. TypeOK' /\ faults' \in faults..MaxFaults
    BY DEF TypeOK, Fault
<1>2. Futures'
    BY DEF Futures
<1>3. ASSUME NEW c \in Chunks PROVE AttemptsLeft(c)'
    BY <1>1 DEF AttemptsLeft, Left, InHand, Fault, TypeOK
<1> QED BY <1>1, <1>2, <1>3

LEMMA ForgetKeeps ==
    ASSUME StageInv, phase # "idle", phase' = "idle", Forget, UNCHANGED <<ledger, held>>,
           faults' \in faults..MaxFaults, phase = "cleanup" \/ faults' > faults
    PROVE  StageInv'
<1> USE EnrichAssumption DEF StageInv, ledger, Forget
<1>1. TypeOK'
    <2>1. job' \in [Jobs -> {Queued, Over} \cup 0..Cardinality(Chunks)] /\ record' \in [Chunks -> BOOLEAN]
        BY Zenon DEF AllOver, All
    <2>2. /\ ready' \in [Chunks -> {"none", "waiting", "set", "limit", "over", "error"}]
          /\ item' \in [Chunks -> {"none", "left", "claimed", "verifying"}]
        BY DEF All
    <2>3. faults' \in 0..MaxFaults
        BY DEF TypeOK
    <2> QED BY <2>1, <2>2, <2>3 DEF TypeOK, NoGroups
<1>2. Futures'
    BY DEF Futures, All
<1>3. ASSUME NEW c \in Chunks PROVE AttemptsLeft(c)'
    <2>1. /\ attempts'[c] = attempts[c] /\ attempts[c] \in Nat
          /\ faults \in Nat /\ faults' \in Nat /\ MaxAttempts \in Nat
        BY DEF TypeOK
    <2>2. item'[c] = "none" /\ done' = done /\ failed' = failed /\ phase' = "idle"
        BY DEF All
    <2>3. AttemptsLeft(c) /\ item[c] \in {"none", "left", "claimed", "verifying"}
        BY DEF TypeOK
    <2>4. faults <= faults'
        BY DEF TypeOK
    <2>5. attempts[c] <= MaxAttempts + faults
        BY <2>3 DEF AttemptsLeft
    <2>6. c \notin failed \cup done => attempts[c] < MaxAttempts + faults'
        <3>1. CASE item[c] \in {"none", "left"}
            BY <2>1, <2>3, <2>4, <3>1 DEF AttemptsLeft
        <3>2. CASE item[c] \in {"claimed", "verifying"}
            BY <2>1, <2>3, <2>4, <3>2 DEF AttemptsLeft
        <3> QED BY <2>3, <3>1, <3>2
    <2> QED BY <2>1, <2>2, <2>4, <2>5, <2>6 DEF AttemptsLeft
<1> QED BY <1>1, <1>2, <1>3

LEMMA NextStage == StageInv /\ [Next]_vars => StageInv'
<1> SUFFICES ASSUME StageInv, [Next]_vars PROVE StageInv'
    OBVIOUS
<1>1. CASE EndRun \/ Kill
    <2>1. /\ phase # "idle" /\ phase' = "idle" /\ Forget /\ UNCHANGED <<ledger, held>>
          /\ faults' \in faults..MaxFaults /\ (phase = "cleanup" \/ faults' > faults)
        BY <1>1, EnrichAssumption DEF EndRun, Kill, Fault, StageInv, TypeOK
    <2> QED BY <2>1, ForgetKeeps
<1>2. CASE UNCHANGED vars
    BY <1>2 DEF vars, ledger, jobs, StageInv, TypeOK, Futures, AttemptsLeft
<1> QED BY <1>1, <1>2, StartRunKeeps, StartCleanupKeeps, JobBeginsKeeps, PartReturnsKeeps, JobFailsKeeps,
           ItemBeginsKeeps, ItemGoesOnKeeps, ItemFailsKeeps, ItemStopsKeeps, ItemWrittenKeeps
        DEF Next, JobStep, ItemStep

-----------------------------------------------------------------------------
(* Both. *)
WorkInv == JobInv /\ StageInv

LEMMA NextWork ==
    ASSUME WorkInv, [RunStage \/ RunJob]_workVars
    PROVE  WorkInv' /\ [Job!Next]_Job!vars /\ [Next]_vars
<1>1. [Job!Next]_Job!vars /\ [Next]_vars
    BY DEF RunStage, RunJob, workVars, jobVars, Job!vars, Job!files, Job!job, vars
<1> QED BY <1>1, NextJob, NextStage DEF WorkInv

THEOREM WorkInvariant == WorkSpec => []WorkInv
<1>1. InitWork => WorkInv
    BY InitJob, InitStage DEF InitWork, WorkInv
<1>2. WorkInv /\ [RunStage \/ RunJob]_workVars => WorkInv'
    BY NextWork
<1> QED BY <1>1, <1>2, PTL DEF WorkSpec

(* A session that is continued was shown every record it is asked for: what it *)
(* was not shown had been kept before (run_job's continue message, jobs.py).   *)
THEOREM ContinuesWhatWasShown == WorkSpec => []ContinuesWhatItWasShown
<1>1. WorkInv => ContinuesWhatItWasShown
    BY DEF WorkInv, JobInv, StageInv, KeptSoFar, Shown, ContinuesWhatItWasShown, Job!ContinuesWhatItWasShown
<1> QED BY <1>1, WorkInvariant, PTL

(* Valid records survive sessions, restarts, errors and kills of run_job,      *)
(* unless the kept file was cut off or an agent outlived its process.         *)
THEOREM ValidRecordsSurvive == WorkSpec => RecordsSurvive
<1>1. WorkInv /\ [RunStage \/ RunJob]_workVars
          => [spoilt' \/ Job!Collected \subseteq Job!Collected']_Job!vars
    BY NextWork, JobRecords DEF WorkInv
<1> QED BY <1>1, WorkInvariant, PTL DEF WorkSpec, RecordsSurvive, Job!RecordsSurvive

(* A restart of an agent is only ever with records that no file has valid.    *)
THEOREM NothingIsAskedTwice == WorkSpec => NothingAskedTwice
<1>1. WorkInv /\ [RunStage \/ RunJob]_workVars
          => [input' # input /\ ~spoilt' /\ pc' = "clearing" => input' \cap (kept \cup Job!Valid) = {}]_Job!vars
    BY NextWork, JobInputs DEF WorkInv
<1> QED BY <1>1, WorkInvariant, PTL DEF WorkSpec, NothingAskedTwice, Job!NothingAskedTwice

(* A usage limit fails no item of the enrich stage as long as its run goes on: *)
(* an item fails only by a job that began and did not meet the limit.          *)
THEOREM UsageLimitCostsNothing == WorkSpec => LimitCostsNothing
<1>1. ASSUME WorkInv, [RunStage \/ RunJob]_workVars
      PROVE  [phase = "items" => \A c \in failed' \ failed : ready[c] \in {"set", "error"}]_vars
    <2>1. [Next]_vars /\ StageInv
        BY <1>1, NextWork DEF WorkInv
    <2>2. ASSUME phase = "items", NEW c \in failed' \ failed, Next PROVE ready[c] \in {"set", "error"}
        <3>1. c \in Chunks /\ ItemFails(c)
            BY <2>2 DEF Next, StartRun, StartCleanup, EndRun, Kill, JobStep, JobBegins, PartReturns, JobFails,
                        ItemStep, ItemBegins, ItemGoesOn, ItemFails, ItemStops, ItemWritten, ledger
        <3> QED BY <2>1, <2>2, <3>1 DEF ItemFails, StageInv, Futures
    <2> QED BY <2>1, <2>2
<1> QED BY <1>1, WorkInvariant, PTL DEF WorkSpec, LimitCostsNothing
=============================================================================
