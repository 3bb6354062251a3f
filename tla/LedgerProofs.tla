---------------------------- MODULE LedgerProofs ----------------------------
(***************************************************************************)
(* Theorems about Ledger for any number of runs, items, hashes and         *)
(* attempts.  Type correctness needs no assumption.  The ownership and     *)
(* retry properties are proved for every stage without an after_item, over *)
(* failures, run stops and crashes: a lost owner session, an aborted run   *)
(* and links' after_item break them.                                       *)
(***************************************************************************)
EXTENDS Ledger, TLAPS

(* The faults the ledger is built for. *)
Reliable ==
    /\ ~AfterItem
    /\ "owner_loss" \notin Faults
    /\ "abort" \notin Faults

-----------------------------------------------------------------------------
LEMMA InitTypeOK == Init => TypeOK
<1> SUFFICES ASSUME Init PROVE TypeOK
    OBVIOUS
<1> USE LedgerAssumption DEF Init
<1>1. row \in [Items -> Rows]
    BY DEF Rows, NoRow, Statuses
<1>2. phase \in [Runs -> Phases] /\ work \in [Runs -> [Items -> TaskStates]]
    BY DEF Phases, TaskStates
<1>3. option \in [Runs -> OptionKinds]
    OBVIOUS
<1> QED BY <1>1, <1>2, <1>3 DEF TypeOK

(* A row keeps its type when a step writes its status, its lease or its count. *)
LEMMA RowUpdates ==
    ASSUME NEW x \in Rows, NEW s \in Statuses, NEW a \in Nat, NEW f \in BOOLEAN
    PROVE  /\ [x EXCEPT !.status = s] \in Rows
           /\ [x EXCEPT !.fresh = f] \in Rows
           /\ [x EXCEPT !.status = s, !.fresh = f] \in Rows
           /\ [x EXCEPT !.status = s, !.attempts = a] \in Rows
BY DEF Rows

LEMMA NextTypeOK == TypeOK /\ [Next]_vars => TypeOK'
<1> SUFFICES ASSUME TypeOK, [Next]_vars PROVE TypeOK'
    OBVIOUS
<1> USE LedgerAssumption DEF TypeOK
<1>1. ASSUME NEW i \in Items, NEW h \in Hashes, Edit(i, h) PROVE TypeOK'
    <2>1. past' \in [Items -> SUBSET Hashes]
        BY <1>1 DEF Edit
    <2> QED BY <1>1, <2>1 DEF Edit, runState
<1>2. ASSUME NEW r \in Runs, Reclaim(r) PROVE TypeOK'
    <2>1. row' \in [Items -> Rows]
        BY <1>2, RowUpdates DEF Reclaim, Statuses
    <2>2. phase' \in [Runs -> Phases]
        BY <1>2 DEF Reclaim, Phases
    <2> QED BY <1>2, <2>1, <2>2 DEF Reclaim
<1>3. ASSUME NEW r \in Runs, Enumerate(r) PROVE TypeOK'
    <2>1. phase' \in [Runs -> Phases]
        BY <1>3 DEF Enumerate, Phases
    <2>2. want' \in [Runs -> [Items -> Hashes \cup {NoHash}]]
        BY <1>3 DEF Enumerate
    <2> QED BY <1>3, <2>1, <2>2 DEF Enumerate
<1>4. ASSUME NEW r \in Runs, StartRun(r) PROVE TypeOK'
    <2>1. phase' \in [Runs -> Phases]
        BY <1>4 DEF StartRun, Phases
    <2>2. todo' \in [Runs -> SUBSET Items]
        <3>1. PICK selected \in SUBSET Runnable(r) :
                todo' = [todo EXCEPT ![r] = selected]
            BY <1>4 DEF StartRun
        <3> QED BY <3>1 DEF Runnable
    <2> QED BY <1>4, <2>1, <2>2 DEF StartRun
<1>5. ASSUME NEW r \in Runs, NEW i \in Items, Claim(r, i) PROVE TypeOK'
    <2>1. AttemptsAfter(i, want[r][i]) \in Nat
        BY DEF AttemptsAfter, Rows
    <2>2. row' \in [Items -> Rows]
        BY <1>5, <2>1 DEF Claim, Rows, Statuses
    <2>3. work' \in [Runs -> [Items -> TaskStates]]
        BY <1>5 DEF Claim, TaskStates
    <2>4. fails' \in [Items -> Nat]
        BY <1>5 DEF Claim
    <2>5. todo' \in [Runs -> SUBSET Items] /\ solo' \in Runs \cup {NoRun}
        BY <1>5 DEF Claim
    <2>6. got' \in [Runs -> [Items -> Hashes \cup {NoHash}]]
        BY <1>5 DEF Claim
    <2> QED BY <1>5, <2>2, <2>3, <2>4, <2>5, <2>6 DEF Claim
<1>6. ASSUME NEW r \in Runs, NEW i \in Items, ClaimRefused(r, i) PROVE TypeOK'
    BY <1>6 DEF ClaimRefused
<1>14. ASSUME NEW r \in Runs, NEW i \in Items, Read(r, i) PROVE TypeOK'
    <2>1. got' \in [Runs -> [Items -> Hashes \cup {NoHash}]]
        BY <1>14 DEF Read
    <2> QED BY <1>14, <2>1 DEF Read
<1>7. ASSUME NEW r \in Runs, NEW i \in Items, NEW s \in Outcomes, Commit(r, i, s)
      PROVE  TypeOK'
    <2>1. row' \in [Items -> Rows]
        BY <1>7, RowUpdates DEF Commit, Outcomes, Statuses
    <2>2. work' \in [Runs -> [Items -> TaskStates]]
        BY <1>7 DEF Commit, TaskStates
    <2>3. /\ out' \in [Items -> Hashes \cup {NoHash}]
          /\ got' \in [Runs -> [Items -> Hashes \cup {NoHash}]]
        BY <1>7 DEF Commit
    <2> QED BY <1>7, <2>1, <2>2, <2>3 DEF Commit
<1>8. ASSUME NEW r \in Runs, NEW i \in Items, AfterItemDone(r, i) PROVE TypeOK'
    BY <1>8 DEF AfterItemDone, TaskStates
<1>9. ASSUME NEW r \in Runs, NEW i \in Items, Stop(r, i) PROVE TypeOK'
    <2>1. (IF row[i].attempts = 0 THEN 0 ELSE row[i].attempts - 1) \in Nat
        BY DEF Rows
    <2>2. row' \in [Items -> Rows]
        BY <1>9, <2>1, RowUpdates DEF Stop, Statuses
    <2>3. work' \in [Runs -> [Items -> TaskStates]] /\ stops' \in [Runs -> BOOLEAN]
        BY <1>9 DEF Stop, TaskStates
    <2>4. got' \in [Runs -> [Items -> Hashes \cup {NoHash}]]
        BY <1>9 DEF Stop
    <2> QED BY <1>9, <2>2, <2>3, <2>4 DEF Stop
<1>10. ASSUME NEW r \in Runs, NEW i \in Items, Fail(r, i) PROVE TypeOK'
    <2>1. row' \in [Items -> Rows]
        BY <1>10, RowUpdates DEF Fail, Statuses
    <2>2. work' \in [Runs -> [Items -> TaskStates]] /\ fails' \in [Items -> Nat]
        BY <1>10 DEF Fail, TaskStates
    <2>3. got' \in [Runs -> [Items -> Hashes \cup {NoHash}]]
        BY <1>10 DEF Fail
    <2> QED BY <1>10, <2>1, <2>2, <2>3 DEF Fail
<1>11. ASSUME NEW r \in Runs, FinishRun(r) \/ Abort(r) \/ Crash(r) \/ OwnerGone(r)
       PROVE  TypeOK'
    <2>1. CASE FinishRun(r)
        BY <2>1 DEF FinishRun, Phases
    <2>2. CASE Abort(r)
        <3>1. phase' \in [Runs -> Phases]
            BY <2>2 DEF Abort, Phases
        <3>2. /\ todo' \in [Runs -> SUBSET Items]
              /\ work' \in [Runs -> [Items -> TaskStates]]
              /\ got' \in [Runs -> [Items -> Hashes \cup {NoHash}]]
            <4>1. CASE UNCHANGED <<todo, work, got>>
                BY <4>1
            <4>2. CASE \E i \in todo[r] : /\ todo' = [todo EXCEPT ![r] = todo[r] \ {i}]
                                          /\ UNCHANGED <<work, got>>
                BY <4>2
            <4>3. ASSUME NEW i \in InFlight(r), work' = [work EXCEPT ![r][i] = "idle"],
                         got' = [got EXCEPT ![r][i] = NoHash], UNCHANGED todo
                  PROVE  <3>2!1 /\ <3>2!2 /\ <3>2!3
                BY <4>3 DEF TaskStates, InFlight
            <4> QED BY <2>2, <4>1, <4>2, <4>3 DEF Abort
        <3> QED BY <2>2, <3>1, <3>2 DEF Abort
    <2>3. CASE Crash(r)
        BY <2>3 DEF Crash, Phases, TaskStates
    <2>4. CASE OwnerGone(r)
        BY <2>4 DEF OwnerGone, runState
    <2> QED BY <1>11, <2>1, <2>2, <2>3, <2>4
<1>12. ASSUME NEW i \in Items, LeaseLapses(i) PROVE TypeOK'
    <2>1. row' \in [Items -> Rows]
        <3>1. [row[i] EXCEPT !.fresh = FALSE] \in Rows
            BY RowUpdates DEF Statuses
        <3>2. row' = [row EXCEPT ![i] = [row[i] EXCEPT !.fresh = FALSE]]
            BY <1>12 DEF LeaseLapses
        <3> QED BY <3>1, <3>2
    <2> QED BY <1>12, <2>1 DEF LeaseLapses, runState
<1>13. CASE UNCHANGED vars
    BY <1>13 DEF vars, runState
<1> QED
    BY <1>1, <1>2, <1>3, <1>4, <1>5, <1>6, <1>7, <1>8, <1>9, <1>10, <1>11, <1>12, <1>13, <1>14
    DEF Next, RunStep, ItemStep

(* Type correctness: every row, task and run stays in the states the ledger's *)
(* schema and the runner know, under every fault and for every stage.         *)
THEOREM TypeCorrect == Spec => []TypeOK
<1>1. Init => TypeOK
    BY InitTypeOK
<1>2. TypeOK /\ [Next]_vars => TypeOK'
    BY NextTypeOK
<1> QED BY <1>1, <1>2, PTL DEF Spec

-----------------------------------------------------------------------------
(* The inductive invariant.  A task in progress belongs to an open run whose  *)
(* owner session is up, and the row of its item is that run's, with a fresh   *)
(* lease: no other run can reclaim or claim it.                               *)
TaskOwned(r, i) ==
    /\ work[r][i] = "claimed"
    /\ phase[r] = "open"
    /\ row[i].status = "running" /\ row[i].run = r /\ row[i].fresh
    /\ row[i].hash = want[r][i]

TasksOwned == \A r \in Runs, i \in Items : work[r][i] # "idle" => TaskOwned(r, i)

OpenRunsOwned ==
    \A r \in Runs :
        /\ phase[r] # "aborted"
        /\ phase[r] = "open" => r \in owners

RunsEnumerated ==
    \A r \in Runs : phase[r] \in {"enumerated", "open"} => want[r] \in [Items -> Hashes]

(* Every failure was preceded by a claim of its own that no release took back. *)
AttemptsCoverFails ==
    \A i \in Items :
        /\ fails[i] <= row[i].attempts
        /\ row[i].status # "failed" => fails[i] < MaxAttempts
        /\ row[i].status = "failed" => row[i].attempts >= MaxAttempts
        /\ \A r \in Runs : work[r][i] # "idle" => fails[i] < row[i].attempts

(* No hash is carried that the item's inputs have not had, so that a change    *)
(* to a new one leaves every row and every task with another.                 *)
HashesSeen ==
    \A i \in Items :
        /\ row[i].hash \in past[i] \cup {input[i], NoHash}
        /\ \A r \in Runs : want[r][i] \in past[i] \cup {input[i], NoHash}

(* A task that was enumerated with the inputs there are, when they never had  *)
(* this value before, has read these or nothing yet.                          *)
ReadsAreFresh ==
    \A r \in Runs, i \in Items :
        work[r][i] # "idle" /\ want[r][i] = input[i] /\ input[i] \notin past[i] =>
            got[r][i] \in {NoHash, input[i]}

Traced == HashesSeen /\ ReadsAreFresh

IInv ==
    /\ TypeOK
    /\ Traced
    /\ OpenRunsOwned
    /\ RunsEnumerated
    /\ TasksOwned
    /\ AttemptsCoverFails
    /\ RetryBudget
    /\ SettledMeansWritten

LEMMA InitIInv == Init => IInv
<1> SUFFICES ASSUME Init PROVE IInv
    OBVIOUS
<1> USE LedgerAssumption DEF Init, NoRow
<1>1. TypeOK
    BY InitTypeOK
<1>2. OpenRunsOwned /\ RunsEnumerated /\ TasksOwned
    BY DEF OpenRunsOwned, RunsEnumerated, TasksOwned, TaskOwned
<1>3. AttemptsCoverFails /\ RetryBudget /\ SettledMeansWritten
    BY DEF AttemptsCoverFails, RetryBudget, SettledMeansWritten
<1>4. Traced
    BY DEF Traced, HashesSeen, ReadsAreFresh
<1> QED BY <1>1, <1>2, <1>3, <1>4 DEF IInv

(* A step that changes no input, stamps rows with hashes of tasks only and    *)
(* reads what there is or was enumerated leaves all hashes traced.            *)
LEMMA TracedKept ==
    ASSUME Traced, input' = input, past' = past, want' = want,
           \A i \in Items : \/ row'[i].hash = row[i].hash
                            \/ \E r \in Runs : row'[i].hash = want[r][i],
           \A r \in Runs, i \in Items :
               \/ work'[r][i] = "idle"
               \/ work[r][i] # "idle" /\ got'[r][i] = got[r][i]
               \/ got'[r][i] \in {NoHash, want[r][i], input[i]}
    PROVE  Traced'
<1>1. HashesSeen'
    BY DEF Traced, HashesSeen
<1>2. ReadsAreFresh'
    <2> SUFFICES ASSUME NEW r \in Runs, NEW i \in Items, work'[r][i] # "idle",
                        want[r][i] = input[i], input[i] \notin past[i]
                 PROVE  got'[r][i] \in {NoHash, input[i]}
        BY DEF ReadsAreFresh
    <2> QED BY DEF Traced, ReadsAreFresh
<1> QED BY <1>1, <1>2 DEF Traced

(* The ledger steps that touch no row of another run's task. *)
LEMMA RunStepIInv ==
    ASSUME Reliable, IInv, TypeOK', NEW r \in Runs, RunStep(r)
    PROVE  IInv'
<1> USE LedgerAssumption DEF IInv, TypeOK, Reliable
<1>1. CASE Reclaim(r)
    <2>1. \A i \in Items : \/ row'[i] = row[i]
                           \/ Reclaimable(i) /\ row'[i] = [row[i] EXCEPT !.status = "pending"]
        BY <1>1 DEF Reclaim
    <2>2. \A q \in Runs, i \in Items : work[q][i] # "idle" => row'[i] = row[i]
        <3> SUFFICES ASSUME NEW q \in Runs, NEW i \in Items, work[q][i] # "idle"
                     PROVE  row'[i] = row[i]
            OBVIOUS
        <3>1. row[i].fresh /\ row[i].run = q /\ q \in owners
            BY Zenon DEF TasksOwned, TaskOwned, OpenRunsOwned
        <3>2. ~Reclaimable(i)
            BY <3>1, Zenon DEF Reclaimable
        <3> QED BY <2>1, <3>2
    <2>3. \A i \in Items : /\ row'[i].attempts = row[i].attempts
                           /\ row'[i].hash = row[i].hash
                           /\ \/ row'[i].status = row[i].status
                              \/ row'[i].status = "pending" /\ row[i].status = "running"
        BY <2>1 DEF Rows, Reclaimable
    <2>4. OpenRunsOwned' /\ RunsEnumerated'
        BY <1>1 DEF Reclaim, OpenRunsOwned, RunsEnumerated
    <2>5. TasksOwned'
        <3> SUFFICES ASSUME NEW q \in Runs, NEW i \in Items, work'[q][i] # "idle"
                     PROVE  TaskOwned(q, i)'
            BY Zenon DEF TasksOwned
        <3>1. work'[q][i] = work[q][i] /\ want' = want
            BY <1>1 DEF Reclaim
        <3>2. TaskOwned(q, i) /\ row'[i] = row[i]
            BY <2>2, <3>1, Zenon DEF TasksOwned
        <3>3. q # r /\ phase'[q] = phase[q]
            BY <1>1, <3>1, <3>2 DEF Reclaim, TaskOwned
        <3> QED BY <3>1, <3>2, <3>3, Zenon DEF TaskOwned
    <2>6. AttemptsCoverFails' /\ RetryBudget'
        <3>1. work' = work /\ fails' = fails
            BY <1>1 DEF Reclaim
        <3> QED BY <2>3, <3>1 DEF AttemptsCoverFails, RetryBudget
    <2>7. SettledMeansWritten'
        BY <1>1, <2>3 DEF Reclaim, SettledMeansWritten
    <2>8. Traced'
        <3>1. /\ input' = input /\ past' = past /\ want' = want
              /\ work' = work /\ got' = got
            BY <1>1 DEF Reclaim
        <3> QED BY <2>3, <3>1, TracedKept
    <2> QED BY <2>4, <2>5, <2>6, <2>7, <2>8
<1>2. CASE Enumerate(r)
    <2>1. \A i \in Items : work[r][i] = "idle"
        BY <1>2 DEF Enumerate, TasksOwned, TaskOwned
    <2>2. OpenRunsOwned' /\ RunsEnumerated' /\ TasksOwned'
        BY <1>2, <2>1 DEF Enumerate, OpenRunsOwned, RunsEnumerated, TasksOwned, TaskOwned
    <2>3. AttemptsCoverFails' /\ RetryBudget' /\ SettledMeansWritten'
        BY <1>2 DEF Enumerate, AttemptsCoverFails, RetryBudget, SettledMeansWritten
    <2>4. Traced'
        <3>1. HashesSeen'
            BY <1>2 DEF Enumerate, Traced, HashesSeen
        <3>2. ReadsAreFresh'
            BY <1>2, <2>1 DEF Enumerate, Traced, ReadsAreFresh
        <3> QED BY <3>1, <3>2 DEF Traced
    <2> QED BY <2>2, <2>3, <2>4
<1>3. CASE StartRun(r)
    <2>1. OpenRunsOwned' /\ RunsEnumerated' /\ TasksOwned'
        BY <1>3 DEF StartRun, OpenRunsOwned, RunsEnumerated, TasksOwned, TaskOwned
    <2>2. AttemptsCoverFails' /\ RetryBudget' /\ SettledMeansWritten'
        BY <1>3 DEF StartRun, AttemptsCoverFails, RetryBudget, SettledMeansWritten
    <2>3. Traced'
        BY <1>3 DEF StartRun, Traced, HashesSeen, ReadsAreFresh
    <2> QED BY <2>1, <2>2, <2>3
<1>4. CASE FinishRun(r)
    <2>1. \A i \in Items : work[r][i] = "idle"
        BY <1>4 DEF FinishRun, InFlight
    <2>2. OpenRunsOwned' /\ RunsEnumerated' /\ TasksOwned'
        BY <1>4, <2>1 DEF FinishRun, OpenRunsOwned, RunsEnumerated, TasksOwned, TaskOwned
    <2>3. AttemptsCoverFails' /\ RetryBudget' /\ SettledMeansWritten'
        BY <1>4 DEF FinishRun, AttemptsCoverFails, RetryBudget, SettledMeansWritten
    <2>4. Traced'
        BY <1>4 DEF FinishRun, Traced, HashesSeen, ReadsAreFresh
    <2> QED BY <2>2, <2>3, <2>4
<1>5. CASE Crash(r)
    <2>1. \A q \in Runs, i \in Items :
            work'[q][i] = IF q = r THEN "idle" ELSE work[q][i]
        BY <1>5 DEF Crash
    <2>2. OpenRunsOwned' /\ RunsEnumerated' /\ TasksOwned'
        BY <1>5, <2>1 DEF Crash, OpenRunsOwned, RunsEnumerated, TasksOwned, TaskOwned
    <2>3. AttemptsCoverFails' /\ RetryBudget' /\ SettledMeansWritten'
        BY <1>5, <2>1 DEF Crash, AttemptsCoverFails, RetryBudget, SettledMeansWritten
    <2>4. Traced'
        <3>1. /\ input' = input /\ past' = past /\ want' = want /\ row' = row
              /\ \A q \in Runs, i \in Items : q # r => got'[q][i] = got[q][i]
            BY <1>5 DEF Crash
        <3> QED BY <2>1, <3>1, TracedKept
    <2> QED BY <2>2, <2>3, <2>4
<1>6. CASE OwnerGone(r)
    <2>1. phase[r] = "dead"
        BY <1>6 DEF OwnerGone
    <2>2. OpenRunsOwned' /\ RunsEnumerated' /\ TasksOwned'
        BY <1>6, <2>1 DEF OwnerGone, runState, OpenRunsOwned, RunsEnumerated, TasksOwned, TaskOwned
    <2>3. AttemptsCoverFails' /\ RetryBudget' /\ SettledMeansWritten'
        BY <1>6 DEF OwnerGone, runState, AttemptsCoverFails, RetryBudget, SettledMeansWritten
    <2>4. Traced'
        BY <1>6 DEF OwnerGone, runState, Traced, HashesSeen, ReadsAreFresh
    <2> QED BY <2>2, <2>3, <2>4
<1>7. ~Abort(r)
    BY DEF Abort
<1> QED BY <1>1, <1>2, <1>3, <1>4, <1>5, <1>6, <1>7 DEF RunStep

(* Two runs never hold the same item: both would be named by its row. *)
LEMMA OneHolder ==
    ASSUME TasksOwned, NEW q \in Runs, NEW r \in Runs, NEW i \in Items,
           work[q][i] # "idle", work[r][i] # "idle"
    PROVE  q = r
BY DEF TasksOwned, TaskOwned

LEMMA ClaimIInv ==
    ASSUME Reliable, IInv, TypeOK', NEW r \in Runs, NEW i \in Items, Claim(r, i)
    PROVE  IInv'
<1> USE LedgerAssumption DEF IInv, TypeOK
<1>1. \A q \in Runs : work[q][i] = "idle"
    <2> SUFFICES ASSUME NEW q \in Runs, work[q][i] # "idle" PROVE FALSE
        OBVIOUS
    <2>1. TaskOwned(q, i)
        BY DEF TasksOwned
    <2>2. Claimable(i, want[r][i])
        BY Zenon DEF Claim
    <2> QED BY <2>1, <2>2, Zenon DEF Claimable, TaskOwned
<1>2. /\ row'[i].status = "running" /\ row'[i].run = r /\ row'[i].hash = want[r][i]
      /\ row'[i].fresh
      /\ row'[i].attempts = AttemptsAfter(i, want[r][i])
      /\ \A j \in Items : j # i => row'[j] = row[j]
    <2>1. row' = [row EXCEPT ![i] = [status |-> "running", hash |-> want[r][i],
                                     attempts |-> AttemptsAfter(i, want[r][i]),
                                     run |-> r, fresh |-> TRUE]]
        BY DEF Claim
    <2> QED BY <2>1, Zenon
<1>3. \A q \in Runs, j \in Items :
        work'[q][j] = IF q = r /\ j = i THEN "claimed" ELSE work[q][j]
    BY DEF Claim
<1>4. /\ phase' = phase /\ phase[r] = "open" /\ owners' = owners /\ want' = want /\ out' = out
      /\ input' = input /\ past' = past
    BY DEF Claim, Alive, OpenRunsOwned
<1>5. OpenRunsOwned' /\ RunsEnumerated'
    BY <1>4 DEF OpenRunsOwned, RunsEnumerated
<1>6. TasksOwned'
    <2> SUFFICES ASSUME NEW q \in Runs, NEW j \in Items, work'[q][j] # "idle"
                 PROVE  TaskOwned(q, j)'
        BY Zenon DEF TasksOwned
    <2>1. CASE q = r /\ j = i
        BY <1>2, <1>3, <1>4, <2>1 DEF TaskOwned
    <2>2. CASE ~(q = r /\ j = i)
        <3>1. work[q][j] # "idle" /\ j # i
            BY <1>1, <1>3, <2>2
        <3>2. TaskOwned(q, j)
            BY <3>1, Zenon DEF TasksOwned
        <3>3. row'[j] = row[j] /\ work'[q][j] = work[q][j]
            BY <1>2, <1>3, <2>2, <3>1
        <3> QED BY <1>4, <3>2, <3>3, Zenon DEF TaskOwned
    <2> QED BY <2>1, <2>2
<1>7. AttemptsCoverFails' /\ RetryBudget'
    <2>1. \A j \in Items : j # i => fails'[j] = fails[j] /\ row'[j] = row[j]
        BY <1>2 DEF Claim
    <2>2. /\ row[i].hash = want[r][i] =>
              fails'[i] = fails[i] /\ row'[i].attempts = row[i].attempts + 1
          /\ row[i].hash # want[r][i] => fails'[i] = 0 /\ row'[i].attempts = 1
        BY <1>2 DEF Claim, AttemptsAfter
    <2>3. fails[i] <= row[i].attempts /\ row[i].attempts \in Nat /\ fails[i] \in Nat
        BY DEF AttemptsCoverFails, Rows
    <2>4. row[i].hash = want[r][i] => fails[i] < MaxAttempts
        <3>1. CASE row[i].status # "failed"
            BY <3>1 DEF AttemptsCoverFails
        <3>2. CASE row[i].status = "failed"
            BY <2>3, <3>2 DEF Claim, Claimable
        <3> QED BY <3>1, <3>2
    <2>5. fails'[i] < MaxAttempts /\ fails'[i] < row'[i].attempts
        BY <2>2, <2>3, <2>4
    <2>6. \A q \in Runs, j \in Items : j # i => work'[q][j] = work[q][j]
        BY <1>3
    <2>7. ASSUME NEW j \in Items
          PROVE  /\ fails'[j] <= row'[j].attempts
                 /\ row'[j].status # "failed" => fails'[j] < MaxAttempts
                 /\ row'[j].status = "failed" => row'[j].attempts >= MaxAttempts
                 /\ \A q \in Runs : work'[q][j] # "idle" => fails'[j] < row'[j].attempts
                 /\ fails'[j] <= MaxAttempts
        <3>1. CASE j = i
            BY <1>2, <2>5, <3>1 DEF Rows
        <3>2. CASE j # i
            BY <2>1, <2>6, <3>2 DEF AttemptsCoverFails, RetryBudget
        <3> QED BY <3>1, <3>2
    <2> QED BY <2>7 DEF AttemptsCoverFails, RetryBudget
<1>8. SettledMeansWritten'
    BY <1>2, <1>4 DEF SettledMeansWritten
<1>9. Traced'
    <2>1. \A q \in Runs, j \in Items :
            got'[q][j] = IF q = r /\ j = i THEN NoHash ELSE got[q][j]
        BY DEF Claim
    <2>2. \A j \in Items : row'[j].hash = row[j].hash \/ row'[j].hash = want[r][j]
        BY <1>2
    <2>3. \A q \in Runs, j \in Items :
            \/ got'[q][j] = NoHash
            \/ work'[q][j] = work[q][j] /\ got'[q][j] = got[q][j]
        BY <1>3, <2>1
    <2>4. Traced
        OBVIOUS
    <2> QED BY <1>4, <2>2, <2>3, <2>4, TracedKept, Zenon
<1> QED BY <1>5, <1>6, <1>7, <1>8, <1>9

LEMMA ReadIInv ==
    ASSUME IInv, TypeOK', NEW r \in Runs, NEW i \in Items, Read(r, i)
    PROVE  IInv'
<1>1. Traced'
    <2>1. /\ input' = input /\ past' = past /\ want' = want /\ row' = row /\ work' = work
          /\ work[r][i] # "idle" /\ Traced
        BY DEF Read, IInv
    <2>2. \A q \in Runs, j \in Items :
            \/ got'[q][j] = got[q][j]
            \/ work'[q][j] # "idle" /\ got'[q][j] \in {want[q][j], input[j]}
        BY DEF Read, IInv, TypeOK
    <2>3. ReadsAreFresh'
        BY <2>1, <2>2 DEF Traced, ReadsAreFresh
    <2>4. HashesSeen'
        BY <2>1 DEF Traced, HashesSeen
    <2> QED BY <2>3, <2>4 DEF Traced
<1>2. (OpenRunsOwned /\ RunsEnumerated /\ TasksOwned)'
    BY DEF IInv, Read, OpenRunsOwned, RunsEnumerated, TasksOwned, TaskOwned
<1>3. (AttemptsCoverFails /\ RetryBudget /\ SettledMeansWritten)'
    BY DEF IInv, Read, AttemptsCoverFails, RetryBudget, SettledMeansWritten
<1> QED BY <1>1, <1>2, <1>3 DEF IInv

(* Commit, Stop and Fail end the one task there is for their item. *)
LEMMA TaskEnds ==
    ASSUME TypeOK, TasksOwned, NEW r \in Runs, NEW i \in Items,
           work[r][i] # "idle",
           work' = [work EXCEPT ![r][i] = "idle"],
           \A j \in Items : j # i => row'[j] = row[j],
           phase' = phase, want' = want
    PROVE  /\ TasksOwned'
           /\ \A q \in Runs : work'[q][i] = "idle"
           /\ \A q \in Runs, j \in Items : j # i => work'[q][j] = work[q][j]
<1>1. \A q \in Runs, j \in Items :
        work'[q][j] = IF q = r /\ j = i THEN "idle" ELSE work[q][j]
    BY DEF TypeOK
<1>2. \A q \in Runs : work'[q][i] = "idle"
    BY <1>1, OneHolder
<1>3. TasksOwned'
    <2> SUFFICES ASSUME NEW q \in Runs, NEW j \in Items, work'[q][j] # "idle"
                 PROVE  TaskOwned(q, j)'
        BY Zenon DEF TasksOwned
    <2>1. j # i /\ work'[q][j] = work[q][j]
        BY <1>1, <1>2
    <2>2. TaskOwned(q, j)
        BY <2>1, Zenon DEF TasksOwned
    <2>3. row'[j] = row[j]
        BY <2>1
    <2> QED BY <2>1, <2>2, <2>3, Zenon DEF TaskOwned
<1> QED BY <1>1, <1>2, <1>3

(* ... and keep the counts if they keep those of that item. *)
LEMMA CountsKept ==
    ASSUME AttemptsCoverFails, RetryBudget, NEW i \in Items,
           \A j \in Items : j # i => row'[j] = row[j] /\ fails'[j] = fails[j],
           \A q \in Runs : work'[q][i] = "idle",
           \A q \in Runs, j \in Items : j # i => work'[q][j] = work[q][j],
           fails'[i] <= row'[i].attempts, fails'[i] <= MaxAttempts,
           row'[i].status # "failed" => fails'[i] < MaxAttempts,
           row'[i].status = "failed" => row'[i].attempts >= MaxAttempts
    PROVE  AttemptsCoverFails' /\ RetryBudget'
<1>1. ASSUME NEW j \in Items
      PROVE  /\ fails'[j] <= row'[j].attempts /\ fails'[j] <= MaxAttempts
             /\ row'[j].status # "failed" => fails'[j] < MaxAttempts
             /\ row'[j].status = "failed" => row'[j].attempts >= MaxAttempts
             /\ \A q \in Runs : work'[q][j] # "idle" => fails'[j] < row'[j].attempts
    <2>1. CASE j = i
        BY <2>1
    <2>2. CASE j # i
        BY <2>2 DEF AttemptsCoverFails, RetryBudget
    <2> QED BY <2>1, <2>2
<1> QED BY <1>1 DEF AttemptsCoverFails, RetryBudget

(* ... and leave the hashes of the other tasks and of all rows as they were.  *)
LEMMA TracedEnds ==
    ASSUME TypeOK, Traced, NEW r \in Runs, NEW i \in Items,
           work' = [work EXCEPT ![r][i] = "idle"], got' = [got EXCEPT ![r][i] = NoHash],
           input' = input, past' = past, want' = want,
           \A j \in Items : row'[j].hash = row[j].hash
    PROVE  Traced'
<1>1. \A q \in Runs, j \in Items :
        \/ got'[q][j] = NoHash
        \/ got'[q][j] = got[q][j] /\ work'[q][j] = work[q][j]
    BY DEF TypeOK
<1> QED BY <1>1, TracedKept

LEMMA CommitIInv ==
    ASSUME Reliable, IInv, TypeOK', NEW r \in Runs, NEW i \in Items, NEW s \in Outcomes,
           Commit(r, i, s)
    PROVE  IInv'
<1> USE LedgerAssumption DEF IInv, Reliable
<1>1. TaskOwned(r, i) /\ s \in {"done", "review"}
    BY DEF Commit, TasksOwned, Outcomes
<1>2. /\ row' = [row EXCEPT ![i].status = s, ![i].fresh = TRUE]
      /\ out' = [out EXCEPT ![i] = got[r][i]] /\ got' = [got EXCEPT ![r][i] = NoHash]
      /\ work' = [work EXCEPT ![r][i] = "idle"]
      /\ work[r][i] # "idle" /\ phase' = phase /\ want' = want
      /\ owners' = owners /\ fails' = fails
      /\ input' = input /\ past' = past /\ got[r][i] # NoHash
    BY DEF Commit
<1>3. /\ \A j \in Items : j # i => row'[j] = row[j] /\ out'[j] = out[j]
      /\ row'[i].status = s /\ row'[i].hash = row[i].hash
      /\ row'[i].attempts = row[i].attempts /\ out'[i] = got[r][i]
    BY <1>2 DEF TypeOK, Rows
<1>4. /\ TasksOwned'
      /\ \A q \in Runs : work'[q][i] = "idle"
      /\ \A q \in Runs, j \in Items : j # i => work'[q][j] = work[q][j]
    <2>1. \A j \in Items : j # i => row'[j] = row[j]
        BY <1>3
    <2> QED BY <1>2, <2>1, TaskEnds
<1>5. OpenRunsOwned' /\ RunsEnumerated'
    BY <1>2 DEF OpenRunsOwned, RunsEnumerated
<1>6. SettledMeansWritten'
    <2>1. row[i].hash = want[r][i]
        BY <1>1 DEF TaskOwned
    <2>2. want[r][i] = input[i] /\ input[i] \notin past[i] => out'[i] = input[i]
        BY <1>2, <1>3 DEF Traced, ReadsAreFresh
    <2> QED BY <1>2, <1>3, <2>1, <2>2 DEF SettledMeansWritten
<1>7. AttemptsCoverFails' /\ RetryBudget'
    <2>1. /\ fails[i] <= row[i].attempts /\ fails[i] < MaxAttempts /\ fails[i] <= MaxAttempts
        BY <1>1 DEF AttemptsCoverFails, RetryBudget, TaskOwned
    <2>2. \A j \in Items : j # i => row'[j] = row[j] /\ fails'[j] = fails[j]
        BY <1>2, <1>3
    <2>3. fails'[i] <= row'[i].attempts /\ fails'[i] <= MaxAttempts
        BY <1>2, <1>3, <2>1
    <2>4. row'[i].status # "failed" /\ fails'[i] < MaxAttempts
        <3>1. row'[i].status = s /\ s # "failed"
            BY <1>1, <1>3
        <3> QED BY <1>2, <2>1, <3>1
    <2> QED BY <1>4, <2>2, <2>3, <2>4, CountsKept
<1>8. Traced'
    <2>1. \A j \in Items : row'[j].hash = row[j].hash
        BY <1>3
    <2> QED BY <1>2, <2>1, TracedEnds
<1> QED BY <1>4, <1>5, <1>6, <1>7, <1>8

LEMMA StopIInv ==
    ASSUME Reliable, IInv, TypeOK', NEW r \in Runs, NEW i \in Items, Stop(r, i)
    PROVE  IInv'
<1> USE LedgerAssumption DEF IInv
<1>1. TaskOwned(r, i)
    BY DEF Stop, TasksOwned
<1>2. /\ row' = [row EXCEPT ![i].status = "pending",
                            ![i].attempts = IF row[i].attempts = 0 THEN 0 ELSE row[i].attempts - 1]
      /\ work' = [work EXCEPT ![r][i] = "idle"] /\ got' = [got EXCEPT ![r][i] = NoHash]
      /\ work[r][i] # "idle" /\ phase' = phase /\ want' = want
      /\ owners' = owners /\ fails' = fails /\ out' = out
      /\ input' = input /\ past' = past
    BY DEF Stop
<1>3. /\ \A j \in Items : j # i => row'[j] = row[j]
      /\ row'[i].status = "pending" /\ row'[i].hash = row[i].hash
      /\ row'[i].attempts = IF row[i].attempts = 0 THEN 0 ELSE row[i].attempts - 1
    BY <1>2 DEF TypeOK, Rows
<1>4. /\ TasksOwned'
      /\ \A q \in Runs : work'[q][i] = "idle"
      /\ \A q \in Runs, j \in Items : j # i => work'[q][j] = work[q][j]
    BY <1>2, <1>3, TaskEnds
<1>5. OpenRunsOwned' /\ RunsEnumerated'
    BY <1>2 DEF OpenRunsOwned, RunsEnumerated
<1>6. SettledMeansWritten'
    BY <1>2, <1>3 DEF SettledMeansWritten
<1>7. fails[i] < row[i].attempts /\ row[i].attempts \in Nat /\ fails[i] \in Nat
    BY <1>2 DEF AttemptsCoverFails, TypeOK, Rows
<1>8. fails[i] <= row'[i].attempts
    BY <1>3, <1>7
<1>9. AttemptsCoverFails' /\ RetryBudget'
    <2>1. fails[i] < MaxAttempts /\ fails[i] <= MaxAttempts
        BY <1>1 DEF AttemptsCoverFails, RetryBudget, TaskOwned
    <2>2. \A j \in Items : j # i => row'[j] = row[j] /\ fails'[j] = fails[j]
        BY <1>2, <1>3
    <2>3. row'[i].status # "failed" /\ fails'[i] = fails[i]
        BY <1>2, <1>3
    <2> QED BY <1>4, <1>8, <2>1, <2>2, <2>3, CountsKept
<1>10. Traced'
    BY <1>2, <1>3, TracedEnds
<1> QED BY <1>4, <1>5, <1>6, <1>9, <1>10

LEMMA FailIInv ==
    ASSUME Reliable, IInv, TypeOK', NEW r \in Runs, NEW i \in Items, Fail(r, i)
    PROVE  IInv'
<1> USE LedgerAssumption DEF IInv
<1>1. TaskOwned(r, i)
    BY DEF Fail, TasksOwned
<1>2. /\ row' = [row EXCEPT ![i].status = IF row[i].attempts >= MaxAttempts THEN "failed" ELSE "pending",
                            ![i].fresh = TRUE]
      /\ work' = [work EXCEPT ![r][i] = "idle"] /\ got' = [got EXCEPT ![r][i] = NoHash]
      /\ fails' = [fails EXCEPT ![i] = fails[i] + 1]
      /\ work[r][i] # "idle" /\ phase' = phase /\ want' = want
      /\ owners' = owners /\ out' = out /\ input' = input /\ past' = past
    BY DEF Fail
<1>3. /\ \A j \in Items : j # i => row'[j] = row[j] /\ fails'[j] = fails[j]
      /\ row'[i].status = IF row[i].attempts >= MaxAttempts THEN "failed" ELSE "pending"
      /\ row'[i].hash = row[i].hash /\ row'[i].attempts = row[i].attempts
      /\ fails'[i] = fails[i] + 1
    BY <1>2 DEF TypeOK, Rows
<1>4. /\ TasksOwned'
      /\ \A q \in Runs : work'[q][i] = "idle"
      /\ \A q \in Runs, j \in Items : j # i => work'[q][j] = work[q][j]
    <2>1. \A j \in Items : j # i => row'[j] = row[j]
        BY <1>3
    <2> QED BY <1>2, <2>1, TaskEnds
<1>5. OpenRunsOwned' /\ RunsEnumerated'
    BY <1>2 DEF OpenRunsOwned, RunsEnumerated
<1>6. SettledMeansWritten'
    <2>1. row'[i].status \notin {"done", "review"}
        BY <1>3
    <2> QED BY <1>2, <1>3, <2>1 DEF SettledMeansWritten
<1>7. /\ fails[i] < row[i].attempts /\ fails[i] < MaxAttempts
      /\ row[i].attempts \in Nat /\ fails[i] \in Nat
    BY <1>1, <1>2 DEF AttemptsCoverFails, TypeOK, Rows, TaskOwned
<1>8. /\ fails'[i] <= row'[i].attempts /\ fails'[i] <= MaxAttempts
      /\ row'[i].status # "failed" => fails'[i] < MaxAttempts
      /\ row'[i].status = "failed" => row'[i].attempts >= MaxAttempts
    BY <1>3, <1>7
<1>9. AttemptsCoverFails' /\ RetryBudget'
    BY <1>3, <1>4, <1>8, CountsKept
<1>10. Traced'
    BY <1>2, <1>3, TracedEnds
<1> QED BY <1>4, <1>5, <1>6, <1>9, <1>10

LEMMA NextIInv == ASSUME Reliable, IInv, [Next]_vars PROVE IInv'
<1>1. TypeOK'
    BY NextTypeOK DEF IInv
<1>2. ASSUME NEW r \in Runs, RunStep(r) PROVE IInv'
    BY <1>1, <1>2, RunStepIInv
<1>3. ASSUME NEW i \in Items, NEW h \in Hashes, Edit(i, h) PROVE IInv'
    <2> USE <1>3 DEF IInv, TypeOK, Edit, runState
    <2>1. (OpenRunsOwned /\ RunsEnumerated /\ TasksOwned /\ AttemptsCoverFails /\ RetryBudget)'
        BY DEF OpenRunsOwned, RunsEnumerated, TasksOwned, TaskOwned, AttemptsCoverFails, RetryBudget
    <2>2. \A j \in Items :
            \/ input'[j] = input[j] /\ past'[j] = past[j]
            \/ /\ past'[j] = past[j] \cup {input[j]} /\ input'[j] # input[j]
               /\ input'[j] \in Hashes
        OBVIOUS
    <2>3. HashesSeen'
        BY <2>2 DEF Traced, HashesSeen
    <2>4. \A j \in Items : \/ input'[j] = input[j] /\ past'[j] = past[j]
                           \/ input'[j] \in past'[j]
                           \/ /\ input'[j] # row[j].hash
                              /\ \A r \in Runs : want[r][j] # input'[j]
        <3> SUFFICES ASSUME NEW j \in Items, past'[j] = past[j] \cup {input[j]},
                            input'[j] # input[j], input'[j] \in Hashes, input'[j] \notin past'[j]
                     PROVE  /\ input'[j] # row[j].hash
                            /\ \A r \in Runs : want[r][j] # input'[j]
            BY <2>2
        <3>1. input'[j] \notin past[j] \cup {input[j], NoHash}
            BY LedgerAssumption
        <3> QED BY <3>1 DEF Traced, HashesSeen
    <2>5. ReadsAreFresh' /\ SettledMeansWritten'
        BY <2>4 DEF Traced, ReadsAreFresh, SettledMeansWritten
    <2> QED BY <1>1, <2>1, <2>3, <2>5 DEF Traced
<1>4. ASSUME NEW r \in Runs, NEW i \in Items, Claim(r, i) PROVE IInv'
    BY <1>1, <1>4, ClaimIInv
<1>5. ASSUME NEW r \in Runs, NEW i \in Items, ClaimRefused(r, i) PROVE IInv'
    BY <1>1, <1>5 DEF IInv, ClaimRefused, OpenRunsOwned, RunsEnumerated, TasksOwned, TaskOwned,
           AttemptsCoverFails, RetryBudget, SettledMeansWritten, Traced, HashesSeen, ReadsAreFresh
<1>12. ASSUME NEW r \in Runs, NEW i \in Items, Read(r, i) PROVE IInv'
    BY <1>1, <1>12, ReadIInv
<1>6. ASSUME NEW r \in Runs, NEW i \in Items, NEW s \in Outcomes, Commit(r, i, s) PROVE IInv'
    BY <1>1, <1>6, CommitIInv
<1>7. ASSUME NEW r \in Runs, NEW i \in Items, Stop(r, i) PROVE IInv'
    BY <1>1, <1>7, StopIInv
<1>8. ASSUME NEW r \in Runs, NEW i \in Items, Fail(r, i) PROVE IInv'
    BY <1>1, <1>8, FailIInv
<1>9. ASSUME NEW r \in Runs, NEW i \in Items, AfterItemDone(r, i) PROVE IInv'
    BY <1>9 DEF IInv, AfterItemDone, TasksOwned, TaskOwned
<1>10. ASSUME NEW i \in Items, LeaseLapses(i) PROVE IInv'
    <2> USE DEF IInv, TypeOK
    <2>1. \A q \in Runs : work[q][i] = "idle"
        BY <1>10 DEF LeaseLapses, TasksOwned, TaskOwned, OpenRunsOwned
    <2>2. /\ row' = [row EXCEPT ![i].fresh = FALSE] /\ phase' = phase /\ work' = work
          /\ want' = want /\ owners' = owners /\ fails' = fails /\ out' = out
          /\ input' = input /\ past' = past /\ got' = got
        BY <1>10 DEF LeaseLapses, runState
    <2>3. /\ \A j \in Items : j # i => row'[j] = row[j]
          /\ row'[i].status = row[i].status /\ row'[i].hash = row[i].hash
          /\ row'[i].attempts = row[i].attempts
        BY <2>2 DEF Rows
    <2>4. OpenRunsOwned' /\ RunsEnumerated' /\ TasksOwned'
        BY <2>1, <2>2, <2>3 DEF OpenRunsOwned, RunsEnumerated, TasksOwned, TaskOwned
    <2>5. AttemptsCoverFails' /\ RetryBudget' /\ SettledMeansWritten'
        BY <2>2, <2>3 DEF AttemptsCoverFails, RetryBudget, SettledMeansWritten
    <2>6. Traced'
        BY <2>2, <2>3, TracedKept
    <2> QED BY <1>1, <2>4, <2>5, <2>6
<1>11. CASE UNCHANGED vars
    BY <1>1, <1>11 DEF vars, IInv, runState, OpenRunsOwned, RunsEnumerated, TasksOwned, TaskOwned,
           AttemptsCoverFails, RetryBudget, SettledMeansWritten, Traced, HashesSeen, ReadsAreFresh
<1> QED
    BY <1>2, <1>3, <1>4, <1>5, <1>6, <1>7, <1>8, <1>9, <1>10, <1>11, <1>12 DEF Next, ItemStep

THEOREM Invariant == ASSUME Reliable PROVE Spec => []IInv
<1>1. Init => IInv
    BY InitIInv
<1>2. IInv /\ [Next]_vars => IInv'
    BY NextIInv
<1> QED BY <1>1, <1>2, PTL DEF Spec

(* No two runs ever process the same item, however many runs there are and   *)
(* however they fail, stop and crash.                                         *)
THEOREM WorkIsExclusive == ASSUME Reliable PROVE Spec => []ExclusiveWork
<1>1. IInv => ExclusiveWork
    BY OneHolder DEF IInv, ExclusiveWork
<1> QED BY <1>1, Invariant, PTL

(* A run's row stays its own while it works on the item: the lease and the    *)
(* lock together never let another run take it.                               *)
THEOREM WorkersHoldTheirRows == ASSUME Reliable PROVE Spec => []WorkerHoldsRow
<1>1. IInv => WorkerHoldsRow
    BY DEF IInv, TasksOwned, TaskOwned, WorkerHoldsRow
<1> QED BY <1>1, Invariant, PTL

(* A completed row whose hash the inputs still have, or have now for the      *)
(* first time, has outputs of these inputs in the graph: skipping the item    *)
(* loses nothing, though tasks read later than they were enumerated.          *)
THEOREM SettledRowsAreWritten == ASSUME Reliable PROVE Spec => []SettledMeansWritten
<1>1. IInv => SettledMeansWritten
    BY DEF IInv
<1> QED BY <1>1, Invariant, PTL

(* An item fails at most max_attempts times for one input.                    *)
THEOREM RetriesAreBounded == ASSUME Reliable PROVE Spec => []RetryBudget
<1>1. IInv => RetryBudget
    BY DEF IInv
<1> QED BY <1>1, Invariant, PTL

(* A completed row, and one that was given up on, is final for its input:     *)
(* only a run with another hash takes it.                                     *)
THEOREM SettledRowsAreFinal == ASSUME Reliable PROVE Spec => SettledRowsStay
<1> DEFINE Stays(i) == row[i].status \in {"done", "failed"} =>
                           row'[i] = row[i] \/ row'[i].hash # row[i].hash
<1>1. ASSUME IInv, [Next]_vars, NEW i \in Items PROVE Stays(i)
    <2> SUFFICES ASSUME row[i].status \in {"done", "failed"}
                 PROVE  row'[i] = row[i] \/ row'[i].hash # row[i].hash
        OBVIOUS
    <2> USE <1>1 DEF IInv, TypeOK
    <2>1. \A r \in Runs : work[r][i] = "idle"
        BY DEF TasksOwned, TaskOwned
    <2>2. ASSUME NEW r \in Runs, NEW j \in Items, NEW s \in Outcomes,
                 Commit(r, j, s) \/ Stop(r, j) \/ Fail(r, j)
          PROVE  row'[i] = row[i]
        <3>1. j # i
            BY <2>1, <2>2 DEF Commit, Stop, Fail
        <3> QED BY <2>2, <3>1 DEF Commit, Stop, Fail
    <2>3. ASSUME NEW r \in Runs, NEW j \in Items, Claim(r, j)
          PROVE  row'[i] = row[i] \/ row'[i].hash # row[i].hash
        <3>1. CASE j # i
            BY <2>3, <3>1 DEF Claim
        <3>2. CASE j = i
            <4>1. row'[i].hash = want[r][i]
                BY <2>3, <3>2 DEF Claim
            <4>2. row[i].status = "failed" => row[i].attempts >= MaxAttempts
                BY DEF AttemptsCoverFails
            <4>3. want[r][i] # row[i].hash
                BY <2>3, <3>2, <4>2 DEF Claim, Claimable
            <4> QED BY <4>1, <4>3
        <3> QED BY <3>1, <3>2
    <2>4. ASSUME NEW r \in Runs, Reclaim(r) PROVE row'[i] = row[i]
        BY <2>4 DEF Reclaim, Reclaimable
    <2>5. ASSUME NEW j \in Items, LeaseLapses(j) PROVE row'[i] = row[i]
        BY <2>5 DEF LeaseLapses
    <2>6. ASSUME NEW r \in Runs, NEW j \in Items,
                 ClaimRefused(r, j) \/ Read(r, j) \/ AfterItemDone(r, j)
          PROVE  row'[i] = row[i]
        BY <2>6 DEF ClaimRefused, Read, AfterItemDone
    <2>7. ASSUME NEW r \in Runs,
                 Enumerate(r) \/ StartRun(r) \/ FinishRun(r) \/ Abort(r) \/ Crash(r) \/ OwnerGone(r)
          PROVE  row'[i] = row[i]
        BY <2>7 DEF Enumerate, StartRun, FinishRun, Abort, Crash, OwnerGone
    <2>8. ASSUME NEW j \in Items, NEW h \in Hashes, Edit(j, h) PROVE row'[i] = row[i]
        BY <2>8 DEF Edit
    <2>9. CASE UNCHANGED vars
        BY <2>9 DEF vars
    <2>10. Outcomes # {}
        BY DEF Outcomes
    <2> QED BY <2>2, <2>3, <2>4, <2>5, <2>6, <2>7, <2>8, <2>9, <2>10
            DEF Next, RunStep, ItemStep
<1>2. IInv /\ [Next]_vars => [\A i \in Items : Stays(i)]_vars
    BY <1>1
<1> QED BY <1>2, Invariant, PTL DEF Spec, SettledRowsStay

-----------------------------------------------------------------------------
(* The refinement.  An item with a task is checked out to the task's run for  *)
(* the hash the run enumerated it with; an item without one is free.          *)
LEMMA CheckoutOf ==
    ASSUME TasksOwned, NEW i \in Items
    PROVE  /\ \A r \in Runs : work[r][i] # "idle" =>
                 Checkouts[i] = [run |-> r, hash |-> want[r][i], read |-> got[r][i]]
           /\ (\A r \in Runs : work[r][i] = "idle") => Checkouts[i] = Promise!Free
BY DEF TasksOwned, TaskOwned, Checkouts, Promise!Free

(* An item whose row and tasks a step leaves alone stays checked out as it is. *)
LEMMA OthersCheckout ==
    ASSUME TasksOwned, NEW i \in Items, row'[i] = row[i],
           \A q \in Runs : work'[q][i] = work[q][i],
           \A q \in Runs : work[q][i] # "idle" => got'[q][i] = got[q][i]
    PROVE  Checkouts'[i] = Checkouts[i]
<1>1. CASE \A q \in Runs : work[q][i] = "idle"
    BY <1>1 DEF Checkouts
<1>2. CASE \E q \in Runs : work[q][i] # "idle"
    <2>1. PICK q \in Runs : work[q][i] # "idle"
        BY <1>2
    <2>2. row[i].run = q /\ work[q][i] = "claimed"
        BY <2>1 DEF TasksOwned, TaskOwned
    <2> QED BY <2>1, <2>2 DEF Checkouts
<1> QED BY <1>1, <1>2

LEMMA CheckoutEnds ==
    ASSUME TypeOK, TasksOwned, NEW r \in Runs, NEW i \in Items, work[r][i] # "idle",
           work' = [work EXCEPT ![r][i] = "idle"],
           \A j \in Items : j # i => row'[j] = row[j],
           \A q \in Runs, j \in Items : j # i => got'[q][j] = got[q][j]
    PROVE  /\ Checkouts[i] = [run |-> r, hash |-> want[r][i], read |-> got[r][i]]
           /\ Checkouts' = [Checkouts EXCEPT ![i] = Promise!Free]
           /\ Checkouts' = [j \in Items |-> IF j \in {i} THEN Promise!Free ELSE Checkouts[j]]
<1>0. \A q \in Runs, j \in Items :
        work'[q][j] = IF q = r /\ j = i THEN "idle" ELSE work[q][j]
    BY DEF TypeOK
<1>1. \A q \in Runs : work'[q][i] = "idle"
    BY <1>0, OneHolder
<1>2. \A q \in Runs, j \in Items : j # i => work'[q][j] = work[q][j]
    BY <1>0
<1>3. Checkouts[i] = [run |-> r, hash |-> want[r][i], read |-> got[r][i]]
    BY CheckoutOf
<1>4. Checkouts'[i] = Promise!Free
    BY <1>1 DEF Checkouts, Promise!Free
<1>5. ASSUME NEW j \in Items, j # i PROVE Checkouts'[j] = Checkouts[j]
    <2>1. row'[j] = row[j] /\ \A q \in Runs : work'[q][j] = work[q][j] /\ got'[q][j] = got[q][j]
        BY <1>2, <1>5
    <2> QED BY <2>1, OthersCheckout
<1>6. Checkouts' = [Checkouts EXCEPT ![i] = Promise!Free]
    <2> DEFINE F(j) == IF \E q \in Runs : work[q][j] = "claimed"
                       THEN [run |-> row[j].run, hash |-> row[j].hash,
                             read |-> got[row[j].run][j]]
                       ELSE [run |-> NoRun, hash |-> NoHash, read |-> NoHash]
    <2>1. Checkouts = [j \in Items |-> F(j)]
        BY DEF Checkouts
    <2>2. Checkouts' = [j \in Items |-> F(j)']
        BY DEF Checkouts
    <2>3. /\ DOMAIN Checkouts = Items /\ DOMAIN Checkouts' = Items
          /\ Checkouts' = [j \in Items |-> Checkouts'[j]]
        <3> HIDE DEF F
        <3> QED BY <2>1, <2>2
    <2> QED BY <1>4, <1>5, <2>3
<1>7. Checkouts' = [j \in Items |-> IF j \in {i} THEN Promise!Free ELSE Checkouts[j]]
    <2>1. /\ DOMAIN Checkouts = Items
          /\ \A j \in Items : (j \in {i}) <=> (j = i)
        BY DEF Checkouts
    <2> QED BY <1>6, <2>1
<1> QED BY <1>3, <1>6, <1>7

(* The ledger implements exclusive checkout: only the holder publishes, and   *)
(* what it publishes for an item is of the hash it took the item with or of   *)
(* inputs the item had at a moment while it held it.                          *)
THEOREM LedgerImplementsCheckout == ASSUME Reliable PROVE Spec => ImplementsCheckout
<1> DEFINE absVars == <<input, Checkouts, out>>
<1>1. Init => Promise!Init
    BY DEF Init, Promise!Init, Promise!Free, Checkouts
<1>2. ASSUME IInv, IInv', [Next]_vars PROVE [Promise!Next]_absVars
    <2> USE <1>2 DEF IInv, TypeOK
    <2>1. ASSUME work' = work, want' = want, got' = got, input' = input, out' = out
          PROVE  UNCHANGED absVars
        <3>1. ASSUME NEW i \in Items PROVE Checkouts'[i] = Checkouts[i]
            <4>1. CASE \A r \in Runs : work[r][i] = "idle"
                BY <2>1, <4>1, CheckoutOf DEF Checkouts
            <4>2. CASE \E r \in Runs : work[r][i] # "idle"
                BY <2>1, <4>2 DEF Checkouts, TasksOwned, TaskOwned
            <4> QED BY <4>1, <4>2
        <3>2. Checkouts' = Checkouts
            BY <3>1 DEF Checkouts
        <3> QED BY <2>1, <3>2
    <2>2. ASSUME NEW r \in Runs, NEW i \in Items, Claim(r, i)
          PROVE  Promise!Take(i, r, want[r][i]) /\ want[r][i] \in Hashes
        <3>1. want[r][i] \in Hashes
            BY <2>2 DEF Claim, Alive, OpenRunsOwned, RunsEnumerated
        <3>2. /\ work'[r][i] = "claimed" /\ got'[r][i] = NoHash
              /\ want' = want /\ out' = out /\ input' = input
            BY <2>2 DEF Claim
        <3>3. \A q \in Runs : work[q][i] = "idle"
            <4> SUFFICES ASSUME NEW q \in Runs, work[q][i] # "idle" PROVE FALSE
                OBVIOUS
            <4>1. TaskOwned(q, i)
                BY DEF TasksOwned
            <4>2. Claimable(i, want[r][i])
                BY <2>2, Zenon DEF Claim
            <4> QED BY <4>1, <4>2, Zenon DEF Claimable, TaskOwned
        <3>4. Checkouts[i] = Promise!Free
            BY <3>3 DEF Checkouts, Promise!Free
        <3>5. Checkouts'[i] = [run |-> r, hash |-> want[r][i], read |-> NoHash]
            <4>1. row'[i].run = r /\ row'[i].hash = want[r][i]
                BY <2>2 DEF Claim
            <4> QED BY <3>2, <4>1 DEF Checkouts
        <3>6. ASSUME NEW j \in Items, j # i PROVE Checkouts'[j] = Checkouts[j]
            <4>1. /\ row'[j] = row[j]
                  /\ \A q \in Runs : work'[q][j] = work[q][j] /\ got'[q][j] = got[q][j]
                BY <2>2, <3>6 DEF Claim
            <4> QED BY <4>1, OthersCheckout
        <3>7. Checkouts' =
                [Checkouts EXCEPT ![i] = [run |-> r, hash |-> want[r][i], read |-> NoHash]]
            BY <3>5, <3>6 DEF Checkouts
        <3> QED BY <3>1, <3>2, <3>4, <3>7 DEF Promise!Take
    <2>3. ASSUME NEW r \in Runs, NEW i \in Items, Read(r, i)
          PROVE  \E h \in Hashes : Promise!Read(i, h)
        <3>1. PICK h \in {want[r][i], input[i]} : got' = [got EXCEPT ![r][i] = h]
            BY <2>3 DEF Read
        <3>2. /\ work[r][i] # "idle" /\ got[r][i] = NoHash
              /\ work' = work /\ row' = row /\ out' = out /\ input' = input /\ want' = want
            BY <2>3 DEF Read
        <3>3. want[r][i] \in Hashes /\ h \in Hashes
            BY <3>1, <3>2 DEF RunsEnumerated, TasksOwned, TaskOwned
        <3>4. Checkouts[i] = [run |-> r, hash |-> want[r][i], read |-> NoHash]
            BY <3>2, CheckoutOf
        <3>5. Checkouts'[i] = [run |-> r, hash |-> want[r][i], read |-> h]
            BY <3>1, <3>2 DEF Checkouts, TasksOwned, TaskOwned
        <3>6. ASSUME NEW j \in Items, j # i PROVE Checkouts'[j] = Checkouts[j]
            <4>1. \A q \in Runs : got'[q][j] = got[q][j]
                BY <3>1, <3>6
            <4> QED BY <3>2, <4>1, OthersCheckout
        <3>7. Checkouts' = [Checkouts EXCEPT ![i].read = h]
            BY <3>4, <3>5, <3>6 DEF Checkouts
        <3>8. Checkouts[i] # Promise!Free
            BY <3>4, LedgerAssumption DEF Promise!Free
        <3>9. /\ Checkouts[i].hash = want[r][i] /\ Checkouts[i].read = NoHash
              /\ h \in {Checkouts[i].hash, input[i]}
            BY <3>1, <3>4
        <3>10. Promise!Read(i, h)
            BY <3>2, <3>7, <3>8, <3>9, Zenon DEF Promise!Read
        <3> QED BY <3>3, <3>10
    <2>4. ASSUME NEW r \in Runs, NEW i \in Items, NEW s \in Outcomes, Commit(r, i, s)
          PROVE  Promise!Publish(i)
        <3>1. /\ work[r][i] # "idle" /\ work' = [work EXCEPT ![r][i] = "idle"]
              /\ got[r][i] # NoHash /\ got' = [got EXCEPT ![r][i] = NoHash]
              /\ \A j \in Items : j # i => row'[j] = row[j]
              /\ out' = [out EXCEPT ![i] = got[r][i]] /\ input' = input
            BY <2>4 DEF Commit, TasksOwned, TaskOwned, Reliable
        <3>2. \A q \in Runs, j \in Items : j # i => got'[q][j] = got[q][j]
            BY <3>1
        <3>3. /\ Checkouts[i] = [run |-> r, hash |-> want[r][i], read |-> got[r][i]]
              /\ Checkouts' = [Checkouts EXCEPT ![i] = Promise!Free]
            <4>1. TypeOK /\ TasksOwned
                OBVIOUS
            <4> HIDE <1>2 DEF IInv, TypeOK
            <4> QED BY <3>1, <3>2, <4>1, CheckoutEnds
        <3> QED BY <3>1, <3>3 DEF Promise!Publish
    <2>5. ASSUME NEW r \in Runs, NEW i \in Items, Stop(r, i) \/ Fail(r, i)
          PROVE  Promise!GiveBack({i})
        <3>1. /\ work[r][i] # "idle" /\ work' = [work EXCEPT ![r][i] = "idle"]
              /\ \A j \in Items : j # i => row'[j] = row[j]
              /\ got' = [got EXCEPT ![r][i] = NoHash]
              /\ out' = out /\ input' = input
            BY <2>5 DEF Stop, Fail
        <3>3. \A q \in Runs, j \in Items : j # i => got'[q][j] = got[q][j]
            BY <3>1
        <3>2. Checkouts' = [j \in Items |-> IF j \in {i} THEN Promise!Free ELSE Checkouts[j]]
            <4>1. TypeOK /\ TasksOwned
                OBVIOUS
            <4> HIDE <1>2 DEF IInv, TypeOK
            <4> QED BY <3>1, <3>3, <4>1, CheckoutEnds
        <3> QED BY <3>1, <3>2 DEF Promise!GiveBack
    <2>6. ASSUME NEW r \in Runs, Crash(r)
          PROVE  Promise!GiveBack(InFlight(r))
        <3>1. /\ \A q \in Runs, j \in Items :
                   work'[q][j] = IF q = r THEN "idle" ELSE work[q][j]
              /\ \A q \in Runs, j \in Items : q # r => got'[q][j] = got[q][j]
              /\ row' = row /\ out' = out /\ input' = input
            BY <2>6 DEF Crash
        <3>2. ASSUME NEW j \in InFlight(r) PROVE Checkouts'[j] = Promise!Free
            <4>1. j \in Items /\ \A q \in Runs : work'[q][j] = "idle"
                BY <3>1, <3>2, OneHolder DEF InFlight
            <4> QED BY <4>1 DEF Checkouts, Promise!Free
        <3>3. ASSUME NEW j \in Items, j \notin InFlight(r) PROVE Checkouts'[j] = Checkouts[j]
            <4>1. \A q \in Runs : /\ work'[q][j] = work[q][j]
                                  /\ work[q][j] # "idle" => got'[q][j] = got[q][j]
                BY <3>1, <3>3 DEF InFlight
            <4> QED BY <3>1, <4>1, OthersCheckout
        <3>4. Checkouts' =
                [j \in Items |-> IF j \in InFlight(r) THEN Promise!Free ELSE Checkouts[j]]
            BY <3>2, <3>3 DEF Checkouts
        <3> QED BY <3>1, <3>4 DEF Promise!GiveBack
    <2>8. \A r \in Runs : InFlight(r) \in SUBSET Items
        BY DEF InFlight
    <2>9. ASSUME \/ \E r \in Runs : \/ Reclaim(r) \/ StartRun(r) \/ FinishRun(r)
                                    \/ OwnerGone(r)
                 \/ \E r \in Runs, i \in Items : ClaimRefused(r, i)
                 \/ \E i \in Items : LeaseLapses(i)
                 \/ UNCHANGED vars
          PROVE  work' = work /\ want' = want /\ got' = got /\ input' = input /\ out' = out
        BY <2>9 DEF Reclaim, StartRun, FinishRun, OwnerGone, ClaimRefused, LeaseLapses,
                    runState, vars
    <2>10. ASSUME NEW r \in Runs, Enumerate(r) PROVE UNCHANGED absVars
        <3>1. work' = work /\ row' = row /\ out' = out /\ got' = got /\ input' = input
            BY <2>10 DEF Enumerate
        <3> QED BY <3>1 DEF Checkouts
    <2>11. ~\E r \in Runs : Abort(r)
        BY DEF Abort, Reliable
    <2>12. ~\E r \in Runs, i \in Items : AfterItemDone(r, i)
        <3>1. \A r \in Runs, i \in Items : work[r][i] # "committed"
            BY DEF TasksOwned, TaskOwned
        <3> QED BY <3>1 DEF AfterItemDone
    <2>14. ASSUME NEW i \in Items, NEW h \in Hashes, Edit(i, h) PROVE Promise!Next
        <3>1. work' = work /\ row' = row /\ out' = out /\ got' = got
              /\ input' = [input EXCEPT ![i] = h]
            BY <2>14 DEF Edit, runState
        <3>2. Promise!Change(i, h)
            BY <3>1 DEF Promise!Change, Checkouts
        <3> QED BY <3>2 DEF Promise!Next
    <2>13. CASE \/ \E r \in Runs, i \in Items : Claim(r, i) \/ Read(r, i)
                \/ \E r \in Runs, i \in Items, s \in Outcomes : Commit(r, i, s)
                \/ \E r \in Runs, i \in Items : Stop(r, i) \/ Fail(r, i)
                \/ \E r \in Runs : Crash(r)
        <3>1. ASSUME NEW r \in Runs, NEW i \in Items, Claim(r, i) PROVE Promise!Next
            BY <2>2, <3>1 DEF Promise!Next
        <3>2. ASSUME NEW r \in Runs, NEW i \in Items, NEW s \in Outcomes, Commit(r, i, s)
              PROVE  Promise!Next
            BY <2>4, <3>2 DEF Promise!Next
        <3>3. ASSUME NEW r \in Runs, NEW i \in Items, Stop(r, i) \/ Fail(r, i)
              PROVE  Promise!Next
            <4>1. Promise!GiveBack({i}) /\ {i} \in SUBSET Items
                BY <2>5, <3>3
            <4> QED BY <4>1 DEF Promise!Next
        <3>4. ASSUME NEW r \in Runs, Crash(r) PROVE Promise!Next
            BY <2>6, <2>8, <3>4 DEF Promise!Next
        <3>5. ASSUME NEW r \in Runs, NEW i \in Items, Read(r, i) PROVE Promise!Next
            BY <2>3, <3>5 DEF Promise!Next
        <3> QED BY <2>13, <3>1, <3>2, <3>3, <3>4, <3>5
    <2> QED BY <2>1, <2>9, <2>10, <2>11, <2>12, <2>13, <2>14 DEF Next, RunStep, ItemStep
<1> QED BY <1>1, <1>2, Invariant, PTL DEF Spec, ImplementsCheckout, Promise!Spec

-----------------------------------------------------------------------------
(* A run that has the ledger to itself.  Only Alive runs have work in hand, a *)
(* run has not begun on what it has left to do; no other run has started, and *)
(* a row is settled, left to do, or running because the run works on it.      *)
AtRest ==
    \A r \in Runs :
        /\ ~Alive(r) => InFlight(r) = {}
        /\ phase[r] \in {"new", "reclaimed", "enumerated"} => ~stops[r]
        /\ todo[r] \cap InFlight(r) = {}

SettledFor(r, i) == row[i].status \in Settled /\ row[i].hash = want[r][i]

Alone(r) ==
    /\ phase[r] \in {"reclaimed", "enumerated", "open", "finished"} /\ ~stops[r]
    /\ \A q \in Runs \ {r} : ~Started(q)
    /\ \A i \in Items : row[i].status = "running" <=> work[r][i] = "claimed"
    /\ \A i \in Items : work[r][i] = "claimed" => row[i].hash = want[r][i]
    /\ phase[r] \in {"open", "finished"} /\ option[r] = "all" =>
         \A i \in Items : i \in todo[r] \/ work[r][i] = "claimed" \/ SettledFor(r, i)
    /\ phase[r] = "finished" => todo[r] = {}

SoloInv ==
    /\ TypeOK
    /\ AtRest
    /\ solo # NoRun => Alone(solo)

LEMMA InitSolo == ASSUME Init PROVE SoloInv
<1>1. TypeOK
    BY InitTypeOK
<1>2. AtRest
    BY DEF Init, AtRest, Alive, InFlight
<1> QED BY <1>1, <1>2 DEF SoloInv, Init

LEMMA NextAtRest == ASSUME TypeOK, AtRest, [Next]_vars PROVE AtRest'
<1> USE DEF AtRest, Alive, InFlight, TypeOK, runState
<1>1. ASSUME NEW r \in Runs, RunStep(r) PROVE AtRest'
    <2>1. CASE Reclaim(r) \/ Enumerate(r) \/ StartRun(r) \/ OwnerGone(r)
        BY <2>1 DEF Reclaim, Enumerate, StartRun, OwnerGone
    <2>2. CASE FinishRun(r)
        BY <2>2 DEF FinishRun
    <2>3. CASE Abort(r)
        BY <2>3 DEF Abort
    <2>4. CASE Crash(r)
        BY <2>4 DEF Crash
    <2> QED BY <1>1, <2>1, <2>2, <2>3, <2>4 DEF RunStep
<1>2. ASSUME NEW r \in Runs, NEW i \in Items, ItemStep(r, i) \/ Stop(r, i) \/ Fail(r, i) PROVE AtRest'
    <2>1. CASE Claim(r, i)
        BY <2>1 DEF Claim
    <2>2. CASE ClaimRefused(r, i)
        BY <2>2 DEF ClaimRefused
    <2>7. CASE Read(r, i)
        BY <2>7 DEF Read
    <2>3. ASSUME NEW status \in Outcomes, Commit(r, i, status) PROVE AtRest'
        BY <2>3 DEF Commit
    <2>4. CASE AfterItemDone(r, i)
        BY <2>4 DEF AfterItemDone
    <2>5. CASE Stop(r, i)
        BY <2>5 DEF Stop
    <2>6. CASE Fail(r, i)
        BY <2>6 DEF Fail
    <2> QED BY <1>2, <2>1, <2>2, <2>3, <2>4, <2>5, <2>6, <2>7 DEF ItemStep
<1>3. ASSUME NEW i \in Items, NEW h \in Hashes, Edit(i, h) PROVE AtRest'
    BY <1>3 DEF Edit
<1>4. ASSUME NEW i \in Items, LeaseLapses(i) PROVE AtRest'
    BY <1>4 DEF LeaseLapses
<1>5. CASE UNCHANGED vars
    BY <1>5 DEF vars
<1> QED BY <1>1, <1>2, <1>3, <1>4, <1>5 DEF Next

(* The run's own steps, and those that leave it the ledger.                   *)
LEMMA SoloRunStep ==
    ASSUME SoloInv, NEW r \in Runs, RunStep(r), solo' # NoRun
    PROVE  Alone(solo)'
<1> USE LedgerAssumption DEF SoloInv, TypeOK, runState
<1>1. CASE Reclaim(r)
    <2>1. solo' = r /\ owners = {} /\ \A q \in Runs \ {r} : ~Started(q)
        BY <1>1 DEF Reclaim
    <2>2. /\ phase' = [phase EXCEPT ![r] = "reclaimed"] /\ stops' = stops /\ work' = work
          /\ ~stops[r] /\ \A i \in Items : work[r][i] = "idle"
        BY <1>1 DEF Reclaim, AtRest, Alive, InFlight
    <2>3. \A i \in Items : row'[i].status # "running"
        BY <1>1, <2>1 DEF Reclaim, Reclaimable, Rows
    <2>4. \A q \in Runs \ {r} : phase'[q] = phase[q]
        BY <2>2
    <2> QED BY <2>1, <2>2, <2>3, <2>4 DEF Alone, Started
<1>2. CASE Enumerate(r)
    <2>1. solo' = solo /\ r = solo /\ phase[r] = "reclaimed"
        BY <1>2 DEF Enumerate, Alone, Started
    <2>2. \A i \in Items : row[i].status # "running" /\ work[r][i] = "idle"
        BY <2>1 DEF Alone, AtRest, Alive, InFlight
    <2>3. /\ phase' = [phase EXCEPT ![r] = "enumerated"]
          /\ UNCHANGED <<row, work, stops>>
        BY <1>2 DEF Enumerate
    <2> QED BY <2>1, <2>2, <2>3 DEF Alone, Started
<1>3. CASE StartRun(r)
    <2>1. solo' = solo /\ r = solo
        BY <1>3 DEF StartRun, Alone, Started
    <2>2. PICK selected \in SUBSET Runnable(r) :
              /\ option[r] # "part" => selected = Runnable(r)
              /\ todo' = [todo EXCEPT ![r] = selected]
        BY <1>3 DEF StartRun
    <2>3. \A i \in Items : row[i].status # "running" /\ work[r][i] = "idle"
        BY <1>3, <2>1 DEF StartRun, Alone, AtRest, Alive, InFlight
    <2>4. ASSUME option[r] = "all", NEW i \in Items, i \notin selected PROVE SettledFor(r, i)
        <3>1. i \notin Runnable(r)
            BY <2>2, <2>4
        <3>2. row[i].status \in Statuses
            BY DEF Rows
        <3> QED BY <2>3, <2>4, <3>1, <3>2
               DEF Runnable, Classify, FailedFinal, SettledFor, Settled, Statuses
    <2>5. /\ row' = row /\ want' = want /\ work' = work /\ option' = option /\ stops' = stops
          /\ phase' = [phase EXCEPT ![r] = "open"] /\ todo'[r] = selected
        BY <1>3, <2>2 DEF StartRun
    <2> QED BY <2>1, <2>3, <2>4, <2>5 DEF Alone, Started, SettledFor
<1>4. CASE FinishRun(r)
    BY <1>4 DEF FinishRun, Alone, Started, SettledFor
<1>5. CASE Abort(r) \/ Crash(r) \/ OwnerGone(r)
    BY <1>5 DEF Abort, Crash, OwnerGone
<1> QED BY <1>1, <1>2, <1>3, <1>4, <1>5 DEF RunStep

LEMMA SoloItemStep ==
    ASSUME SoloInv, NEW r \in Runs, NEW i \in Items, ItemStep(r, i) \/ Stop(r, i) \/ Fail(r, i), solo' # NoRun
    PROVE  Alone(solo)'
<1> USE LedgerAssumption DEF SoloInv, TypeOK, runState
<1>1. CASE Claim(r, i)
    <2>1. /\ solo' = r /\ solo = r /\ Alone(r) /\ phase[r] = "open"
          /\ want' = want /\ todo' = [todo EXCEPT ![r] = todo[r] \ {i}]
        BY <1>1 DEF Claim, Alone, Alive
    <2>2. /\ row'[i].status = "running" /\ row'[i].hash = want[r][i] /\ work'[r][i] = "claimed"
          /\ \A j \in Items \ {i} : row'[j] = row[j] /\ work'[r][j] = work[r][j]
          /\ phase' = phase /\ stops' = stops /\ option' = option
        BY <1>1 DEF Claim
    <2>3. ASSUME NEW j \in Items
          PROVE  /\ row'[j].status = "running" <=> work'[r][j] = "claimed"
                 /\ work'[r][j] = "claimed" => row'[j].hash = want'[r][j]
        <3>1. CASE j = i
            BY <2>1, <2>2, <3>1 DEF Alone
        <3>2. CASE j # i
            BY <2>1, <2>2, <3>2 DEF Alone
        <3> QED BY <3>1, <3>2
    <2>4. ASSUME option[r] = "all", NEW j \in Items
          PROVE  j \in todo'[r] \/ work'[r][j] = "claimed" \/ SettledFor(r, j)'
        BY <2>1, <2>2, <2>4 DEF Alone, SettledFor
    <2> QED BY <2>1, <2>2, <2>3, <2>4 DEF Alone, Started
<1>2. CASE ClaimRefused(r, i)
    <2>1. solo' = solo /\ r = solo
        BY <1>2 DEF ClaimRefused, Alone, Started, Alive
    <2>2. /\ phase[r] \in {"open", "aborted"} /\ ~Claimable(i, want[r][i]) /\ todo' = [todo EXCEPT ![r] = todo[r] \ {i}]
          /\ work[r][i] = "idle"
        BY <1>2 DEF ClaimRefused, AtRest, InFlight, Alive
    <2>3. SettledFor(r, i)
        BY <2>1, <2>2 DEF Alone, Claimable, SettledFor, Settled
    <2>4. row' = row /\ want' = want /\ work' = work /\ option' = option /\ stops' = stops /\ phase' = phase
        BY <1>2 DEF ClaimRefused
    <2> QED BY <2>1, <2>2, <2>3, <2>4 DEF Alone, Started, SettledFor
<1>3. ASSUME NEW status \in Outcomes, Commit(r, i, status) PROVE Alone(solo)'
    <2>1. solo' = solo /\ r = solo
        BY <1>3 DEF Commit, Alone, Started, Alive
    <2>2. /\ row'[i].status = status /\ row'[i].hash = row[i].hash
          /\ work'[r][i] # "claimed" /\ work[r][i] = "claimed"
          /\ \A j \in Items \ {i} : row'[j] = row[j] /\ work'[r][j] = work[r][j]
          /\ UNCHANGED <<phase, want, option, todo, stops>>
        BY <1>3 DEF Commit, Rows
    <2>3. status \in {"done", "review"}
        BY DEF Outcomes
    <2>4. ASSUME NEW j \in Items
          PROVE  /\ row'[j].status = "running" <=> work'[r][j] = "claimed"
                 /\ work'[r][j] = "claimed" => row'[j].hash = want'[r][j]
        <3>1. CASE j = i
            BY <2>1, <2>2, <2>3, <3>1 DEF Alone
        <3>2. CASE j # i
            BY <2>1, <2>2, <2>3, <3>2 DEF Alone
        <3> QED BY <3>1, <3>2
    <2>5. SettledFor(r, i)'
        BY <2>1, <2>2, <2>3 DEF Alone, SettledFor, Settled
    <2>6. ASSUME phase[r] \in {"open", "finished"}, option[r] = "all", NEW j \in Items
          PROVE  j \in todo'[r] \/ work'[r][j] = "claimed" \/ SettledFor(r, j)'
        BY <2>1, <2>2, <2>5, <2>6 DEF Alone, SettledFor
    <2> QED BY <2>1, <2>2, <2>4, <2>6 DEF Alone, Started
<1>4. CASE AfterItemDone(r, i)
    <2>1. solo' = solo /\ r = solo
        BY <1>4 DEF AfterItemDone, Alone, Started, Alive
    <2>2. /\ work'[r][i] # "claimed" /\ work[r][i] # "claimed"
          /\ \A j \in Items \ {i} : work'[r][j] = work[r][j]
          /\ UNCHANGED <<row, phase, want, option, todo, stops>>
        BY <1>4 DEF AfterItemDone
    <2> QED BY <2>1, <2>2 DEF Alone, Started, SettledFor
<1>5. CASE Stop(r, i) \/ Fail(r, i)
    BY <1>5 DEF Stop, Fail
<1>6. CASE Read(r, i)
    BY <1>6 DEF Read, Alone, Started, SettledFor
<1> QED BY <1>1, <1>2, <1>3, <1>4, <1>5, <1>6 DEF ItemStep

LEMMA NextSolo == SoloInv /\ [Next]_vars => SoloInv'
<1> SUFFICES ASSUME SoloInv, [Next]_vars PROVE SoloInv'
    OBVIOUS
<1>1. TypeOK' /\ AtRest'
    BY NextTypeOK, NextAtRest DEF SoloInv
<1>2. ASSUME NEW i \in Items, NEW h \in Hashes, Edit(i, h), solo' # NoRun PROVE Alone(solo)'
    BY <1>2 DEF Edit, SoloInv, Alone, Started, SettledFor, runState
<1>3. ASSUME NEW i \in Items, LeaseLapses(i), solo' # NoRun PROVE Alone(solo)'
    <2>1. \A j \in Items : row'[j].status = row[j].status /\ row'[j].hash = row[j].hash
        BY <1>3 DEF LeaseLapses, SoloInv, TypeOK, Rows
    <2> QED BY <1>3, <2>1 DEF LeaseLapses, SoloInv, Alone, Started, SettledFor, runState
<1>4. ASSUME UNCHANGED vars, solo' # NoRun PROVE Alone(solo)'
    BY <1>4 DEF vars, SoloInv, Alone, Started, SettledFor, runState
<1> QED BY <1>1, <1>2, <1>3, <1>4, SoloRunStep, SoloItemStep DEF Next, SoloInv

(* Whatever the rows were left in, and under every fault the ledger knows: a   *)
(* run that had it to itself and met none has settled all that it enumerated.  *)
THEOREM SoloRunsSettle == Spec => []SoloRunSettles
<1>1. Init => SoloInv
    BY InitSolo
<1>2. SoloInv /\ [Next]_vars => SoloInv'
    BY NextSolo
<1>3. SoloInv => SoloRunSettles
    BY DEF SoloInv, AtRest, Alone, SettledFor, SoloRunSettles, Alive, InFlight, TypeOK
<1> QED BY <1>1, <1>2, <1>3, PTL DEF Spec
=============================================================================
