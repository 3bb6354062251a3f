----------------------------- MODULE JevService -----------------------------
(***************************************************************************)
(* JevService.ask's way to a paid answer (jev/service.py): identical calls *)
(* of one process share a flight; a flight reads the jev_calls cache, then *)
(* waits for the rate limiter and for the account's credits, pays, and     *)
(* stores the call in a transaction of its own before anyone sees it.      *)
(*                                                                         *)
(* A key stands for a cache key: one batch of questions over one state.    *)
(* Covers holds the pairs <<k2, k>> where a call for k2 asked every        *)
(* question of k word for word, so that _reuse serves k from it.           *)
(***************************************************************************)
EXTENDS Integers, FiniteSets, FiniteSetsExt

CONSTANTS
    Procs,    \* processes that share the database
    Callers,  \* tasks that ask
    Home,     \* Home[c]: the process of task c
    Keys,     \* cache keys
    Covers,   \* see above
    Drift,    \* the lane of a drift sample: a replayed call that bypasses the cache
    Faults,   \* the kinds of fault this instance allows
    MaxLost   \* bound on the answers lost to crashes and failed commits

FaultKinds == {"crash", "commit", "unavailable", "cancel", "credits", "malformed"}

ASSUME JevAssumption ==
    /\ Home \in [Callers -> Procs]
    /\ Covers \subseteq Keys \X Keys
    /\ Drift \notin Keys
    /\ Faults \subseteq FaultKinds
    /\ MaxLost \in Nat /\ IsFiniteSet(Procs)

VARIABLES
    funded,   \* the provider account has credits
    store,    \* store[k]: the answers of the jev_calls row for k
    flight,   \* flight[p][l]: the call of process p in lane l (a key, or Drift)
    credits,  \* credits[p]: the Event `_credits` of process p
    ask,      \* ask[c]: what task c asks, and what it was told last
    paid,     \* history: answers the provider gave (and charged) for k
    lost      \* history: those of them that were never stored

vars == <<funded, store, flight, credits, ask, paid, lost>>

Valid == {"yes", "no"}
Answers == Valid \cup (IF "malformed" \in Faults THEN {"malformed"} ELSE {})
Lanes == Keys \cup {Drift}
FlightStates == {"none", "starting", "limited", "credit", "calling",
                 "holding", "retrying", "answered", "done"}
NoFlight == [st |-> "none", answer |-> "none"]

TypeOK ==
    /\ funded \in BOOLEAN
    /\ store \in [Keys -> Answers \cup {"none"}]
    /\ flight \in [Procs -> [Lanes -> [st : FlightStates, answer : Answers \cup {"none", "error"}]]]
    /\ credits \in [Procs -> BOOLEAN]
    /\ ask \in [Callers -> [key : Keys \cup {"none"}, answer : Answers \cup {"none", "error"}]]
    /\ paid \in [Keys -> Nat]
    /\ lost \in [Keys -> Nat]

Init ==
    /\ funded = TRUE
    /\ store = [k \in Keys |-> "none"]
    /\ flight = [p \in Procs |-> [l \in Lanes |-> NoFlight]]
    /\ credits = [p \in Procs |-> TRUE]
    /\ ask = [c \in Callers |-> [key |-> "none", answer |-> "none"]]
    /\ paid = [k \in Keys |-> 0]
    /\ lost = [k \in Keys |-> 0]

-----------------------------------------------------------------------------
Waiting(c) == ask[c].key # "none"
TotalLost == MapThenSumSet(LAMBDA k : lost[k], Keys)

(* The jev_calls rows that answer key k: its own, else one that covers it.    *)
(* A malformed row of another key may or may not lack what k needs.           *)
Cached(k) ==
    IF store[k] # "none" THEN {store[k]}
    ELSE {store[j] : j \in {j \in Keys : <<j, k>> \in Covers /\ store[j] # "none"}}
MayMiss(k) == store[k] = "none" /\ Cached(k) \subseteq {"malformed"}

To(p, l, state) == [flight EXCEPT ![p][l].st = state]

(* Setting the Event wakes every call that waits on it, and a woken call goes *)
(* ahead even if the Event is cleared again before it runs.                   *)
Released(f, p) ==
    [f EXCEPT ![p] = [l \in Lanes |-> IF f[p][l].st = "credit"
                                      THEN [f[p][l] EXCEPT !.st = "calling"] ELSE f[p][l]]]

-----------------------------------------------------------------------------
(* _call: join the flight of an identical call, or start one. *)
Ask(c, k) ==
    /\ ~Waiting(c)
    /\ ask' = [ask EXCEPT ![c] = [key |-> k, answer |-> "none"]]
    /\ flight' = IF flight[Home[c]][k].st = "none" THEN To(Home[c], k, "starting") ELSE flight
    /\ UNCHANGED <<funded, store, credits, paid, lost>>

(* replay: a stored call is asked again verbatim, past the cache. *)
StartDrift(p) ==
    /\ flight[p][Drift].st = "none"
    /\ \E k \in Keys : store[k] # "none"
    /\ flight' = To(p, Drift, "limited")
    /\ UNCHANGED <<funded, store, credits, ask, paid, lost>>

(* _cached_or_paid finds the call stored, or _reuse finds one that covers it. *)
ReadHit(p, k) ==
    /\ flight[p][k].st = "starting"
    /\ \E a \in Cached(k) : flight' = [flight EXCEPT ![p][k] = [st |-> "done", answer |-> a]]
    /\ UNCHANGED <<funded, store, credits, ask, paid, lost>>

(* Regression: the cache is not read before paying. *)
ReadNothing(p, k) ==
    /\ flight[p][k].st = "starting"
    /\ flight' = To(p, k, "limited")
    /\ UNCHANGED <<funded, store, credits, ask, paid, lost>>

ReadMiss(p, k) ==
    /\ flight[p][k].st = "starting"
    /\ MayMiss(k)
    /\ flight' = To(p, k, "limited")
    /\ UNCHANGED <<funded, store, credits, ask, paid, lost>>

(* limiter.acquire returns; `_credits.wait` passes at once if the Event is set. *)
Acquire(p, l) ==
    /\ flight[p][l].st = "limited"
    /\ flight' = To(p, l, IF credits[p] THEN "calling" ELSE "credit")
    /\ UNCHANGED <<funded, store, credits, ask, paid, lost>>

(* Regression: the flag stays down when the holder's own retry succeeds. *)
AnswerKeepingFlag(p, l, a) ==
    /\ flight[p][l].st \in {"calling", "retrying"}
    /\ funded
    /\ flight' = [flight EXCEPT ![p][l] = [st |-> "answered", answer |-> a]]
    /\ paid' = IF l \in Keys THEN [paid EXCEPT ![l] = @ + 1] ELSE paid
    /\ UNCHANGED <<funded, store, credits, ask, lost>>

(* The provider answers.  If the call was the one retrying for credits, every *)
(* call waiting for them goes ahead.                                          *)
Answer(p, l, a) ==
    /\ flight[p][l].st \in {"calling", "retrying"}
    /\ funded
    /\ LET f == [flight EXCEPT ![p][l] = [st |-> "answered", answer |-> a]]
       IN  flight' = IF flight[p][l].st = "retrying" THEN Released(f, p) ELSE f
    /\ credits' = [credits EXCEPT ![p] = @ \/ flight[p][l].st = "retrying"]
    /\ paid' = IF l \in Keys THEN [paid EXCEPT ![l] = @ + 1] ELSE paid
    /\ UNCHANGED <<funded, store, ask, lost>>

(* JevCreditsExhausted: the first call to see it clears the Event and retries *)
(* on an interval; one that finds it cleared waits for it.                    *)
Exhausted(p, l) ==
    /\ flight[p][l].st \in {"calling", "retrying"}
    /\ ~funded
    /\ \/ /\ flight[p][l].st = "calling" /\ ~credits[p]
          /\ flight' = To(p, l, "credit")
          /\ UNCHANGED credits
       \/ /\ flight[p][l].st = "retrying" \/ credits[p]
          /\ flight' = To(p, l, "holding")
          /\ credits' = [credits EXCEPT ![p] = FALSE]
    /\ UNCHANGED <<funded, store, ask, paid, lost>>

(* jev.credits_wait_s have passed. *)
Retry(p, l) ==
    /\ flight[p][l].st = "holding"
    /\ flight' = To(p, l, "retrying")
    /\ UNCHANGED <<funded, store, credits, ask, paid, lost>>

(* JevUnavailable or JevRequestError; the holder's `finally` sets the Event. *)
CallFails(p, l) ==
    /\ "unavailable" \in Faults
    /\ flight[p][l].st \in {"calling", "retrying"}
    /\ LET f == [flight EXCEPT ![p][l] = [st |-> "done", answer |-> "error"]]
       IN  flight' = IF flight[p][l].st = "retrying" THEN Released(f, p) ELSE f
    /\ credits' = [credits EXCEPT ![p] = @ \/ flight[p][l].st = "retrying"]
    /\ UNCHANGED <<funded, store, ask, paid, lost>>

(* Regression: the drift sample's row takes the cached call's ID. *)
StoreCallUnderKey(p, l) ==
    /\ flight[p][l].st = "answered"
    /\ flight' = To(p, l, "done")
    /\ \E k \in Keys :
         /\ l \in Keys => k = l
         /\ store' = [store EXCEPT ![k] = flight[p][l].answer]
    /\ UNCHANGED <<funded, credits, ask, paid, lost>>

(* The jev_calls row commits (an upsert: it replaces a rival process's row).  *)
(* A drift sample has a row of its own, which the cache never reads.          *)
StoreCall(p, l) ==
    /\ flight[p][l].st = "answered"
    /\ flight' = To(p, l, "done")
    /\ store' = IF l \in Keys THEN [store EXCEPT ![l] = flight[p][l].answer] ELSE store
    /\ UNCHANGED <<funded, credits, ask, paid, lost>>

StoreFails(p, l) ==
    /\ "commit" \in Faults /\ TotalLost < MaxLost
    /\ flight[p][l].st = "answered"
    /\ flight' = [flight EXCEPT ![p][l] = [st |-> "done", answer |-> "error"]]
    /\ lost' = IF l \in Keys THEN [lost EXCEPT ![l] = @ + 1] ELSE lost
    /\ UNCHANGED <<funded, store, credits, ask, paid>>

(* _landed takes the flight away, and each caller still waiting gets its      *)
(* result.  A malformed answer then fails the ask in _parse.                  *)
Land(p, l) ==
    /\ flight[p][l].st = "done"
    /\ flight' = [flight EXCEPT ![p][l] = NoFlight]
    /\ ask' = [c \in Callers |->
                 IF Home[c] = p /\ ask[c].key = l
                 THEN [key |-> "none", answer |-> flight[p][l].answer] ELSE ask[c]]
    /\ UNCHANGED <<funded, store, credits, paid, lost>>

(* A caller is cancelled: the shielded flight goes on without it. *)
CancelAsk(c) ==
    /\ "cancel" \in Faults
    /\ Waiting(c)
    /\ ask' = [ask EXCEPT ![c] = [key |-> "none", answer |-> "none"]]
    /\ UNCHANGED <<funded, store, flight, credits, paid, lost>>

(* A drift sample is not shielded: its cancellation ends the call itself. *)
CancelDrift(p) ==
    /\ "cancel" \in Faults
    /\ flight[p][Drift].st \notin {"none", "done"}
    /\ LET f == [flight EXCEPT ![p][Drift] = NoFlight]
           held == flight[p][Drift].st \in {"holding", "retrying"}
       IN  /\ flight' = IF held THEN Released(f, p) ELSE f
           /\ credits' = [credits EXCEPT ![p] = @ \/ held]
    /\ UNCHANGED <<funded, store, ask, paid, lost>>

(* The process dies.  Answers it holds are lost, and so are those the         *)
(* provider gives to requests still on their way.                             *)
Crash(p) ==
    /\ "crash" \in Faults /\ TotalLost < MaxLost
    /\ \E charged \in SUBSET {k \in Keys : funded /\ flight[p][k].st \in {"calling", "retrying"}} :
         /\ paid' = [k \in Keys |-> paid[k] + (IF k \in charged THEN 1 ELSE 0)]
         /\ lost' = [k \in Keys |->
                       lost[k] + (IF k \in charged \/ flight[p][k].st = "answered" THEN 1 ELSE 0)]
    /\ flight' = [flight EXCEPT ![p] = [l \in Lanes |-> NoFlight]]
    /\ credits' = [credits EXCEPT ![p] = TRUE]
    /\ ask' = [c \in Callers |->
                 IF Home[c] = p THEN [key |-> "none", answer |-> "none"] ELSE ask[c]]
    /\ UNCHANGED <<funded, store>>

(* The account runs out of credits, or is topped up. *)
RunOut ==
    /\ "credits" \in Faults
    /\ funded
    /\ funded' = FALSE
    /\ UNCHANGED <<store, flight, credits, ask, paid, lost>>

TopUp ==
    /\ ~funded
    /\ funded' = TRUE
    /\ UNCHANGED <<store, flight, credits, ask, paid, lost>>

-----------------------------------------------------------------------------
Progress(p, l) ==
    \/ l \in Keys /\ (ReadHit(p, l) \/ ReadMiss(p, l))
    \/ Acquire(p, l)
    \/ \E a \in Answers : Answer(p, l, a)
    \/ Exhausted(p, l) \/ Retry(p, l) \/ StoreCall(p, l) \/ Land(p, l)

Next ==
    \/ \E c \in Callers : CancelAsk(c) \/ \E k \in Keys : Ask(c, k)
    \/ \E p \in Procs, l \in Lanes : Progress(p, l) \/ CallFails(p, l) \/ StoreFails(p, l)
    \/ \E p \in Procs : StartDrift(p) \/ CancelDrift(p) \/ Crash(p)
    \/ RunOut \/ TopUp

Spec == Init /\ [][Next]_vars

(* Every flight's next step is a wake-up of its own (a query, a timer, a      *)
(* response) that the event loop delivers.                                    *)
Fairness == \A p \in Procs, l \in Lanes : WF_vars(Progress(p, l))
FairSpec == Spec /\ Fairness

-----------------------------------------------------------------------------
(* An answer is paid for again only if it was lost before it was stored, by a *)
(* crash or a failed commit, or to a rival process that had missed the cache  *)
(* before: one process pays for a key once.                                   *)
PaidOnce == \A k \in Keys : paid[k] <= Cardinality(Procs) + lost[k]

(* What a caller is told is what the jev_calls row it cites says, now and     *)
(* after every drift sample.  (One process; a rival's upsert may replace it.) *)
ToldIsStored ==
    /\ TypeOK
    /\ \A p \in Procs, k \in Keys :
           flight[p][k].st = "done" /\ flight[p][k].answer # "error"
             => flight[p][k].answer \in Cached(k)

(* Every flight somebody waits for is there, and lands.                       *)
EveryAskEnds ==
    (<>[]funded) => \A c \in Callers : Waiting(c) ~> ~Waiting(c)

=============================================================================
