------------------------------ MODULE Limiter ------------------------------
(***************************************************************************)
(* jev/limiter.py: two token buckets, one for requests and one for input   *)
(* tokens, gate the calls of a process.  A throttle answer (429/529)       *)
(* shrinks both rates; they recover step by step after a quiet period.     *)
(*                                                                         *)
(* Time passes in ticks and the scale is a fraction s/Full, so a bucket's  *)
(* level is kept in units of 1/Full and stays an integer.  A bucket is     *)
(* refilled when it is looked at, for all the time since the last look, at *)
(* the rate it has then.                                                   *)
(***************************************************************************)
EXTENDS Integers, FiniteSets, SequencesExt

CONSTANTS
    Calls,        \* tasks that call acquire
    Buckets,      \* the requests bucket and the tokens bucket
    Need,         \* Need[c][b]: what the call of task c takes from bucket b
    Rate, Cap,    \* per bucket: the profile's rate per tick, and the capacity
    Full, Floor,  \* scale 1, and floor_fraction, in units of the scale
    BackoffBy,    \* 1 / backoff_factor
    RecoverBy,    \* recover_factor
    RecoverAfter  \* recover_after_s, in ticks

ASSUME LimiterAssumption ==
    /\ IsFiniteSet(Buckets) /\ Buckets # {}
    /\ {Full, Floor, RecoverAfter} \subseteq Nat \ {0} /\ Floor <= Full
    /\ {BackoffBy, RecoverBy} \subseteq Nat \ {0, 1}
    /\ Rate \in [Buckets -> Nat \ {0}] /\ Cap \in [Buckets -> Nat \ {0}]
    /\ Need \in [Calls -> [Buckets -> Nat]]

VARIABLES
    level,  \* level[b], at the bucket's last refill
    since,  \* ticks since then; both buckets are always looked at together
    scale,  \* _scale
    quiet,  \* ticks since _last_throttle
    queue,  \* the tasks at the lock, its holder first
    wait,   \* ticks the holder has still to sleep; -1 before it has looked
    ideal   \* history: bucket b as one always refilled at the profile's rate holds it

limiterVars == <<level, since, scale, quiet, queue, wait, ideal>>

(* Ticks after which a bucket is full at any scale: since is capped there.    *)
Divide(a, n) == (a + n - 1) \div n
Horizon == Max({Divide(Cap[b] * Full, Rate[b] * Floor) : b \in Buckets})
Size(b) == Cap[b] * Full

(* What a call takes; as a regression, without the clamp to the capacity. *)
AmountUnclamped(c, b) == Need[c][b] * Full
Amount(c, b) == Min({Need[c][b], Cap[b]}) * Full

LimiterTypeOK ==
    /\ level \in [Buckets -> Nat] /\ \A b \in Buckets : level[b] <= Size(b)
    /\ since \in 0..Horizon
    /\ scale \in Floor..Full
    /\ quiet \in 0..RecoverAfter
    /\ queue \in Seq(Calls)
    /\ wait \in -1..Horizon
    /\ ideal \in [Buckets -> Int]

InitLimiter ==
    /\ level = [b \in Buckets |-> Size(b)]
    /\ since = 0
    /\ scale = Full
    /\ quiet = RecoverAfter
    /\ queue = <<>>
    /\ wait = -1
    /\ ideal = [b \in Buckets |-> Size(b)]

-----------------------------------------------------------------------------
(* _Bucket._refill *)
Refilled(b, s) == Min({Size(b), level[b] + since * Rate[b] * s})

(* _Bucket.wait_time, over both buckets. *)
WaitTime(c, s) ==
    Max({IF Refilled(b, s) >= Amount(c, b) THEN 0
         ELSE Divide(Amount(c, b) - Refilled(b, s), Rate[b] * s) : b \in Buckets})

(* The back-off and, without and with its bound, the recovery. *)
ScaleLowered(s) == Max({Floor, s \div BackoffBy})
ScaleRaisedBeyond(s) == s * RecoverBy
ScaleRaised(s) == Min({Full, s * RecoverBy})

(* _maybe_recover, once per acquire. *)
Recovers == scale < Full /\ quiet >= RecoverAfter

-----------------------------------------------------------------------------
(* acquire: a task queues at the lock. *)
Arrive(c) ==
    /\ \A i \in DOMAIN queue : queue[i] # c
    /\ queue' = Append(queue, c)
    /\ UNCHANGED <<level, since, scale, quiet, wait, ideal>>

(* The holder looks at the buckets (a first time, after _maybe_recover, or     *)
(* when its sleep is over): it takes what it needs and goes, or sleeps.       *)
Look ==
    /\ queue # <<>>
    /\ wait \in {-1, 0}
    /\ LET c == Head(queue)
           recovers == wait = -1 /\ Recovers
           s == IF recovers THEN ScaleRaised(scale) ELSE scale
           w == WaitTime(c, s)
       IN  /\ scale' = s
           /\ quiet' = IF recovers THEN 0 ELSE quiet
           /\ since' = 0
           /\ level' = [b \in Buckets |-> Refilled(b, s) - (IF w = 0 THEN Amount(c, b) ELSE 0)]
           /\ ideal' = [b \in Buckets |-> ideal[b] - (IF w = 0 THEN Amount(c, b) ELSE 0)]
           /\ queue' = IF w = 0 THEN Tail(queue) ELSE queue
           /\ wait' = IF w = 0 THEN -1 ELSE w

(* A 429 or 529 answers a call of this process. *)
Throttled ==
    /\ scale' = ScaleLowered(scale)
    /\ quiet' = 0
    /\ UNCHANGED <<level, since, queue, wait, ideal>>

(* A task is cancelled at the lock or in its sleep; the lock goes on. *)
Cancel(c) ==
    /\ \E i \in DOMAIN queue :
         /\ queue[i] = c
         /\ queue' = RemoveAt(queue, i)
         /\ wait' = IF i = 1 THEN -1 ELSE wait
    /\ UNCHANGED <<level, since, scale, quiet, ideal>>

(* Time passes.  A sleep that is over may be noticed late. *)
Tick ==
    /\ since' = Min({Horizon, since + 1})
    /\ quiet' = Min({RecoverAfter, quiet + 1})
    /\ wait' = IF wait > 0 THEN wait - 1 ELSE wait
    /\ ideal' = [b \in Buckets |-> Min({Size(b), ideal[b] + Rate[b] * Full})]
    /\ UNCHANGED <<level, scale, queue>>

NextLimiter ==
    \/ \E c \in Calls : Arrive(c) \/ Cancel(c)
    \/ Look \/ Throttled \/ Tick

LimiterSpec == InitLimiter /\ [][NextLimiter]_limiterVars

(* Time passes and the event loop wakes the holder. *)
FairLimiterSpec == LimiterSpec /\ WF_limiterVars(Look) /\ WF_limiterVars(Tick)

-----------------------------------------------------------------------------
(* However throttles, recoveries, late wake-ups and cancellations mix, the     *)
(* calls let through are calls a bucket refilled at the profile's rate would  *)
(* have let through: in no period more than its capacity and the rate's worth *)
(* of that period.                                                            *)
WithinProfileRate == LimiterTypeOK /\ \A b \in Buckets : ideal[b] >= 0

(* Every acquire returns (or is cancelled), though throttles never end: the    *)
(* floor keeps the rates up, and the lock serves its tasks in turn.           *)
AcquireReturns ==
    \A c \in Calls :
        (\E i \in DOMAIN queue : queue[i] = c) ~> (\A i \in DOMAIN queue : queue[i] # c)

=============================================================================
