---------------------------- MODULE ServingProofs ----------------------------
(***************************************************************************)
(* Theorems about JevService for any processes, callers and keys, and any  *)
(* faults; and about Limiter for any number of tasks and buckets, any      *)
(* rates, capacities and calls, and any floor, back-off and recovery;      *)
(* about Query for any databases, plans, drafts and bounds; about Gating   *)
(* for any question sets, answers, thresholds and rounds; and about the    *)
(* three together (Serving).                                               *)
(***************************************************************************)
EXTENDS JevService, Serving, TLAPS, FiniteSetTheorems, SequenceTheorems

-----------------------------------------------------------------------------
(* Flights. *)

Call == [st : FlightStates, answer : Answers \cup {"none", "error"}]
Flights == [Procs -> [Lanes -> Call]]

(* A call that is answered holds an answer of the provider. *)
Typed ==
    /\ TypeOK
    /\ \A p \in Procs, l \in Lanes : flight[p][l].st = "answered" => flight[p][l].answer \in Answers

Unpaid == {"limited", "credit", "calling", "holding", "retrying"}
Kind(st) == IF st \in Unpaid THEN "unpaid" ELSE IF st = "answered" THEN "answered" ELSE "other"

(* One flight takes a new state and answer, the others of the process at most *)
(* go ahead with their credits.                                               *)
Moves(p, l, r) ==
    /\ flight' \in Flights /\ flight'[p][l] = r
    /\ \A o \in Procs, m \in Lanes : <<o, m>> # <<p, l>> =>
          \/ flight'[o][m] = flight[o][m]
          \/ flight[o][m].st = "credit" /\ flight'[o][m].st = "calling"

LEMMA SetMoves ==
    ASSUME TypeOK, NEW p \in Procs, NEW l \in Lanes,
           NEW r \in Call,
           flight' = [flight EXCEPT ![p][l] = r]
    PROVE  Moves(p, l, r)
BY DEF TypeOK, Call, Flights, Moves

LEMMA ToMoves ==
    ASSUME TypeOK, NEW p \in Procs, NEW l \in Lanes, NEW state \in FlightStates,
           flight' = To(p, l, state)
    PROVE  Moves(p, l, [st |-> state, answer |-> flight[p][l].answer])
<1> DEFINE r == [flight[p][l] EXCEPT !.st = state]
<1>1. flight[p][l] \in Call
    BY DEF TypeOK, Call
<1>2. r = [st |-> state, answer |-> flight[p][l].answer]
    BY <1>1 DEF Call
<1>3. r \in Call
    BY <1>1 DEF Call
<1>4. flight' = [flight EXCEPT ![p][l] = r]
    BY <1>1 DEF To, TypeOK
<1> HIDE DEF r
<1> QED BY <1>2, <1>3, <1>4, SetMoves

Woken(c) == IF c.st = "credit" THEN [c EXCEPT !.st = "calling"] ELSE c
LEMMA WokenIsCalling ==
    ASSUME NEW c \in Call
    PROVE  Woken(c) \in Call /\ (Woken(c) = c \/ (c.st = "credit" /\ Woken(c).st = "calling"))
BY DEF Call, FlightStates, Woken

LEMMA ReleasedMoves ==
    ASSUME TypeOK, NEW p \in Procs, NEW l \in Lanes,
           NEW r \in Call, r.st # "credit",
           flight' = Released([flight EXCEPT ![p][l] = r], p)
    PROVE  Moves(p, l, r)
<1> DEFINE f == [flight EXCEPT ![p][l] = r]
           woken(m) == IF f[p][m].st = "credit" THEN [f[p][m] EXCEPT !.st = "calling"] ELSE f[p][m]
           g == [m \in Lanes |-> woken(m)]
<1>1. f \in Flights /\ f[p][l] = r /\ \A o \in Procs, m \in Lanes : <<o, m>> # <<p, l>> => f[o][m] = flight[o][m]
    BY DEF TypeOK, Call, Flights
<1>2. ASSUME NEW m \in Lanes
      PROVE  woken(m) \in Call /\ (woken(m) = f[p][m] \/ (f[p][m].st = "credit" /\ woken(m).st = "calling"))
    <2>1. f[p][m] \in Call
        BY <1>1 DEF Flights
    <2>2. woken(m) = Woken(f[p][m])
        BY DEF Woken
    <2> HIDE DEF f, woken
    <2> QED BY <2>1, <2>2, WokenIsCalling
<1>3. flight' = [f EXCEPT ![p] = g]
    BY DEF Released
<1> HIDE DEF f, woken
<1>4. g \in [Lanes -> Call] /\ \A m \in Lanes : g[m] = woken(m)
    BY <1>2
<1> HIDE DEF g
<1>5. flight' \in Flights /\ flight'[p] = g /\ \A o \in Procs \ {p} : flight'[o] = f[o]
    BY <1>1, <1>3, <1>4 DEF Flights
<1>6. \A m \in Lanes : flight'[p][m] = woken(m)
    BY <1>4, <1>5
<1>7. flight'[p][l] = r
    BY <1>1, <1>2, <1>6
<1>8. ASSUME NEW o \in Procs, NEW m \in Lanes, <<o, m>> # <<p, l>>
      PROVE  \/ flight'[o][m] = flight[o][m]
             \/ flight[o][m].st = "credit" /\ flight'[o][m].st = "calling"
    <2>1. f[o][m] = flight[o][m]
        BY <1>1, <1>8
    <2>2. CASE o = p
        BY <1>2, <1>6, <2>1, <2>2
    <2>3. CASE o # p
        BY <1>5, <2>1, <2>3
    <2> QED BY <2>2, <2>3
<1> QED BY <1>5, <1>7, <1>8 DEF Moves

(* Flights that are not this one stay of their kind; answered ones keep their answer. *)
LEMMA MovesKeep ==
    ASSUME Typed, NEW p \in Procs, NEW l \in Lanes, NEW r \in Call, Moves(p, l, r),
           r.st = "answered" => r.answer \in Answers
    PROVE  /\ flight' \in Flights
           /\ \A o \in Procs, m \in Lanes : <<o, m>> # <<p, l>> => Kind(flight'[o][m].st) = Kind(flight[o][m].st)
           /\ \A o \in Procs, m \in Lanes : flight'[o][m].st = "answered" => flight'[o][m].answer \in Answers
BY DEF Typed, Moves, Kind, Unpaid

LEMMA CachedAnswers == ASSUME TypeOK, NEW k \in Keys PROVE Cached(k) \subseteq Answers
BY DEF TypeOK, Cached

(* What each step of a call makes of its flight. *)
LEMMA StepMoves ==
    ASSUME Typed, NEW p \in Procs, NEW l \in Lanes
    PROVE  /\ l \in Keys /\ ReadHit(p, l) => \E a \in Cached(l) : Moves(p, l, [st |-> "done", answer |-> a])
           /\ l \in Keys /\ ReadMiss(p, l) => Moves(p, l, [st |-> "limited", answer |-> flight[p][l].answer])
           /\ Acquire(p, l) \/ Exhausted(p, l) \/ Retry(p, l) =>
                \E st \in Unpaid : Moves(p, l, [st |-> st, answer |-> flight[p][l].answer])
           /\ \A a \in Answers : Answer(p, l, a) => Moves(p, l, [st |-> "answered", answer |-> a])
           /\ StoreCall(p, l) => Moves(p, l, [st |-> "done", answer |-> flight[p][l].answer])
           /\ CallFails(p, l) \/ StoreFails(p, l) => Moves(p, l, [st |-> "done", answer |-> "error"])
           /\ Land(p, l) => Moves(p, l, NoFlight)
<1>1. /\ TypeOK /\ flight[p][l] \in Call
      /\ \A st \in FlightStates, a \in Answers \cup {"none", "error"} : [st |-> st, answer |-> a] \in Call
    BY DEF Typed, TypeOK, Call
<1>2. \A k \in Keys : Cached(k) \subseteq Answers
    BY <1>1, CachedAnswers
<1>3. Unpaid \cup {"none", "starting", "answered", "done"} = FlightStates
    BY DEF Unpaid, FlightStates
<1>4. ASSUME l \in Keys, ReadHit(p, l) PROVE \E a \in Cached(l) : Moves(p, l, [st |-> "done", answer |-> a])
    <2>1. PICK a \in Cached(l) : flight' = [flight EXCEPT ![p][l] = [st |-> "done", answer |-> a]]
        BY <1>4 DEF ReadHit
    <2>2. [st |-> "done", answer |-> a] \in Call
        BY <1>1, <1>2, <1>3, <1>4
    <2> QED BY <1>1, <2>1, <2>2, SetMoves
<1>5. ASSUME ReadMiss(p, l) PROVE Moves(p, l, [st |-> "limited", answer |-> flight[p][l].answer])
    <2>1. flight' = To(p, l, "limited") /\ "limited" \in FlightStates
        BY <1>5 DEF ReadMiss, FlightStates
    <2> QED BY <1>1, <2>1, ToMoves
<1>6. ASSUME Acquire(p, l) \/ Exhausted(p, l) \/ Retry(p, l)
      PROVE  \E st \in Unpaid : Moves(p, l, [st |-> st, answer |-> flight[p][l].answer])
    <2>1. PICK st \in Unpaid : flight' = To(p, l, st)
        BY <1>6 DEF Acquire, Exhausted, Retry, Unpaid
    <2> QED BY <1>1, <1>3, <2>1, ToMoves
<1>7. ASSUME NEW a \in Answers, Answer(p, l, a) PROVE Moves(p, l, [st |-> "answered", answer |-> a])
    <2> DEFINE r == [st |-> "answered", answer |-> a]
    <2>1. r \in Call /\ r.st # "credit"
        BY <1>1, <1>3
    <2>2. flight' = [flight EXCEPT ![p][l] = r] \/ flight' = Released([flight EXCEPT ![p][l] = r], p)
        BY <1>7 DEF Answer
    <2> HIDE DEF r
    <2>3. Moves(p, l, r)
        BY <1>1, <2>1, <2>2, SetMoves, ReleasedMoves
    <2> QED BY <2>3 DEF r
<1>8. ASSUME StoreCall(p, l) PROVE Moves(p, l, [st |-> "done", answer |-> flight[p][l].answer])
    <2>1. flight' = To(p, l, "done") /\ "done" \in FlightStates
        BY <1>8 DEF StoreCall, FlightStates
    <2> QED BY <1>1, <2>1, ToMoves
<1>9. ASSUME CallFails(p, l) \/ StoreFails(p, l) PROVE Moves(p, l, [st |-> "done", answer |-> "error"])
    <2> DEFINE r == [st |-> "done", answer |-> "error"]
    <2>1. r \in Call /\ r.st # "credit"
        BY <1>1, <1>3
    <2>2. flight' = [flight EXCEPT ![p][l] = r] \/ flight' = Released([flight EXCEPT ![p][l] = r], p)
        BY <1>9 DEF CallFails, StoreFails
    <2> HIDE DEF r
    <2>3. Moves(p, l, r)
        BY <1>1, <2>1, <2>2, SetMoves, ReleasedMoves
    <2> QED BY <2>3 DEF r
<1>10. ASSUME Land(p, l) PROVE Moves(p, l, NoFlight)
    <2>1. flight' = [flight EXCEPT ![p][l] = NoFlight] /\ NoFlight \in Call
        BY <1>1, <1>3, <1>10 DEF Land, NoFlight
    <2> QED BY <1>1, <2>1, SetMoves
<1> QED BY <1>4, <1>5, <1>6, <1>7, <1>8, <1>9, <1>10

(* A drift sample has a lane of its own. *)
LEMMA DriftMoves ==
    ASSUME Typed, NEW p \in Procs
    PROVE  /\ StartDrift(p) => Moves(p, Drift, [st |-> "limited", answer |-> flight[p][Drift].answer])
           /\ CancelDrift(p) => Moves(p, Drift, NoFlight)
<1>1. TypeOK /\ Drift \in Lanes
    BY DEF Typed, Lanes
<1>2. ASSUME StartDrift(p) PROVE Moves(p, Drift, [st |-> "limited", answer |-> flight[p][Drift].answer])
    <2>1. flight' = To(p, Drift, "limited") /\ "limited" \in FlightStates
        BY <1>2 DEF StartDrift, FlightStates
    <2> QED BY <1>1, <2>1, ToMoves
<1>3. ASSUME CancelDrift(p) PROVE Moves(p, Drift, NoFlight)
    <2>1. NoFlight \in Call /\ NoFlight.st # "credit"
        BY DEF NoFlight, Call, FlightStates
    <2>2. \/ flight' = [flight EXCEPT ![p][Drift] = NoFlight]
          \/ flight' = Released([flight EXCEPT ![p][Drift] = NoFlight], p)
        BY <1>3 DEF CancelDrift
    <2> QED BY <1>1, <2>1, <2>2, SetMoves, ReleasedMoves
<1> QED BY <1>2, <1>3

(* A caller joins a flight or starts one. *)
LEMMA AskMoves ==
    ASSUME Typed, NEW c \in Callers, NEW k \in Keys, Ask(c, k)
    PROVE  /\ Home[c] \in Procs /\ k \in Lanes
           /\ \/ flight' = flight
              \/ /\ flight[Home[c]][k].st = "none"
                 /\ Moves(Home[c], k, [st |-> "starting", answer |-> flight[Home[c]][k].answer])
<1>1. Home[c] \in Procs /\ k \in Lanes /\ TypeOK /\ "starting" \in FlightStates
    BY JevAssumption DEF Lanes, Typed, FlightStates
<1> QED BY <1>1, ToMoves DEF Ask

-----------------------------------------------------------------------------
(* Type correctness. *)

LEMMA InitTyped == Init => Typed
<1> SUFFICES ASSUME Init PROVE Typed
    OBVIOUS
<1>1. NoFlight \in Call
    BY DEF NoFlight, Call, FlightStates
<1>2. TypeOK
    BY <1>1 DEF Init, TypeOK, Call
<1> QED BY <1>2 DEF Init, Typed, NoFlight

(* A process dies. *)
LEMMA CrashEffect ==
    ASSUME Typed, NEW p \in Procs, Crash(p)
    PROVE  /\ flight' \in Flights
           /\ \A o \in Procs, m \in Lanes : flight'[o][m] = IF o = p THEN NoFlight ELSE flight[o][m]
           /\ \A k \in Keys :
                \/ paid'[k] = paid[k] /\ lost'[k] = lost[k] + (IF flight[p][k].st = "answered" THEN 1 ELSE 0)
                \/ paid'[k] = paid[k] + 1 /\ lost'[k] = lost[k] + 1 /\ flight[p][k].st \in Unpaid
           /\ paid' \in [Keys -> Nat] /\ lost' \in [Keys -> Nat] /\ store' = store
<1>1. TypeOK /\ NoFlight \in Call
    BY DEF Typed, NoFlight, Call, FlightStates
<1>2. /\ flight' \in Flights
      /\ \A o \in Procs, m \in Lanes : flight'[o][m] = IF o = p THEN NoFlight ELSE flight[o][m]
    <2>1. flight' = [flight EXCEPT ![p] = [l \in Lanes |-> NoFlight]] /\ flight \in Flights
        BY <1>1 DEF Crash, TypeOK, Flights, Call
    <2> QED BY <1>1, <2>1 DEF Flights
<1>3. PICK charged \in SUBSET {k \in Keys : funded /\ flight[p][k].st \in {"calling", "retrying"}} :
         /\ paid' = [k \in Keys |-> paid[k] + (IF k \in charged THEN 1 ELSE 0)]
         /\ lost' = [k \in Keys |->
                       lost[k] + (IF k \in charged \/ flight[p][k].st = "answered" THEN 1 ELSE 0)]
    BY DEF Crash
<1>4. paid \in [Keys -> Nat] /\ lost \in [Keys -> Nat] /\ store' = store
    BY <1>1 DEF TypeOK, Crash
<1>5. paid' \in [Keys -> Nat] /\ lost' \in [Keys -> Nat]
    BY <1>3, <1>4
<1>6. ASSUME NEW k \in Keys
      PROVE  \/ paid'[k] = paid[k] /\ lost'[k] = lost[k] + (IF flight[p][k].st = "answered" THEN 1 ELSE 0)
             \/ paid'[k] = paid[k] + 1 /\ lost'[k] = lost[k] + 1 /\ flight[p][k].st \in Unpaid
    <2>1. paid[k] \in Nat /\ lost[k] \in Nat
        BY <1>4
    <2>2. CASE k \in charged
        BY <1>3, <2>1, <2>2 DEF Unpaid
    <2>3. CASE k \notin charged
        BY <1>3, <2>1, <2>3
    <2> QED BY <2>2, <2>3
<1> QED BY <1>2, <1>4, <1>5, <1>6

LEMMA TypedPreserved == Typed /\ [Next]_vars => Typed'
<1> SUFFICES ASSUME Typed, [Next]_vars PROVE Typed'
    OBVIOUS
<1> DEFINE Told == Keys \cup {"none"}
           Rest == /\ funded' \in BOOLEAN /\ store' \in [Keys -> Answers \cup {"none"}]
                   /\ credits' \in [Procs -> BOOLEAN]
                   /\ ask' \in [Callers -> [key : Keys \cup {"none"}, answer : Answers \cup {"none", "error"}]]
                   /\ paid' \in [Keys -> Nat] /\ lost' \in [Keys -> Nat]
           Flying == /\ flight' \in Flights
                     /\ \A o \in Procs, m \in Lanes : flight'[o][m].st = "answered" => flight'[o][m].answer \in Answers
<1>1. TypeOK /\ \A o \in Procs, m \in Lanes : flight[o][m] \in Call /\ (flight[o][m].st = "answered" => flight[o][m].answer \in Answers)
    BY DEF Typed, TypeOK, Call
<1>2. Rest /\ Flying => Typed'
    BY DEF Typed, TypeOK, Flights, Call
<1> HIDE DEF Rest, Flying
<1>3. ASSUME NEW p \in Procs, NEW l \in Lanes, Progress(p, l) \/ CallFails(p, l) \/ StoreFails(p, l)
      PROVE  Typed'
    <2>1. Flying
        <3>1. PICK r \in Call : Moves(p, l, r) /\ (r.st = "answered" => r.answer \in Answers)
            <4>9. Unpaid \cup {"none", "starting", "answered", "done"} = FlightStates
                BY DEF Unpaid, FlightStates
            <4>10. \A k \in Keys : Cached(k) \subseteq Answers
                BY <1>1, CachedAnswers
            <4>11. /\ \A st \in FlightStates, a \in Answers \cup {"none", "error"} : [st |-> st, answer |-> a] \in Call
                   /\ flight[p][l].answer \in Answers \cup {"none", "error"}
                BY <1>1 DEF Call
            <4>1. /\ \A k \in Keys : Cached(k) \subseteq Answers
                  /\ \A st \in FlightStates, a \in Answers \cup {"none", "error"} : [st |-> st, answer |-> a] \in Call
                  /\ flight[p][l].answer \in Answers \cup {"none", "error"} /\ NoFlight \in Call
                  /\ Unpaid \cup {"none", "starting", "answered", "done"} = FlightStates
                BY <4>9, <4>10, <4>11 DEF NoFlight
            <4>2. CASE l \in Keys /\ ReadHit(p, l)
                <5>1. PICK a \in Cached(l) : Moves(p, l, [st |-> "done", answer |-> a])
                    BY <4>2, StepMoves
                <5>2. [st |-> "done", answer |-> a] \in Call
                    BY <4>1, <4>2
                <5> QED BY <5>1, <5>2
            <4>3. CASE l \in Keys /\ ReadMiss(p, l)
                <5>1. Moves(p, l, [st |-> "limited", answer |-> flight[p][l].answer])
                    BY <4>3, StepMoves
                <5>2. [st |-> "limited", answer |-> flight[p][l].answer] \in Call
                    BY <4>1 DEF Unpaid
                <5> QED BY <5>1, <5>2
            <4>4. CASE Acquire(p, l) \/ Exhausted(p, l) \/ Retry(p, l)
                <5>1. PICK st \in Unpaid : Moves(p, l, [st |-> st, answer |-> flight[p][l].answer])
                    BY <4>4, StepMoves
                <5>2. [st |-> st, answer |-> flight[p][l].answer] \in Call /\ st # "answered"
                    BY <4>1 DEF Unpaid
                <5> QED BY <5>1, <5>2
            <4>5. CASE \E a \in Answers : Answer(p, l, a)
                <5>1. PICK a \in Answers : Moves(p, l, [st |-> "answered", answer |-> a])
                    BY <4>5, StepMoves
                <5>2. [st |-> "answered", answer |-> a] \in Call
                    BY <4>1
                <5> QED BY <5>1, <5>2
            <4>6. CASE StoreCall(p, l)
                <5>1. Moves(p, l, [st |-> "done", answer |-> flight[p][l].answer])
                    BY <4>6, StepMoves
                <5>2. [st |-> "done", answer |-> flight[p][l].answer] \in Call
                    BY <4>1
                <5> QED BY <5>1, <5>2
            <4>7. CASE CallFails(p, l) \/ StoreFails(p, l)
                <5>1. Moves(p, l, [st |-> "done", answer |-> "error"])
                    BY <4>7, StepMoves
                <5>2. [st |-> "done", answer |-> "error"] \in Call
                    BY <4>1
                <5> QED BY <5>1, <5>2
            <4>8. CASE Land(p, l)
                BY <4>1, <4>8, StepMoves DEF NoFlight
            <4> QED BY <1>3, <4>2, <4>3, <4>4, <4>5, <4>6, <4>7, <4>8 DEF Progress
        <3> QED BY <3>1, MovesKeep DEF Flying
    <2>2. Rest
        <3>1. credits' \in [Procs -> BOOLEAN] /\ funded' = funded
            BY <1>1, <1>3 DEF Progress, ReadHit, ReadMiss, Acquire, Answer, Exhausted, Retry, StoreCall, Land,
                              CallFails, StoreFails, TypeOK
        <3>2. paid' \in [Keys -> Nat] /\ lost' \in [Keys -> Nat]
            <4>1. paid \in [Keys -> Nat] /\ lost \in [Keys -> Nat]
                BY <1>1 DEF TypeOK
            <4>2. CASE \E a \in Answers : Answer(p, l, a)
                BY <4>1, <4>2 DEF Answer
            <4>3. CASE StoreFails(p, l)
                BY <4>1, <4>3 DEF StoreFails
            <4>4. CASE paid' = paid /\ lost' = lost
                BY <4>1, <4>4
            <4> QED BY <1>3, <4>2, <4>3, <4>4 DEF Progress, ReadHit, ReadMiss, Acquire, Exhausted, Retry, StoreCall,
                                                  Land, CallFails
        <3>3. store' \in [Keys -> Answers \cup {"none"}]
            BY <1>1, <1>3 DEF Progress, ReadHit, ReadMiss, Acquire, Answer, Exhausted, Retry, StoreCall, Land,
                              CallFails, StoreFails, TypeOK
        <3>4. ask' \in [Callers -> [key : Keys \cup {"none"}, answer : Answers \cup {"none", "error"}]]
            <4>1. CASE Land(p, l)
                BY <1>1, <4>1 DEF Land, TypeOK, Call
            <4>2. CASE ~Land(p, l)
                BY <1>1, <1>3, <4>2 DEF Progress, ReadHit, ReadMiss, Acquire, Answer, Exhausted, Retry,
                                        StoreCall, CallFails, StoreFails, TypeOK
            <4> QED BY <4>1, <4>2
        <3> QED BY <1>1, <3>1, <3>2, <3>3, <3>4 DEF Rest, TypeOK
    <2> QED BY <1>2, <2>1, <2>2
<1>4. ASSUME NEW c \in Callers, NEW k \in Keys, Ask(c, k) PROVE Typed'
    <2>1. Flying
        <3>1. CASE flight' = flight
            BY <1>1, <3>1 DEF Flying, TypeOK, Flights, Call
        <3>2. CASE Moves(Home[c], k, [st |-> "starting", answer |-> flight[Home[c]][k].answer])
            <4>1. Home[c] \in Procs /\ k \in Lanes
                BY <1>4, AskMoves
            <4>2. [st |-> "starting", answer |-> flight[Home[c]][k].answer] \in Call
                BY <1>1, <4>1 DEF Call, FlightStates
            <4> QED BY <3>2, <4>1, <4>2, MovesKeep DEF Flying
        <3> QED BY <1>4, <3>1, <3>2, AskMoves
    <2>2. Rest
        BY <1>1, <1>4 DEF Ask, Rest, TypeOK
    <2> QED BY <1>2, <2>1, <2>2
<1>5. ASSUME NEW p \in Procs, StartDrift(p) \/ CancelDrift(p) PROVE Typed'
    <2>1. Flying
        <3>1. PICK r \in Call : Moves(p, Drift, r) /\ r.st # "answered"
            <4>1. /\ [st |-> "limited", answer |-> flight[p][Drift].answer] \in Call
                  /\ NoFlight \in Call /\ NoFlight.st # "answered"
                BY <1>1 DEF Call, FlightStates, NoFlight, Lanes
            <4> QED BY <1>5, <4>1, DriftMoves
        <3>2. Drift \in Lanes
            BY DEF Lanes
        <3> QED BY <3>1, <3>2, MovesKeep DEF Flying
    <2>2. Rest
        BY <1>1, <1>5 DEF StartDrift, CancelDrift, Rest, TypeOK
    <2> QED BY <1>2, <2>1, <2>2
<1>6. ASSUME NEW p \in Procs, Crash(p) PROVE Typed'
    <2>1. Flying
        BY <1>1, <1>6, CrashEffect DEF Flying, NoFlight
    <2>2. Rest
        <3>1. credits' \in [Procs -> BOOLEAN] /\ funded' = funded /\ store' = store
            BY <1>1, <1>6 DEF Crash, TypeOK
        <3>2. ask' \in [Callers -> [key : Keys \cup {"none"}, answer : Answers \cup {"none", "error"}]]
            BY <1>1, <1>6 DEF Crash, TypeOK
        <3> QED BY <1>1, <1>6, <3>1, <3>2, CrashEffect DEF Rest, TypeOK
    <2> QED BY <1>2, <2>1, <2>2
<1>7. CASE (\E c \in Callers : CancelAsk(c)) \/ RunOut \/ TopUp \/ UNCHANGED vars
    <2>1. Flying
        BY <1>1, <1>7 DEF CancelAsk, RunOut, TopUp, vars, Flying, TypeOK, Flights, Call
    <2>2. Rest
        <3>1. CASE \E c \in Callers : CancelAsk(c)
            BY <1>1, <3>1 DEF CancelAsk, Rest, TypeOK
        <3>2. CASE RunOut \/ TopUp \/ UNCHANGED vars
            BY <1>1, <3>2 DEF RunOut, TopUp, vars, Rest, TypeOK
        <3> QED BY <1>7, <3>1, <3>2
    <2> QED BY <1>2, <2>1, <2>2
<1> QED BY <1>3, <1>4, <1>5, <1>6, <1>7 DEF Next

(* Calls, answers and callers stay in the states the code knows. *)
THEOREM JevTypeCorrect == Spec => []TypeOK
<1>1. Typed => TypeOK
    BY DEF Typed
<1> QED BY <1>1, InitTyped, TypedPreserved, PTL DEF Spec

-----------------------------------------------------------------------------
(* What has been paid for. *)

(* Processes past the cache that have not paid for k, and those that hold an   *)
(* answer they have not stored.  Once k is stored nobody joins the first.      *)
Paying(k) == {p \in Procs : Kind(flight[p][k].st) = "unpaid"}
Holding(k) == {p \in Procs : Kind(flight[p][k].st) = "answered"}
Counted(k) ==
    /\ paid[k] + Cardinality(Paying(k)) <= Cardinality(Procs) + lost[k]
    /\ store[k] = "none" => paid[k] = lost[k] + Cardinality(Holding(k))

LEMMA KindCases ==
    ASSUME NEW st
    PROVE  /\ Kind(st) = "unpaid" <=> st \in Unpaid
           /\ Kind(st) = "answered" <=> st = "answered"
           /\ Kind(st) \in {"unpaid", "answered", "other"}
BY DEF Kind, Unpaid

LEMMA CountsFinite ==
    ASSUME NEW S \in SUBSET Procs
    PROVE  IsFiniteSet(S) /\ Cardinality(S) \in Nat /\ Cardinality(S) <= Cardinality(Procs) /\ Cardinality(Procs) \in Nat
BY JevAssumption, FS_Subset, FS_CardinalityType

(* The sets when one flight for k changes, and all others keep their kind. *)
LEMMA OneFlight ==
    ASSUME NEW k, NEW p \in Procs,
           \A o \in Procs : o # p => Kind(flight'[o][k].st) = Kind(flight[o][k].st)
    PROVE  LET before == Kind(flight[p][k].st)  after == Kind(flight'[p][k].st) IN
           /\ after = "unpaid" => Paying(k)' = Paying(k) \cup {p}
           /\ after # "unpaid" => Paying(k)' = Paying(k) \ {p}
           /\ after = "answered" => Holding(k)' = Holding(k) \cup {p}
           /\ after # "answered" => Holding(k)' = Holding(k) \ {p}
           /\ before = "unpaid" <=> p \in Paying(k)
           /\ before = "answered" <=> p \in Holding(k)
BY DEF Paying, Holding

(* How much the sets hold then. *)
LEMMA OneFlightCounts ==
    ASSUME NEW k, NEW p \in Procs,
           \A o \in Procs : o # p => Kind(flight'[o][k].st) = Kind(flight[o][k].st)
    PROVE  LET before == Kind(flight[p][k].st)
               after == Kind(flight'[p][k].st)
               one(b) == IF b THEN 1 ELSE 0
           IN  /\ Cardinality(Paying(k)') = Cardinality(Paying(k)) + one(after = "unpaid") - one(before = "unpaid")
               /\ Cardinality(Holding(k)') = Cardinality(Holding(k)) + one(after = "answered") - one(before = "answered")
<1> DEFINE before == Kind(flight[p][k].st)
           after == Kind(flight'[p][k].st)
           one(b) == IF b THEN 1 ELSE 0
           A == Paying(k)
           B == Holding(k)
<1>1. A \in SUBSET Procs /\ B \in SUBSET Procs
    BY DEF Paying, Holding
<1>2. IsFiniteSet(A) /\ IsFiniteSet(B) /\ Cardinality(A) \in Nat /\ Cardinality(B) \in Nat
    BY <1>1, CountsFinite
<1>3. ASSUME NEW S, IsFiniteSet(S)
      PROVE  /\ Cardinality(S \cup {p}) = Cardinality(S) + 1 - one(p \in S)
             /\ Cardinality(S \ {p}) = Cardinality(S) - one(p \in S)
    BY <1>3, FS_AddElement, FS_RemoveElement, FS_CardinalityType
<1>4. /\ after = "unpaid" => A' = A \cup {p}
      /\ after # "unpaid" => A' = A \ {p}
      /\ after = "answered" => B' = B \cup {p}
      /\ after # "answered" => B' = B \ {p}
      /\ before = "unpaid" <=> p \in A
      /\ before = "answered" <=> p \in B
    BY OneFlight
<1> HIDE DEF A, B
<1>7. Cardinality(A \cup {p}) = Cardinality(A) + 1 - one(p \in A) /\ Cardinality(A \ {p}) = Cardinality(A) - one(p \in A)
    BY <1>2, <1>3
<1>5. Cardinality(A') = Cardinality(A) + one(after = "unpaid") - one(before = "unpaid")
    <2>1. CASE after = "unpaid"
        BY <1>2, <1>4, <1>7, <2>1
    <2>2. CASE after # "unpaid"
        <3>1. A' = A \ {p}
            BY <1>4, <2>2
        <3>2. CASE p \in A
            <4>1. Cardinality(A \ {p}) = Cardinality(A) - 1 /\ before = "unpaid"
                BY <1>4, <1>7, <3>2
            <4> QED BY <1>2, <2>2, <3>1, <4>1
        <3>3. CASE p \notin A
            <4>1. Cardinality(A \ {p}) = Cardinality(A) /\ before # "unpaid"
                BY <1>2, <1>4, <1>7, <3>3
            <4> QED BY <1>2, <2>2, <3>1, <4>1
        <3> QED BY <3>2, <3>3
    <2> QED BY <2>1, <2>2
<1>6. Cardinality(B') = Cardinality(B) + one(after = "answered") - one(before = "answered")
    BY <1>2, <1>3, <1>4
<1> QED BY <1>5, <1>6 DEF A, B

(* A step that leaves the answers and their count alone, and whose flight for *)
(* k at most gives up, keeps the count.                                       *)
LEMMA QuietCounted ==
    ASSUME Typed, NEW k \in Keys, Counted(k), NEW p \in Procs,
           \A o \in Procs : o # p => Kind(flight'[o][k].st) = Kind(flight[o][k].st),
           \/ Kind(flight'[p][k].st) = Kind(flight[p][k].st)
           \/ Kind(flight[p][k].st) = "unpaid" /\ Kind(flight'[p][k].st) = "other",
           store'[k] = store[k], paid'[k] = paid[k], lost'[k] = lost[k]
    PROVE  Counted(k)'
<1>1. Paying(k) \in SUBSET Procs /\ Holding(k) \in SUBSET Procs /\ paid[k] \in Nat /\ lost[k] \in Nat
    BY DEF Paying, Holding, Typed, TypeOK
<1>2. Cardinality(Paying(k)) \in Nat /\ Cardinality(Holding(k)) \in Nat /\ Cardinality(Procs) \in Nat
    BY <1>1, CountsFinite
<1>3. \/ Cardinality(Paying(k)') = Cardinality(Paying(k))
      \/ Cardinality(Paying(k)') = Cardinality(Paying(k)) - 1
    BY <1>2, OneFlightCounts
<1>4. Cardinality(Holding(k)') = Cardinality(Holding(k))
    BY <1>2, OneFlightCounts
<1> QED BY <1>1, <1>2, <1>3, <1>4 DEF Counted

(* A step of a flight for k. *)
LEMMA FlightCounted ==
    ASSUME Typed, NEW k \in Keys, Counted(k), NEW p \in Procs,
           Progress(p, k) \/ CallFails(p, k) \/ StoreFails(p, k)
    PROVE  Counted(k)'
<1> DEFINE before == Kind(flight[p][k].st)
           after == Kind(flight'[p][k].st)
           P == Cardinality(Paying(k))
           H == Cardinality(Holding(k))
           N == Cardinality(Procs)
<1>1. /\ TypeOK /\ k \in Lanes /\ paid[k] \in Nat /\ lost[k] \in Nat
      /\ store \in [Keys -> Answers \cup {"none"}] /\ paid \in [Keys -> Nat] /\ lost \in [Keys -> Nat]
    BY DEF Lanes, Typed, TypeOK
<1>2. Paying(k) \in SUBSET Procs /\ Holding(k) \in SUBSET Procs
    BY DEF Paying, Holding
<1>3. P \in Nat /\ H \in Nat /\ N \in Nat
    BY <1>2, CountsFinite
<1>4. paid[k] + P <= N + lost[k] /\ (store[k] = "none" => paid[k] = lost[k] + H)
    BY DEF Counted
<1>5. ASSUME NEW r, Moves(p, k, r)
      PROVE  /\ flight'[p][k] = r
             /\ \A o \in Procs : o # p => Kind(flight'[o][k].st) = Kind(flight[o][k].st)
    BY <1>1, <1>5 DEF Moves, Kind, Unpaid
<1>6. ASSUME \A o \in Procs : o # p => Kind(flight'[o][k].st) = Kind(flight[o][k].st)
      PROVE  /\ after = "unpaid" /\ before = "other" =>
                  Cardinality(Paying(k)') = P + 1 /\ Cardinality(Holding(k)') = H
             /\ after = "answered" /\ before = "unpaid" =>
                  Cardinality(Paying(k)') = P - 1 /\ Cardinality(Holding(k)') = H + 1
             /\ after = "other" /\ before = "answered" =>
                  Cardinality(Paying(k)') = P /\ Cardinality(Holding(k)') = H - 1
    BY <1>3, <1>6, OneFlightCounts
<1>7. CASE ReadHit(p, k)
    <2>1. PICK a : Moves(p, k, [st |-> "done", answer |-> a])
        BY <1>1, <1>7, StepMoves
    <2>2. before = "other" /\ after = "other"
        BY <1>5, <1>7, <2>1 DEF ReadHit, Kind, Unpaid
    <2> QED BY <1>5, <1>7, <2>1, <2>2, QuietCounted DEF ReadHit
<1>8. CASE ReadMiss(p, k)
    <2>1. Moves(p, k, [st |-> "limited", answer |-> flight[p][k].answer])
        BY <1>1, <1>8, StepMoves
    <2>2. before = "other" /\ after = "unpaid"
        BY <1>5, <1>8, <2>1 DEF ReadMiss, Kind, Unpaid
    <2>3. Cardinality(Paying(k)') = P + 1 /\ Cardinality(Holding(k)') = H
        BY <1>5, <1>6, <2>1, <2>2
    <2>4. store[k] = "none" /\ store' = store /\ paid' = paid /\ lost' = lost
        BY <1>8 DEF ReadMiss, MayMiss
    <2>5. P + H + 1 <= N
        <3>1. p \notin Paying(k) /\ p \notin Holding(k) /\ Paying(k) \cap Holding(k) = {}
            BY <2>2 DEF Paying, Holding
        <3> DEFINE both == Paying(k) \cup Holding(k)
        <3>2. Cardinality(both) = P + H /\ IsFiniteSet(both)
            <4>1. IsFiniteSet(Paying(k)) /\ IsFiniteSet(Holding(k))
                BY <1>2, CountsFinite
            <4>2. Cardinality(both) = P + H - Cardinality(Paying(k) \cap Holding(k)) /\ IsFiniteSet(both)
                BY <4>1, FS_Union
            <4> QED BY <1>3, <3>1, <4>2, FS_EmptySet
        <3>3. Cardinality(both \cup {p}) = P + H + 1
            BY <3>1, <3>2, FS_AddElement
        <3>4. both \cup {p} \in SUBSET Procs
            BY <1>2
        <3> HIDE DEF both, P, H, N
        <3>5. Cardinality(both \cup {p}) <= Cardinality(Procs)
            BY <3>4, CountsFinite
        <3> QED BY <3>3, <3>5 DEF N
    <2> HIDE DEF P, H, N
    <2> QED BY <1>1, <1>3, <1>4, <2>3, <2>4, <2>5 DEF Counted, N
<1>9. CASE Acquire(p, k) \/ Exhausted(p, k) \/ Retry(p, k)
    <2>1. PICK st \in Unpaid : Moves(p, k, [st |-> st, answer |-> flight[p][k].answer])
        BY <1>1, <1>9, StepMoves
    <2>2. before = "unpaid" /\ after = "unpaid"
        <3>1. flight[p][k].st \in Unpaid /\ flight'[p][k].st \in Unpaid
            BY <1>5, <1>9, <2>1 DEF Acquire, Exhausted, Retry, Unpaid
        <3> QED BY <3>1, KindCases
    <2>3. store' = store /\ paid' = paid /\ lost' = lost
        BY <1>9 DEF Acquire, Exhausted, Retry
    <2> QED BY <1>5, <2>1, <2>2, <2>3, QuietCounted
<1>10. CASE \E a \in Answers : Answer(p, k, a)
    <2>1. PICK a \in Answers : Answer(p, k, a)
        BY <1>10
    <2>2. Moves(p, k, [st |-> "answered", answer |-> a])
        BY <1>1, <2>1, StepMoves
    <2>3. before = "unpaid" /\ after = "answered"
        <3>1. flight[p][k].st \in Unpaid
            BY <2>1 DEF Answer, Unpaid
        <3>2. flight'[p][k].st = "answered"
            BY <1>5, <2>2
        <3> QED BY <3>1, <3>2, KindCases
    <2>4. Cardinality(Paying(k)') = P - 1 /\ Cardinality(Holding(k)') = H + 1
        BY <1>5, <1>6, <2>2, <2>3
    <2>5. store' = store /\ paid'[k] = paid[k] + 1 /\ lost' = lost
        BY <1>1, <2>1 DEF Answer
    <2> HIDE DEF P, H, N
    <2> QED BY <1>1, <1>3, <1>4, <2>4, <2>5 DEF Counted, N
<1>11. CASE StoreCall(p, k)
    <2>1. Moves(p, k, [st |-> "done", answer |-> flight[p][k].answer])
        BY <1>1, <1>11, StepMoves
    <2>2. before = "answered" /\ after = "other"
        BY <1>5, <1>11, <2>1 DEF StoreCall, Kind, Unpaid
    <2>3. Cardinality(Paying(k)') = P /\ Cardinality(Holding(k)') = H - 1
        BY <1>5, <1>6, <2>1, <2>2
    <2>4. store'[k] # "none" /\ paid' = paid /\ lost' = lost
        <3>1. store'[k] = flight[p][k].answer /\ flight[p][k].st = "answered"
            BY <1>1, <1>11 DEF StoreCall
        <3>2. flight[p][k].answer \in Answers
            BY <1>1, <3>1 DEF Typed
        <3> QED BY <1>11, <3>1, <3>2 DEF StoreCall, Answers, Valid
    <2> HIDE DEF P, H, N
    <2> QED BY <1>1, <1>3, <1>4, <2>3, <2>4 DEF Counted, N
<1>12. CASE CallFails(p, k)
    <2>1. Moves(p, k, [st |-> "done", answer |-> "error"])
        BY <1>1, <1>12, StepMoves
    <2>2. before = "unpaid" /\ after = "other"
        <3>1. flight[p][k].st \in Unpaid
            BY <1>12 DEF CallFails, Unpaid
        <3>2. flight'[p][k].st = "done" /\ "done" \notin Unpaid
            BY <1>5, <2>1 DEF Unpaid
        <3> QED BY <3>1, <3>2, KindCases
    <2> QED BY <1>5, <1>12, <2>1, <2>2, QuietCounted DEF CallFails
<1>13. CASE StoreFails(p, k)
    <2>1. Moves(p, k, [st |-> "done", answer |-> "error"])
        BY <1>1, <1>13, StepMoves
    <2>2. before = "answered" /\ after = "other"
        BY <1>5, <1>13, <2>1 DEF StoreFails, Kind, Unpaid
    <2>3. Cardinality(Paying(k)') = P /\ Cardinality(Holding(k)') = H - 1
        BY <1>5, <1>6, <2>1, <2>2
    <2>4. store' = store /\ paid' = paid /\ lost'[k] = lost[k] + 1
        BY <1>1, <1>13 DEF StoreFails
    <2> HIDE DEF P, H, N
    <2> QED BY <1>1, <1>3, <1>4, <2>3, <2>4 DEF Counted, N
<1>14. CASE Land(p, k)
    <2>1. Moves(p, k, NoFlight)
        BY <1>1, <1>14, StepMoves
    <2>2. before = "other" /\ after = "other"
        BY <1>5, <1>14, <2>1 DEF Land, Kind, Unpaid, NoFlight
    <2> QED BY <1>5, <1>14, <2>1, <2>2, QuietCounted DEF Land
<1> QED BY <1>7, <1>8, <1>9, <1>10, <1>11, <1>12, <1>13, <1>14 DEF Progress

(* A step that is not of a flight for k. *)
LEMMA OthersCounted ==
    ASSUME Typed, NEW k \in Keys, Counted(k),
           \A o \in Procs : Kind(flight'[o][k].st) = Kind(flight[o][k].st),
           store'[k] = store[k], paid'[k] = paid[k], lost'[k] = lost[k]
    PROVE  Counted(k)'
<1>1. Paying(k)' = Paying(k) /\ Holding(k)' = Holding(k)
    BY DEF Paying, Holding
<1> QED BY <1>1 DEF Counted

(* A process that dies takes its answer for k with it, or one on its way. *)
LEMMA CrashCounted ==
    ASSUME Typed, NEW k \in Keys, Counted(k), NEW p \in Procs, Crash(p)
    PROVE  Counted(k)'
<1> DEFINE P == Cardinality(Paying(k))
           H == Cardinality(Holding(k))
           N == Cardinality(Procs)
<1>1. k \in Lanes /\ paid[k] \in Nat /\ lost[k] \in Nat /\ store' = store
    BY CrashEffect DEF Lanes, Typed, TypeOK
<1>2. Paying(k) \in SUBSET Procs /\ Holding(k) \in SUBSET Procs
    BY DEF Paying, Holding
<1>3. P \in Nat /\ H \in Nat /\ N \in Nat
    BY <1>2, CountsFinite
<1>4. paid[k] + P <= N + lost[k] /\ (store[k] = "none" => paid[k] = lost[k] + H)
    BY DEF Counted
<1>5. /\ \A o \in Procs : o # p => Kind(flight'[o][k].st) = Kind(flight[o][k].st)
      /\ flight'[p][k].st = "none"
    BY <1>1, CrashEffect DEF NoFlight
<1>6. Kind(flight'[p][k].st) = "other"
    BY <1>5 DEF Kind, Unpaid
<1>7. CASE paid'[k] = paid[k] + 1 /\ lost'[k] = lost[k] + 1 /\ flight[p][k].st \in Unpaid
    <2>1. Kind(flight[p][k].st) = "unpaid"
        BY <1>7, KindCases
    <2>2. Cardinality(Paying(k)') = P - 1 /\ Cardinality(Holding(k)') = H
        BY <1>3, <1>5, <1>6, <2>1, OneFlightCounts
    <2> HIDE DEF P, H, N
    <2> QED BY <1>1, <1>3, <1>4, <1>7, <2>2 DEF Counted, N
<1>8. CASE paid'[k] = paid[k] /\ lost'[k] = lost[k] + (IF flight[p][k].st = "answered" THEN 1 ELSE 0)
    <2>1. CASE flight[p][k].st = "answered"
        <3>1. Kind(flight[p][k].st) = "answered"
            BY <2>1, KindCases
        <3>2. Cardinality(Paying(k)') = P /\ Cardinality(Holding(k)') = H - 1
            BY <1>3, <1>5, <1>6, <3>1, OneFlightCounts
        <3> HIDE DEF P, H, N
        <3> QED BY <1>1, <1>3, <1>4, <1>8, <2>1, <3>2 DEF Counted, N
    <2>2. CASE flight[p][k].st # "answered"
        <3>1. lost'[k] = lost[k]
            BY <1>1, <1>8, <2>2
        <3>2. Kind(flight[p][k].st) \in {"unpaid", "other"}
            BY <2>2, KindCases
        <3> QED BY <1>1, <1>5, <1>6, <1>8, <3>1, <3>2, QuietCounted
    <2> QED BY <2>1, <2>2
<1>9. \/ paid'[k] = paid[k] /\ lost'[k] = lost[k] + (IF flight[p][k].st = "answered" THEN 1 ELSE 0)
      \/ paid'[k] = paid[k] + 1 /\ lost'[k] = lost[k] + 1 /\ flight[p][k].st \in Unpaid
    BY CrashEffect
<1> QED BY <1>7, <1>8, <1>9

(* The rows and counts another lane's step leaves alone. *)
LEMMA OtherLanes ==
    ASSUME Typed, NEW k \in Keys, NEW p \in Procs, NEW l \in Lanes, l # k,
           Progress(p, l) \/ CallFails(p, l) \/ StoreFails(p, l)
    PROVE  /\ \A o \in Procs : Kind(flight'[o][k].st) = Kind(flight[o][k].st)
           /\ store'[k] = store[k] /\ paid'[k] = paid[k] /\ lost'[k] = lost[k]
<1>1. k \in Lanes /\ TypeOK
    BY DEF Lanes, Typed
<1>2. store'[k] = store[k] /\ paid'[k] = paid[k] /\ lost'[k] = lost[k]
    <2>2. CASE \E a \in Answers : Answer(p, l, a)
        BY <1>1, <2>2 DEF Answer, TypeOK
    <2>3. CASE StoreCall(p, l)
        BY <1>1, <2>3 DEF StoreCall, TypeOK
    <2>4. CASE StoreFails(p, l)
        BY <1>1, <2>4 DEF StoreFails, TypeOK
    <2>5. CASE \/ ReadHit(p, l) \/ ReadMiss(p, l) \/ Acquire(p, l) \/ Exhausted(p, l)
               \/ Retry(p, l) \/ Land(p, l) \/ CallFails(p, l)
        BY <2>5 DEF ReadHit, ReadMiss, Acquire, Exhausted, Retry, Land, CallFails
    <2> QED BY <2>2, <2>3, <2>4, <2>5 DEF Progress
<1>3. ASSUME NEW o \in Procs PROVE Kind(flight'[o][k].st) = Kind(flight[o][k].st)
    <2>1. PICK r : Moves(p, l, r)
        BY <1>1, StepMoves DEF Progress
    <2>2. \/ flight'[o][k] = flight[o][k]
          \/ flight[o][k].st = "credit" /\ flight'[o][k].st = "calling"
        BY <1>1, <2>1 DEF Moves
    <2> QED BY <2>2 DEF Kind, Unpaid
<1> QED BY <1>2, <1>3

LEMMA CountedPreserved ==
    ASSUME Typed, NEW k \in Keys, Counted(k), [Next]_vars
    PROVE  Counted(k)'
<1>1. k \in Lanes /\ Drift # k /\ Drift \in Lanes /\ TypeOK
    BY JevAssumption DEF Lanes, Typed
<1>2. ASSUME NEW p \in Procs, NEW l \in Lanes, Progress(p, l) \/ CallFails(p, l) \/ StoreFails(p, l)
      PROVE  Counted(k)'
    <2>1. CASE l = k
        BY <1>2, <2>1, FlightCounted
    <2>2. CASE l # k
        BY <1>2, <2>2, OtherLanes, OthersCounted
    <2> QED BY <2>1, <2>2
<1>3. ASSUME NEW c \in Callers, NEW j \in Keys, Ask(c, j) PROVE Counted(k)'
    <2>1. store' = store /\ paid' = paid /\ lost' = lost
        BY <1>3 DEF Ask
    <2>2. ASSUME NEW o \in Procs PROVE Kind(flight'[o][k].st) = Kind(flight[o][k].st)
        <3>1. CASE flight' = flight
            BY <3>1
        <3>2. CASE flight' # flight
            <4>1. /\ Home[c] \in Procs /\ flight[Home[c]][j].st = "none"
                  /\ Moves(Home[c], j, [st |-> "starting", answer |-> flight[Home[c]][j].answer])
                BY <1>3, <3>2, AskMoves
            <4>2. CASE o = Home[c] /\ j = k
                BY <4>1, <4>2 DEF Moves, Kind, Unpaid
            <4>3. CASE ~(o = Home[c] /\ j = k)
                BY <1>1, <4>1, <4>3 DEF Moves, Kind, Unpaid
            <4> QED BY <4>2, <4>3
        <3> QED BY <3>1, <3>2
    <2> QED BY <2>1, <2>2, OthersCounted
<1>4. ASSUME NEW p \in Procs, StartDrift(p) \/ CancelDrift(p) PROVE Counted(k)'
    <2>1. store' = store /\ paid' = paid /\ lost' = lost
        BY <1>4 DEF StartDrift, CancelDrift
    <2>2. PICK r : Moves(p, Drift, r)
        BY <1>4, DriftMoves
    <2>3. ASSUME NEW o \in Procs PROVE Kind(flight'[o][k].st) = Kind(flight[o][k].st)
        BY <1>1, <2>2 DEF Moves, Kind, Unpaid
    <2> QED BY <2>1, <2>3, OthersCounted
<1>5. ASSUME NEW p \in Procs, Crash(p) PROVE Counted(k)'
    BY <1>5, CrashCounted
<1>6. CASE (\E c \in Callers : CancelAsk(c)) \/ RunOut \/ TopUp \/ UNCHANGED vars
    <2>1. flight' = flight /\ store' = store /\ paid' = paid /\ lost' = lost
        BY <1>6 DEF CancelAsk, RunOut, TopUp, vars
    <2> QED BY <2>1, OthersCounted
<1> QED BY <1>2, <1>3, <1>4, <1>5, <1>6 DEF Next

LEMMA InitCounted == ASSUME Init, NEW k \in Keys PROVE Counted(k)
<1>1. Paying(k) = {} /\ Holding(k) = {}
    BY DEF Init, Paying, Holding, NoFlight, Lanes, Kind, Unpaid
<1>2. Cardinality({}) = 0 /\ Cardinality(Procs) \in Nat
    BY CountsFinite, FS_EmptySet
<1> QED BY <1>1, <1>2 DEF Init, Counted

(* However many processes share the cache, and whatever fails in them, the     *)
(* provider is paid for a key at most once for each process, and once more     *)
(* for each answer that was lost before it could be stored.                    *)
THEOREM PaysOnce == Spec => []PaidOnce
<1> DEFINE Inv == Typed /\ \A k \in Keys : Counted(k)
<1>1. Init => Inv
    BY InitTyped, InitCounted
<1>2. Inv /\ [Next]_vars => Inv'
    BY TypedPreserved, CountedPreserved
<1>3. Inv => PaidOnce
    <2> SUFFICES ASSUME Inv, NEW k \in Keys PROVE paid[k] <= Cardinality(Procs) + lost[k]
        BY DEF PaidOnce
    <2>1. Paying(k) \in SUBSET Procs /\ paid[k] \in Nat /\ lost[k] \in Nat
        BY DEF Paying, Typed, TypeOK
    <2>2. Cardinality(Paying(k)) \in Nat /\ Cardinality(Procs) \in Nat
        BY <2>1, CountsFinite
    <2>3. paid[k] + Cardinality(Paying(k)) <= Cardinality(Procs) + lost[k]
        BY DEF Counted
    <2> QED BY <2>1, <2>2, <2>3
<1> QED BY <1>1, <1>2, <1>3, PTL DEF Spec

-----------------------------------------------------------------------------
(* What callers are told. *)

(* While a call for k may still be paid for or stored, no row for k is there. *)
NothingStored(k) == \A p \in Procs : Kind(flight[p][k].st) \in {"unpaid", "answered"} => store[k] = "none"
Told(k) ==
    \A p \in Procs : flight[p][k].st = "done" /\ flight[p][k].answer # "error"
                       => flight[p][k].answer \in Cached(k)

(* Rows are only added: what k's row or another's said of k stays said, until  *)
(* k gets a row of its own.                                                    *)
LEMMA CachedStays ==
    ASSUME Typed, NEW k \in Keys, NEW p \in Procs, Procs = {p}, \A j \in Keys : NothingStored(j),
           store'[k] = store[k],
           \A j \in Keys : store'[j] # store[j] => Kind(flight[p][j].st) = "answered" /\ store'[j] # "none"
    PROVE  Cached(k) \subseteq Cached(k)'
<1>1. CASE store[k] # "none"
    BY <1>1 DEF Cached
<1>2. CASE store[k] = "none"
    <2>1. ASSUME NEW j \in Keys, store[j] # "none" PROVE store'[j] = store[j]
        BY <2>1 DEF NothingStored
    <2> QED BY <1>2, <2>1 DEF Cached
<1> QED BY <1>1, <1>2

(* The same calls, or calls of the same kind that are not done. *)
LEMMA SameTold ==
    ASSUME Typed, NEW k \in Keys, NEW p \in Procs, Procs = {p}, NothingStored(k), Told(k),
           store'[k] = store[k], Cached(k) \subseteq Cached(k)',
           \/ flight'[p][k] = flight[p][k]
           \/ /\ flight'[p][k].st # "done"
              /\ \/ Kind(flight'[p][k].st) = Kind(flight[p][k].st)
                 \/ Kind(flight'[p][k].st) = "other"
    PROVE  NothingStored(k)' /\ Told(k)'
<1>1. NothingStored(k)'
    BY DEF NothingStored
<1>2. Told(k)'
    BY DEF Told
<1> QED BY <1>1, <1>2

(* A step of a flight for k, when one process asks. *)
LEMMA FlightTold ==
    ASSUME Typed, NEW k \in Keys, NEW p \in Procs, Procs = {p}, NothingStored(k), Told(k),
           Progress(p, k) \/ CallFails(p, k) \/ StoreFails(p, k)
    PROVE  NothingStored(k)' /\ Told(k)'
<1>1. k \in Lanes /\ TypeOK
    BY DEF Lanes, Typed
<1>2. ASSUME NEW r, Moves(p, k, r) PROVE flight'[p][k] = r
    BY <1>2 DEF Moves
<1>3. ASSUME store' = store PROVE Cached(k)' = Cached(k)
    BY <1>3 DEF Cached
<1>4. ASSUME flight'[p][k].st \in {"done", "none"}
      PROVE  NothingStored(k)'
    BY <1>4 DEF NothingStored, Kind, Unpaid
<1>5. CASE ReadHit(p, k)
    <2>1. PICK a \in Cached(k) : Moves(p, k, [st |-> "done", answer |-> a])
        BY <1>1, <1>5, StepMoves
    <2>2. flight'[p][k].st = "done" /\ flight'[p][k].answer \in Cached(k)
        BY <1>2, <2>1
    <2>3. store' = store
        BY <1>5 DEF ReadHit
    <2> QED BY <1>3, <1>4, <2>2, <2>3 DEF Told
<1>6. CASE ReadMiss(p, k)
    <2>1. Moves(p, k, [st |-> "limited", answer |-> flight[p][k].answer])
        BY <1>1, <1>6, StepMoves
    <2>2. flight'[p][k].st = "limited" /\ store'[k] = "none"
        BY <1>2, <1>6, <2>1 DEF ReadMiss, MayMiss
    <2> QED BY <2>2 DEF NothingStored, Told
<1>7. CASE Acquire(p, k) \/ Exhausted(p, k) \/ Retry(p, k)
    <2>1. PICK st \in Unpaid : Moves(p, k, [st |-> st, answer |-> flight[p][k].answer])
        BY <1>1, <1>7, StepMoves
    <2>2. flight[p][k].st \in Unpaid /\ flight'[p][k].st \in Unpaid
        BY <1>2, <1>7, <2>1 DEF Acquire, Exhausted, Retry, Unpaid
    <2>3. /\ Kind(flight[p][k].st) = "unpaid" /\ Kind(flight'[p][k].st) = "unpaid"
          /\ flight'[p][k].st # "done"
        BY <2>2, KindCases DEF Unpaid
    <2>4. store' = store
        BY <1>7 DEF Acquire, Exhausted, Retry
    <2> QED BY <1>3, <2>3, <2>4, SameTold
<1>8. CASE \E a \in Answers : Answer(p, k, a)
    <2>1. PICK a \in Answers : Answer(p, k, a)
        BY <1>8
    <2>2. Moves(p, k, [st |-> "answered", answer |-> a])
        BY <1>1, <2>1, StepMoves
    <2>3. flight[p][k].st \in Unpaid /\ store' = store
        BY <2>1 DEF Answer, Unpaid
    <2>5. flight'[p][k].st = "answered"
        BY <1>2, <2>2
    <2>4. store'[k] = "none"
        BY <2>3, KindCases DEF NothingStored
    <2> QED BY <2>4, <2>5 DEF NothingStored, Told
<1>9. CASE StoreCall(p, k)
    <2>1. Moves(p, k, [st |-> "done", answer |-> flight[p][k].answer])
        BY <1>1, <1>9, StepMoves
    <2>2. flight'[p][k].st = "done" /\ flight'[p][k].answer = flight[p][k].answer
        BY <1>2, <2>1
    <2>3. store'[k] = flight[p][k].answer /\ flight[p][k].st = "answered"
        BY <1>1, <1>9 DEF StoreCall, TypeOK
    <2>4. flight[p][k].answer \in Answers
        BY <1>1, <2>3 DEF Typed
    <2>5. store'[k] # "none" /\ Cached(k)' = {store'[k]}
        BY <2>3, <2>4 DEF Cached, Answers, Valid
    <2>6. Told(k)'
        BY <2>2, <2>3, <2>5 DEF Told
    <2> QED BY <1>4, <2>2, <2>6
<1>10. CASE CallFails(p, k) \/ StoreFails(p, k)
    <2>1. Moves(p, k, [st |-> "done", answer |-> "error"])
        BY <1>1, <1>10, StepMoves
    <2>2. flight'[p][k].st = "done" /\ flight'[p][k].answer = "error"
        BY <1>2, <2>1
    <2> QED BY <1>4, <2>2 DEF Told
<1>11. CASE Land(p, k)
    <2>1. Moves(p, k, NoFlight)
        BY <1>1, <1>11, StepMoves
    <2>2. flight'[p][k].st = "none"
        BY <1>2, <2>1 DEF NoFlight
    <2> QED BY <1>4, <2>2 DEF Told
<1> QED BY <1>5, <1>6, <1>7, <1>8, <1>9, <1>10, <1>11 DEF Progress

LEMMA ToldPreserved ==
    ASSUME NEW p \in Procs, Procs = {p}, Typed, \A j \in Keys : NothingStored(j) /\ Told(j), [Next]_vars,
           NEW k \in Keys
    PROVE  NothingStored(k)' /\ Told(k)'
<1>1. k \in Lanes /\ Drift # k /\ Drift \in Lanes /\ TypeOK
    BY JevAssumption DEF Lanes, Typed
<1>2. ASSUME NEW l \in Lanes, l # k, NEW r, Moves(p, l, r)
      PROVE  \/ flight'[p][k] = flight[p][k]
             \/ flight'[p][k].st # "done" /\ Kind(flight'[p][k].st) = Kind(flight[p][k].st)
    BY <1>1, <1>2 DEF Moves, Kind, Unpaid
<1>3. ASSUME store' = store PROVE Cached(k) \subseteq Cached(k)'
    BY <1>3 DEF Cached
<1>4. ASSUME NEW l \in Lanes, Progress(p, l) \/ CallFails(p, l) \/ StoreFails(p, l)
      PROVE  NothingStored(k)' /\ Told(k)'
    <2>1. CASE l = k
        BY <1>4, <2>1, FlightTold
    <2>2. CASE l # k
        <3>1. PICK r : Moves(p, l, r)
            BY <1>1, <1>4, StepMoves DEF Progress
        <3>2. store'[k] = store[k]
            BY <1>4, <2>2, OtherLanes
        <3>3. ASSUME NEW j \in Keys, store'[j] # store[j]
              PROVE  Kind(flight[p][j].st) = "answered" /\ store'[j] # "none"
            <4>1. j \in Lanes
                BY DEF Lanes
            <4>2. l = j
                BY <1>4, <3>3, <4>1, OtherLanes
            <4>3. StoreCall(p, j)
                BY <1>4, <3>3, <4>2 DEF Progress, ReadHit, ReadMiss, Acquire, Answer, Exhausted, Retry, Land, CallFails, StoreFails
            <4>4. store'[j] = flight[p][j].answer /\ flight[p][j].st = "answered"
                BY <1>1, <4>3 DEF StoreCall, TypeOK
            <4>5. flight[p][j].answer \in Answers
                BY <4>1, <4>4 DEF Typed
            <4> QED BY <4>4, <4>5, KindCases DEF Answers, Valid
        <3>4. Cached(k) \subseteq Cached(k)'
            BY <3>2, <3>3, CachedStays
        <3> QED BY <1>2, <2>2, <3>1, <3>2, <3>4, SameTold
    <2> QED BY <2>1, <2>2
<1>5. ASSUME NEW c \in Callers, NEW j \in Keys, Ask(c, j) PROVE NothingStored(k)' /\ Told(k)'
    <2>1. store' = store
        BY <1>5 DEF Ask
    <2>2. CASE flight' = flight
        BY <1>3, <2>1, <2>2, SameTold
    <2>3. CASE flight' # flight
        <3>1. /\ Home[c] = p /\ j \in Lanes
              /\ Moves(p, j, [st |-> "starting", answer |-> flight[p][j].answer])
            BY <1>5, <2>3, AskMoves
        <3>2. CASE j = k
            <4>1. flight'[p][k].st = "starting"
                BY <3>1, <3>2 DEF Moves
            <4>2. flight'[p][k].st # "done" /\ Kind(flight'[p][k].st) = "other"
                BY <4>1 DEF Kind, Unpaid
            <4> QED BY <1>3, <2>1, <4>2, SameTold
        <3>3. CASE j # k
            BY <1>2, <1>3, <2>1, <3>1, <3>3, SameTold
        <3> QED BY <3>2, <3>3
    <2> QED BY <2>2, <2>3
<1>6. ASSUME StartDrift(p) \/ CancelDrift(p) PROVE NothingStored(k)' /\ Told(k)'
    <2>1. store' = store
        BY <1>6 DEF StartDrift, CancelDrift
    <2>2. PICK r : Moves(p, Drift, r)
        BY <1>6, DriftMoves
    <2> QED BY <1>1, <1>2, <1>3, <2>1, <2>2, SameTold
<1>7. ASSUME Crash(p) PROVE NothingStored(k)' /\ Told(k)'
    <2>1. store' = store /\ flight'[p][k] = NoFlight
        BY <1>1, <1>7, CrashEffect
    <2>2. flight'[p][k].st # "done" /\ Kind(flight'[p][k].st) = "other"
        BY <2>1 DEF NoFlight, Kind, Unpaid
    <2> QED BY <1>3, <2>1, <2>2, SameTold
<1>8. CASE (\E c \in Callers : CancelAsk(c)) \/ RunOut \/ TopUp \/ UNCHANGED vars
    <2>1. flight' = flight /\ store' = store
        BY <1>8 DEF CancelAsk, RunOut, TopUp, vars
    <2> QED BY <1>3, <2>1, SameTold
<1>9. \A o \in Procs : o = p
    OBVIOUS
<1> QED BY <1>4, <1>5, <1>6, <1>7, <1>8, <1>9 DEF Next

(* In a process that has the cache to itself, whatever a caller is told of a   *)
(* key is what the stored call says of it, at the moment it is told.           *)
THEOREM TellsWhatIsStored == (\E p : Procs = {p}) => (Spec => []ToldIsStored)
<1> SUFFICES ASSUME NEW p, Procs = {p} PROVE Spec => []ToldIsStored
    OBVIOUS
<1> DEFINE Inv == Typed /\ \A k \in Keys : NothingStored(k) /\ Told(k)
<1>1. Init => Inv
    <2> SUFFICES ASSUME Init, NEW k \in Keys, NEW o \in Procs
                 PROVE  Kind(flight[o][k].st) = "other" /\ flight[o][k].st # "done"
        BY InitTyped DEF NothingStored, Told
    <2> QED BY DEF Init, NoFlight, Lanes, Kind, Unpaid
<1>2. Inv /\ [Next]_vars => Inv'
    BY TypedPreserved, ToldPreserved
<1>3. Inv => ToldIsStored
    BY DEF Typed, ToldIsStored, Told
<1> QED BY <1>1, <1>2, <1>3, PTL DEF Spec

-----------------------------------------------------------------------------
(* Numbers. *)

LEMMA MinOfTwo ==
    ASSUME NEW a \in Int, NEW b \in Int
    PROVE  Min({a, b}) = IF a <= b THEN a ELSE b
BY DEF Min

LEMMA MaxOfTwo ==
    ASSUME NEW a \in Int, NEW b \in Int
    PROVE  Max({a, b}) = IF a >= b THEN a ELSE b
BY DEF Max

(* A finite set of integers has a greatest.  The least set without one, of    *)
(* its subsets, would have one more element than a set that has.              *)
LEMMA FiniteHasMax ==
    ASSUME NEW S \in SUBSET Int, IsFiniteSet(S), S # {}
    PROVE  \E x \in S : \A y \in S : x >= y
<1> DEFINE HasMax(T) == \E x \in T : \A y \in T : x >= y
           Bad == {T \in FiniteSubsetsOf(S) : T # {} /\ ~HasMax(T)}
<1> SUFFICES ASSUME Bad # {} PROVE FALSE
    BY DEF FiniteSubsetsOf
<1>1. PICK T \in Bad : \A U \in Bad : <<U, T>> \notin StrictSubsetOrdering(S)
    <2>1. Bad \subseteq FiniteSubsetsOf(S)
        OBVIOUS
    <2>2. IsWellFoundedOn(StrictSubsetOrdering(S), FiniteSubsetsOf(S))
        BY FS_StrictSubsetOrderingWellFounded
    <2> HIDE DEF Bad
    <2> QED BY <2>1, <2>2, WFMin
<1>2. PICK t \in T : TRUE
    OBVIOUS
<1>3. IsFiniteSet(T) /\ T \subseteq Int /\ ~HasMax(T)
    BY DEF FiniteSubsetsOf
<1>4. T \ {t} = {} \/ HasMax(T \ {t})
    <2>1. IsFiniteSet(T \ {t})
        BY <1>3, FS_RemoveElement
    <2>2. <<T \ {t}, T>> \in StrictSubsetOrdering(S)
        BY <1>2 DEF StrictSubsetOrdering, FiniteSubsetsOf
    <2>3. T \ {t} \in FiniteSubsetsOf(S)
        BY <2>1 DEF FiniteSubsetsOf
    <2> QED BY <1>1, <2>2, <2>3
<1>5. CASE T \ {t} = {}
    <2>1. \A y \in T : y = t
        BY <1>5
    <2> QED BY <1>2, <1>3, <2>1
<1>6. CASE HasMax(T \ {t})
    <2>1. PICK x \in T \ {t} : \A y \in T \ {t} : x >= y
        BY <1>6
    <2>2. x \in Int /\ t \in Int
        BY <1>2, <1>3
    <2>3. CASE x >= t
        BY <1>3, <2>1, <2>3
    <2>4. CASE t >= x
        BY <1>2, <1>3, <2>1, <2>2, <2>4
    <2> QED BY <2>2, <2>3, <2>4
<1> QED BY <1>4, <1>5, <1>6

LEMMA MaxIsMax ==
    ASSUME NEW S \in SUBSET Int, IsFiniteSet(S), S # {}
    PROVE  Max(S) \in S /\ \A y \in S : Max(S) >= y
BY FiniteHasMax DEF Max

(* A function's values at the buckets are finitely many. *)
LEMMA ValuesAreFinite ==
    ASSUME NEW f \in [Buckets -> Int]
    PROVE  LET V == {f[b] : b \in Buckets} IN
           V \in SUBSET Int /\ IsFiniteSet(V) /\ V # {}
<1> DEFINE V == {f[b] : b \in Buckets}
<1>1. f \in Surjection(Buckets, V)
    BY DEF Surjection
<1>2. IsFiniteSet(V)
    BY <1>1, FS_Surjection, LimiterAssumption
<1> QED BY <1>2, LimiterAssumption

(* Divide(a, n) is a / n rounded up. *)
LEMMA DivideUp ==
    ASSUME NEW a \in Nat, NEW n \in Nat \ {0}
    PROVE  /\ Divide(a, n) \in Nat
           /\ a <= n * Divide(a, n)
           /\ n * Divide(a, n) < a + n
           /\ a > 0 => Divide(a, n) >= 1
BY DEF Divide

(* It grows with a and shrinks with n. *)
LEMMA DivideMonotonic ==
    ASSUME NEW a \in Nat, NEW n \in Nat \ {0}, NEW A \in Nat, NEW N \in Nat \ {0}, a <= A, N <= n
    PROVE  Divide(a, n) <= Divide(A, N)
<1> DEFINE d == Divide(a, n)
           D == Divide(A, N)
<1>1. d \in Nat /\ D \in Nat /\ n * d < a + n /\ A <= N * D
    BY DivideUp
<1> HIDE DEF d, D
<1> SUFFICES ASSUME d >= D + 1 PROVE FALSE
    BY <1>1 DEF d, D
<1>2. n * d >= n * D + n
    BY <1>1
<1>3. N * D <= n * D
    BY <1>1
<1> QED BY <1>1, <1>2, <1>3


-----------------------------------------------------------------------------
(* Buckets. *)

(* LimiterTypeOK's part for the buckets, and what a refill is then. *)
LevelsOK == level \in [Buckets -> Nat] /\ (\A b \in Buckets : level[b] <= Size(b)) /\ since \in Nat

(* A refill at a scale gives what is there and the rate's worth, or fills up; *)
(* a greater scale never gives less.                                          *)
LEMMA RefilledValue ==
    ASSUME LevelsOK, NEW b \in Buckets, NEW s \in 1..Full
    PROVE  /\ Refilled(b, s) \in 0..Size(b)
           /\ Refilled(b, s) = IF Size(b) <= level[b] + since * Rate[b] * s
                               THEN Size(b) ELSE level[b] + since * Rate[b] * s
           /\ Refilled(b, s) <= Refilled(b, Full)
<1> USE LimiterAssumption DEF LevelsOK, Size
<1>1. /\ Size(b) \in Nat /\ Rate[b] \in Nat /\ since \in Nat /\ s \in Nat /\ Full \in Nat
      /\ level[b] \in 0..Size(b)
    OBVIOUS
<1> DEFINE r == since * Rate[b]
<1>2. r \in Nat
    BY <1>1
<1> HIDE DEF r
<1>3. r * s \in Nat /\ r * Full \in Nat /\ r * s <= r * Full
    BY <1>1, <1>2
<1>4. \A x \in Nat : level[b] + x \in Nat
    BY <1>1
<1>5. ASSUME NEW k \in {s, Full}
      PROVE  Refilled(b, k) = IF Size(b) <= level[b] + r * k THEN Size(b) ELSE level[b] + r * k
    <2>1. Refilled(b, k) = Min({Size(b), level[b] + r * k})
        BY DEF Refilled, r
    <2>2. Size(b) \in Int /\ level[b] + r * k \in Int
        BY <1>1, <1>3, <1>4
    <2> HIDE DEF Size
    <2> QED BY <2>1, <2>2, MinOfTwo
<1> QED BY <1>1, <1>3, <1>5 DEF r

LEMMA AmountInSize ==
    ASSUME NEW c \in Calls, NEW b \in Buckets
    PROVE  Amount(c, b) \in 0..Size(b) /\ Size(b) \in Nat
<1> USE LimiterAssumption
<1>1. Need[c][b] \in Nat /\ Cap[b] \in Nat /\ Full \in Nat
    OBVIOUS
<1>2. Min({Need[c][b], Cap[b]}) \in 0..Cap[b]
    BY <1>1, MinOfTwo
<1> DEFINE m == Min({Need[c][b], Cap[b]})
<1> HIDE DEF m
<1>3. m * Full \in 0..(Cap[b] * Full) /\ Cap[b] * Full \in Nat
    BY <1>1, <1>2 DEF m
<1> QED BY <1>3 DEF Amount, Size, m

(* A bucket that was left alone for Horizon is full at any scale. *)
LEMMA HorizonFills ==
    /\ Horizon \in Nat
    /\ \A b \in Buckets : /\ Divide(Size(b), Rate[b] * Floor) <= Horizon
                          /\ Size(b) <= Horizon * Rate[b] * Floor
<1> USE LimiterAssumption
<1> DEFINE f == [b \in Buckets |-> Divide(Size(b), Rate[b] * Floor)]
           V == {f[b] : b \in Buckets}
<1>1. ASSUME NEW b \in Buckets
      PROVE  Size(b) \in Nat /\ Rate[b] * Floor \in Nat \ {0} /\ Rate[b] \in Nat
    BY DEF Size
<1>2. f \in [Buckets -> Nat]
    BY <1>1, DivideUp
<1>3. V = {Divide(Cap[b] * Full, Rate[b] * Floor) : b \in Buckets}
    BY DEF Size
<1>4. Horizon = Max(V)
    BY <1>3 DEF Horizon
<1>5. V \in SUBSET Int /\ IsFiniteSet(V) /\ V # {}
    <2>1. f \in [Buckets -> Int]
        BY <1>2
    <2> HIDE DEF f
    <2> QED BY <2>1, ValuesAreFinite
<1>6. Horizon \in V /\ \A x \in V : Horizon >= x
    BY <1>4, <1>5, MaxIsMax
<1>7. Horizon \in Nat
    BY <1>2, <1>6
<1>8. ASSUME NEW b \in Buckets
      PROVE  f[b] <= Horizon /\ Size(b) <= Horizon * Rate[b] * Floor
    <2>1. f[b] <= Horizon /\ f[b] \in Nat
        BY <1>2, <1>6
    <2>2. Size(b) <= (Rate[b] * Floor) * f[b]
        BY <1>1, DivideUp
    <2>3. (Rate[b] * Floor) * f[b] <= (Rate[b] * Floor) * Horizon
        BY <1>1, <1>7, <2>1
    <2>4. (Rate[b] * Floor) * Horizon = Horizon * Rate[b] * Floor
        BY <1>1, <1>7
    <2> QED BY <1>1, <1>7, <2>1, <2>2, <2>3, <2>4
<1> QED BY <1>7, <1>8

(* The holder sleeps zero ticks only if every bucket has what its call takes, *)
(* and never longer than Horizon.                                             *)
LEMMA WaitTimeBounds ==
    ASSUME LevelsOK, NEW c \in Calls, NEW s \in Floor..Full
    PROVE  /\ WaitTime(c, s) \in 0..Horizon
           /\ WaitTime(c, s) = 0 => \A b \in Buckets : Amount(c, b) <= Refilled(b, s)
<1> USE LimiterAssumption
<1> DEFINE f == [b \in Buckets |-> IF Refilled(b, s) >= Amount(c, b) THEN 0
                                   ELSE Divide(Amount(c, b) - Refilled(b, s), Rate[b] * s)]
           V == {f[b] : b \in Buckets}
<1>1. s \in 1..Full
    OBVIOUS
<1>2. ASSUME NEW b \in Buckets
      PROVE  f[b] \in 0..Horizon /\ (f[b] = 0 => Amount(c, b) <= Refilled(b, s))
    <2>1. Refilled(b, s) \in Nat /\ Amount(c, b) \in Nat /\ Amount(c, b) <= Size(b) /\ Size(b) \in Nat
        BY <1>1, RefilledValue, AmountInSize
    <2>2. Rate[b] * s \in Nat \ {0} /\ Rate[b] * Floor \in Nat \ {0} /\ Rate[b] * Floor <= Rate[b] * s
        <3>1. Rate[b] \in Nat \ {0} /\ s \in Nat \ {0} /\ Floor \in Nat \ {0} /\ Floor <= s
            OBVIOUS
        <3> QED BY <3>1
    <2>3. Horizon \in Nat /\ Divide(Size(b), Rate[b] * Floor) <= Horizon
        BY HorizonFills
    <2>4. CASE Refilled(b, s) >= Amount(c, b)
        BY <2>1, <2>3, <2>4
    <2>5. CASE Refilled(b, s) < Amount(c, b)
        <3> DEFINE a == Amount(c, b) - Refilled(b, s)
        <3>1. a \in Nat /\ a > 0 /\ a <= Size(b)
            BY <2>1, <2>5
        <3>2. f[b] = Divide(a, Rate[b] * s)
            BY <2>1, <2>5
        <3> HIDE DEF a, f
        <3>3. f[b] \in Nat /\ f[b] >= 1
            BY <2>2, <3>1, <3>2, DivideUp
        <3>4. f[b] <= Divide(Size(b), Rate[b] * Floor) /\ Divide(Size(b), Rate[b] * Floor) \in Nat
            <4> DEFINE n == Rate[b] * s
                       N == Rate[b] * Floor
            <4>1. Size(b) \in Nat /\ n \in Nat \ {0} /\ N \in Nat \ {0} /\ N <= n
                BY <2>1, <2>2
            <4>2. f[b] = Divide(a, n)
                BY <3>2
            <4> HIDE DEF n, N
            <4>3. Divide(Size(b), N) \in Nat
                BY <4>1, DivideUp
            <4>4. Divide(a, n) <= Divide(Size(b), N)
                BY <3>1, <4>1, DivideMonotonic
            <4> QED BY <4>2, <4>3, <4>4 DEF N
        <3> QED BY <2>3, <3>3, <3>4
    <2> QED BY <2>1, <2>4, <2>5
<1>3. f \in [Buckets -> Int]
    BY <1>2, HorizonFills
<1>4. WaitTime(c, s) = Max(V)
    BY DEF WaitTime
<1> HIDE DEF f
<1>5. V \in SUBSET Int /\ IsFiniteSet(V) /\ V # {}
    BY <1>3, ValuesAreFinite
<1>6. Max(V) \in V /\ \A x \in V : Max(V) >= x
    BY <1>5, MaxIsMax
<1>7. ASSUME Max(V) = 0, NEW b \in Buckets PROVE f[b] = 0
    <2>1. f[b] \in Nat
        BY <1>2, HorizonFills
    <2>2. 0 >= f[b]
        BY <1>6, <1>7
    <2> QED BY <2>1, <2>2
<1> QED BY <1>2, <1>4, <1>6, <1>7

-----------------------------------------------------------------------------
(* The inductive invariant: what a bucket would hold if it were refilled now, *)
(* at scale one, is at most what the bucket refilled at the profile's rate    *)
(* all the time holds.                                                        *)
Ahead(b) == Refilled(b, Full) <= ideal[b]
LimiterInv == LimiterTypeOK /\ \A b \in Buckets : Ahead(b)

LEMMA TypeGivesLevels == LimiterTypeOK => LevelsOK
BY HorizonFills DEF LimiterTypeOK, LevelsOK

LEMMA LimiterInvHolds == LimiterInv => WithinProfileRate
<1> SUFFICES ASSUME LimiterInv, NEW b \in Buckets PROVE ideal[b] >= 0
    BY DEF LimiterInv, WithinProfileRate
<1>1. Refilled(b, Full) \in Nat
    BY TypeGivesLevels, RefilledValue, LimiterAssumption DEF LimiterInv, Size
<1> QED BY <1>1 DEF LimiterInv, Ahead, LimiterTypeOK

LEMMA InitLimiterInv == InitLimiter => LimiterInv
<1> SUFFICES ASSUME InitLimiter PROVE LimiterInv
    OBVIOUS
<1> USE LimiterAssumption
<1>1. \A b \in Buckets : Size(b) \in Nat
    BY DEF Size
<1>2. LimiterTypeOK
    BY <1>1, HorizonFills DEF InitLimiter, LimiterTypeOK
<1>3. ASSUME NEW b \in Buckets PROVE Ahead(b)
    BY <1>1, <1>2, TypeGivesLevels, RefilledValue DEF InitLimiter, Ahead
<1> QED BY <1>2, <1>3 DEF LimiterInv

(* The buckets stay as they are, nothing but the scale and the queue changes. *)
LEMMA BucketsKept ==
    ASSUME LimiterInv, UNCHANGED <<level, since, ideal>>,
           scale' \in Floor..Full, quiet' \in 0..RecoverAfter, queue' \in Seq(Calls), wait' \in -1..Horizon
    PROVE  LimiterInv'
BY DEF LimiterInv, LimiterTypeOK, Ahead, Refilled, Horizon, Size

LEMMA RaisedAndLowered ==
    ASSUME NEW s \in Floor..Full
    PROVE  ScaleRaised(s) \in Floor..Full /\ ScaleLowered(s) \in Floor..Full
<1>1. /\ s \in Nat /\ Floor \in Nat /\ Full \in Nat /\ Floor <= s /\ s <= Full
      /\ RecoverBy \in Nat /\ RecoverBy >= 1 /\ BackoffBy \in Nat /\ BackoffBy >= 1
    BY LimiterAssumption
<1> DEFINE up == s * RecoverBy
           down == s \div BackoffBy
<1>2. up \in Nat /\ s <= up
    BY <1>1
<1>3. down \in Nat /\ down <= s
    BY <1>1
<1> HIDE DEF up, down
<1>4. Min({Full, up}) \in Floor..Full
    BY <1>1, <1>2, MinOfTwo
<1>5. Max({Floor, down}) \in Floor..Full
    BY <1>1, <1>3, MaxOfTwo
<1> QED BY <1>4, <1>5 DEF ScaleRaised, ScaleLowered, up, down

LEMMA LookKeeps == LimiterInv /\ Look => LimiterInv'
<1> SUFFICES ASSUME LimiterInv, Look PROVE LimiterInv'
    OBVIOUS
<1> USE LimiterAssumption
<1> DEFINE c == Head(queue)
           recovers == wait = -1 /\ Recovers
           s == IF recovers THEN ScaleRaised(scale) ELSE scale
           w == WaitTime(c, s)
           t == [b \in Buckets |-> IF w = 0 THEN Amount(c, b) ELSE 0]
<1>1. LimiterTypeOK /\ LevelsOK /\ Horizon \in Nat
    BY TypeGivesLevels, HorizonFills DEF LimiterInv
<1>2. c \in Calls /\ Tail(queue) \in Seq(Calls)
    BY <1>1, HeadTailProperties DEF Look, LimiterTypeOK
<1>3. s \in Floor..Full /\ s \in 1..Full
    <2>1. scale \in Floor..Full
        BY <1>1 DEF LimiterTypeOK
    <2>2. s \in Floor..Full
        BY <2>1, RaisedAndLowered
    <2>3. Floor \in Nat /\ Floor >= 1 /\ Full \in Nat
        OBVIOUS
    <2> QED BY <2>2, <2>3
<1>4. w \in 0..Horizon /\ (w = 0 => \A b \in Buckets : Amount(c, b) <= Refilled(b, s))
    BY <1>1, <1>2, <1>3, WaitTimeBounds
<1>5. /\ scale' = s /\ quiet' \in 0..RecoverAfter /\ since' = 0
      /\ level' = [b \in Buckets |-> Refilled(b, s) - t[b]]
      /\ ideal' = [b \in Buckets |-> ideal[b] - t[b]]
      /\ queue' \in Seq(Calls)
      /\ wait' \in -1..Horizon
    <2>1. queue' \in Seq(Calls) /\ quiet' \in 0..RecoverAfter
        BY <1>1, <1>2 DEF Look, LimiterTypeOK
    <2>2. wait' \in -1..Horizon
        BY <1>1, <1>4 DEF Look
    <2>3. \A b \in Buckets : t[b] = IF w = 0 THEN Amount(c, b) ELSE 0
        OBVIOUS
    <2> QED BY <2>1, <2>2, <2>3 DEF Look
<1> HIDE DEF c, recovers, s, w
<1>6. ASSUME NEW b \in Buckets
      PROVE  /\ level'[b] \in 0..Size(b) /\ ideal'[b] \in Int
             /\ level'[b] <= ideal'[b]
    <2>1. Refilled(b, s) \in 0..Size(b) /\ Refilled(b, s) <= Refilled(b, Full) /\ Size(b) \in Nat
        BY <1>1, <1>2, <1>3, RefilledValue, AmountInSize
    <2>2. t[b] \in Nat /\ t[b] <= Refilled(b, s)
        BY <1>2, <1>4, <2>1, AmountInSize
    <2>3. Refilled(b, Full) <= ideal[b] /\ ideal[b] \in Int /\ Refilled(b, Full) \in Int
        <3>1. Full \in 1..Full
            OBVIOUS
        <3> QED BY <1>1, <3>1, RefilledValue, AmountInSize DEF LimiterInv, Ahead, LimiterTypeOK
    <2>4. level'[b] = Refilled(b, s) - t[b] /\ ideal'[b] = ideal[b] - t[b]
        <3> HIDE DEF t
        <3> QED BY <1>5
    <2> HIDE DEF t
    <2> QED BY <2>1, <2>2, <2>3, <2>4
<1>7. LimiterTypeOK'
    <2>1. level' \in [Buckets -> Nat] /\ ideal' \in [Buckets -> Int]
        <3> HIDE DEF t
        <3>1. \A b \in Buckets : Size(b) \in Nat
            BY DEF Size
        <3> QED BY <1>5, <1>6, <3>1
    <2>2. \A b \in Buckets : level'[b] <= Size(b)
        BY <1>6 DEF Size
    <2>3. since' \in 0..Horizon
        BY <1>1, <1>5
    <2>4. scale' \in Floor..Full /\ quiet' \in 0..RecoverAfter /\ queue' \in Seq(Calls) /\ wait' \in -1..Horizon
        BY <1>3, <1>5
    <2> QED BY <2>1, <2>2, <2>3, <2>4 DEF LimiterTypeOK
<1>8. ASSUME NEW b \in Buckets PROVE Ahead(b)'
    <2>1. Refilled(b, Full)' = Min({Size(b), level'[b]})
        <3>1. since' * Rate[b] * Full = 0
            BY <1>5
        <3>2. level'[b] + since' * Rate[b] * Full = level'[b]
            BY <1>6, <3>1
        <3> QED BY <3>2 DEF Refilled, Size
    <2>2. Size(b) \in Nat
        BY DEF Size
    <2>3. Min({Size(b), level'[b]}) = level'[b]
        BY <1>6, <2>2, MinOfTwo
    <2> QED BY <1>6, <2>1, <2>3 DEF Ahead
<1> QED BY <1>7, <1>8 DEF LimiterInv

LEMMA TickKeeps == LimiterInv /\ Tick => LimiterInv'
<1> SUFFICES ASSUME LimiterInv, Tick PROVE LimiterInv'
    OBVIOUS
<1> USE LimiterAssumption
<1>1. LimiterTypeOK /\ LevelsOK /\ Horizon \in Nat
    BY TypeGivesLevels, HorizonFills DEF LimiterInv
<1>2. since \in 0..Horizon /\ since' = IF Horizon <= since + 1 THEN Horizon ELSE since + 1
    <2>1. since \in 0..Horizon /\ since + 1 \in Int /\ Horizon \in Int
        BY <1>1 DEF LimiterTypeOK
    <2>2. Min({Horizon, since + 1}) = IF Horizon <= since + 1 THEN Horizon ELSE since + 1
        BY <2>1, MinOfTwo
    <2> QED BY <2>1, <2>2 DEF Tick
<1>3. quiet' \in 0..RecoverAfter /\ wait' \in -1..Horizon /\ queue' \in Seq(Calls)
    <2>1. quiet' = IF RecoverAfter <= quiet + 1 THEN RecoverAfter ELSE quiet + 1
        <3>1. quiet + 1 \in Int /\ RecoverAfter \in Int
            BY <1>1 DEF LimiterTypeOK
        <3>2. Min({RecoverAfter, quiet + 1}) = IF RecoverAfter <= quiet + 1 THEN RecoverAfter ELSE quiet + 1
            BY <3>1, MinOfTwo
        <3> QED BY <3>2 DEF Tick
    <2> QED BY <1>1, <2>1 DEF Tick, LimiterTypeOK
<1>4. ASSUME NEW b \in Buckets
      PROVE  /\ Size(b) \in Nat /\ ideal[b] \in Int /\ Rate[b] * Full \in Nat /\ level[b] \in 0..Size(b)
             /\ ideal'[b] = IF Size(b) <= ideal[b] + Rate[b] * Full THEN Size(b) ELSE ideal[b] + Rate[b] * Full
    <2>1. Size(b) \in Nat /\ ideal[b] \in Int /\ Rate[b] * Full \in Nat /\ level[b] \in 0..Size(b)
        BY <1>1 DEF Size, LimiterTypeOK
    <2>2. ideal'[b] = Min({Size(b), ideal[b] + Rate[b] * Full})
        BY DEF Tick
    <2>3. ideal[b] + Rate[b] * Full \in Int
        BY <2>1
    <2> DEFINE x == ideal[b] + Rate[b] * Full
    <2> HIDE DEF x
    <2>4. Min({Size(b), x}) = IF Size(b) <= x THEN Size(b) ELSE x
        BY <2>1, <2>3, MinOfTwo DEF x
    <2> QED BY <2>1, <2>2, <2>4 DEF x
<1>5. ideal' \in [Buckets -> Int]
    <2>1. ideal' = [b \in Buckets |-> Min({Size(b), ideal[b] + Rate[b] * Full})]
        BY DEF Tick
    <2>2. \A b \in Buckets : ideal'[b] \in Int
        BY <1>4
    <2> QED BY <2>1, <2>2
<1>6. LimiterTypeOK'
    <2>1. since' \in 0..Horizon
        BY <1>1, <1>2
    <2> QED BY <1>1, <1>3, <1>5, <2>1 DEF LimiterTypeOK, Tick, Size
<1>7. LevelsOK'
    BY <1>6, <1>2, <1>1 DEF LevelsOK, LimiterTypeOK
<1>8. ASSUME NEW b \in Buckets PROVE Ahead(b)'
    <2> DEFINE r == Rate[b] * Full
    <2>1. r \in Nat /\ Full \in 1..Full
        BY <1>4
    <2>2. /\ Refilled(b, Full) = IF Size(b) <= level[b] + since * r THEN Size(b) ELSE level[b] + since * r
          /\ Refilled(b, Full) <= ideal[b]
        <3>1. since * Rate[b] * Full = since * r
            BY <1>2, <1>1
        <3> QED BY <1>1, <2>1, <3>1, RefilledValue DEF LimiterInv, Ahead
    <2>3. Refilled(b, Full)' = IF Size(b) <= level[b] + since' * r THEN Size(b) ELSE level[b] + since' * r
        <3>1. since' * Rate[b] * Full = since' * r
            BY <1>2, <1>1
        <3>2. Refilled(b, Full)' = Min({Size(b), level[b] + since' * r})
            BY <3>1 DEF Refilled, Tick, Size
        <3>3. level[b] + since' * r \in Int /\ Size(b) \in Int
            BY <1>2, <1>1, <1>4
        <3> HIDE DEF r
        <3> QED BY <3>2, <3>3, MinOfTwo
    <2>4. ideal'[b] = IF Size(b) <= ideal[b] + r THEN Size(b) ELSE ideal[b] + r
        BY <1>4
    <2> HIDE DEF r
    <2>5. since' * r <= since * r + r
        BY <1>1, <1>2, <2>1
    <2>6. since * r \in Nat /\ since' * r \in Nat
        BY <1>1, <1>2, <2>1
    <2> DEFINE x == since * r
               y == since' * r
    <2> HIDE DEF x, y
    <2>7. Refilled(b, Full)' <= ideal'[b]
        BY <1>4, <2>1, <2>2, <2>3, <2>4, <2>5, <2>6 DEF x, y
    <2> QED BY <2>7 DEF Ahead
<1> QED BY <1>6, <1>8 DEF LimiterInv

LEMMA LimiterNextKeeps == LimiterInv /\ [NextLimiter]_limiterVars => LimiterInv'
<1> SUFFICES ASSUME LimiterInv, [NextLimiter]_limiterVars PROVE LimiterInv'
    OBVIOUS
<1> USE LimiterAssumption
<1>1. LimiterTypeOK /\ Horizon \in Nat
    BY HorizonFills DEF LimiterInv
<1>2. ASSUME NEW c \in Calls, Arrive(c) PROVE LimiterInv'
    <2>1. queue' \in Seq(Calls)
        BY <1>1, <1>2, AppendProperties DEF Arrive, LimiterTypeOK
    <2> QED BY <1>1, <1>2, <2>1, BucketsKept DEF Arrive, LimiterTypeOK
<1>3. ASSUME NEW c \in Calls, Cancel(c) PROVE LimiterInv'
    <2>1. queue' \in Seq(Calls)
        <3>1. PICK i \in DOMAIN queue : queue' = RemoveAt(queue, i)
            BY <1>3 DEF Cancel
        <3>2. queue \in Seq(Calls) /\ i \in 1..Len(queue) /\ Len(queue) \in Nat
            BY <1>1, LenProperties DEF LimiterTypeOK
        <3>3. \A j \in 1..Len(queue) : queue[j] \in Calls
            BY <3>2, ElementOfSeq
        <3>4. SubSeq(queue, 1, i - 1) \in Seq(Calls)
            <4>1. \A j \in 1..(i - 1) : queue[j] \in Calls
                BY <3>2, <3>3
            <4> QED BY <3>2, <4>1, SubSeqProperties
        <3>5. SubSeq(queue, i + 1, Len(queue)) \in Seq(Calls)
            <4>1. \A j \in (i + 1)..Len(queue) : queue[j] \in Calls
                BY <3>2, <3>3
            <4> QED BY <3>2, <4>1, SubSeqProperties
        <3> QED BY <3>1, <3>4, <3>5, ConcatProperties DEF RemoveAt
    <2>2. wait' \in -1..Horizon
        BY <1>1, <1>3 DEF Cancel, LimiterTypeOK
    <2> QED BY <1>1, <1>3, <2>1, <2>2, BucketsKept DEF Cancel, LimiterTypeOK
<1>4. CASE Look
    BY <1>4, LookKeeps
<1>5. CASE Throttled
    <2>1. scale' \in Floor..Full
        BY <1>1, <1>5, RaisedAndLowered DEF Throttled, LimiterTypeOK
    <2> QED BY <1>1, <1>5, <2>1, BucketsKept DEF Throttled, LimiterTypeOK
<1>6. CASE Tick
    BY <1>6, TickKeeps
<1>7. CASE UNCHANGED limiterVars
    BY <1>1, <1>7, BucketsKept DEF limiterVars, LimiterTypeOK
<1> QED BY <1>2, <1>3, <1>4, <1>5, <1>6, <1>7 DEF NextLimiter

-----------------------------------------------------------------------------
(* DualLimiter.acquire: at every profile, however throttles, recoveries, late *)
(* wake-ups and cancellations mix, a bucket never lets through a call that    *)
(* one refilled at the profile's rate from the start would have held back.    *)
THEOREM CallsStayWithinRate == LimiterSpec => []WithinProfileRate
<1>1. InitLimiter => LimiterInv
    BY InitLimiterInv
<1>2. LimiterInv /\ [NextLimiter]_limiterVars => LimiterInv'
    BY LimiterNextKeeps
<1>3. LimiterInv => WithinProfileRate
    BY LimiterInvHolds
<1> QED BY <1>1, <1>2, <1>3, PTL DEF LimiterSpec

-----------------------------------------------------------------------------
(* Query. *)

(* A query counts its hops from the plan's choice on, and is in a hop only     *)
(* while hops are left.                                                        *)
QueryTyped ==
    /\ QueryTypeOK
    /\ At("route") => q.hop = 0
    /\ At("texts") \/ At("gate") => q.hop < q.plan.hops

LEMMA QueryFields ==
    DOMAIN Fresh = {"pc", "kind", "plan", "ann", "hits", "seeds", "nodes", "used", "frontier", "hop", "rows",
                    "passages", "made", "draft", "again", "kept", "answerable"}
BY DEF Fresh

LEMMA KSubsets == ASSUME NEW S, NEW k, NEW T \in Some(S, k) PROVE T \subseteq S
BY DEF Some, kSubset

-----------------------------------------------------------------------------
(* Type correctness. *)

LEMMA QueryStartsTyped == InitQuery => QueryTyped
BY QueryAssumption DEF InitQuery, QueryTyped, QueryTypeOK, At, Fresh, NoPlan

LEMMA QueryStaysTyped == QueryTyped /\ [NextQuery]_queryVars => QueryTyped'
<1> SUFFICES ASSUME QueryTyped, [NextQuery]_queryVars PROVE QueryTyped'
    OBVIOUS
<1> USE QueryFields
<1>1. /\ DOMAIN q = DOMAIN Fresh /\ q.hop \in 0..q.plan.hops
      /\ \A p \in Plans \cup {Fallback, NoPlan} : p.hops \in Nat
    BY QueryAssumption DEF QueryTyped, QueryTypeOK, NoPlan
<1>2. ASSUME served' \in Copies, swaps' \in 0..MaxSwaps, failures' \in 0..MaxFailures,
             DOMAIN q' = DOMAIN Fresh, q.kind' \in {"none", "search", "context", "ask"},
             q.plan' \in Plans \cup {Fallback, NoPlan}, q.hop' \in 0..q.plan.hops',
             q.seeds' \cup q.frontier' \subseteq q.nodes',
             q.pc' = "finish" => q.kept' \subseteq q.draft', q.pc' = "route" => q.hop' = 0,
             q.pc' \in {"texts", "gate"} => q.hop' < q.plan.hops'
      PROVE  QueryTyped'
    BY <1>2 DEF QueryTyped, QueryTypeOK, At
<1>3. CASE Route
    BY <1>1, <1>2, <1>3 DEF Route, Reading, At, QueryTyped, QueryTypeOK
<1>4. CASE Ann \/ Fts \/ Rows
    <2>1. CASE Ann
        BY <1>1, <1>2, <2>1 DEF Ann, Reading, At, QueryTyped, QueryTypeOK
    <2>2. CASE Fts
        BY <1>1, <1>2, <2>2 DEF Fts, Reading, At, QueryTyped, QueryTypeOK
    <2>3. CASE Rows
        BY <1>1, <1>2, <2>3 DEF Rows, Reading, At, QueryTyped, QueryTypeOK
    <2> QED BY <1>4, <2>1, <2>2, <2>3
<1>5. CASE Rerank
    BY <1>1, <1>2, <1>5 DEF Rerank, Reading, At, QueryTyped, QueryTypeOK
<1>6. CASE ReadLinks \/ ReadTexts
    BY <1>1, <1>2, <1>6 DEF ReadLinks, ReadTexts, Reading, At, QueryTyped, QueryTypeOK
<1>7. CASE Gate
    <2>1. PICK added, used, decided :
            q' = [q EXCEPT !.nodes = @ \cup added, !.used = used, !.frontier = added, !.hop = @ + 1,
                           !.rows = {}, !.made = decided, !.pc = "hop"]
        BY <1>7 DEF Gate
    <2>2. q.hop + 1 \in 0..q.plan.hops
        <3>1. q.plan.hops \in Nat /\ q.hop < q.plan.hops
            BY <1>1, <1>7 DEF Gate, QueryTyped, QueryTypeOK
        <3> QED BY <1>1, <3>1
    <2>3. /\ q.nodes' = q.nodes \cup added /\ q.frontier' = added /\ q.seeds' = q.seeds
          /\ q.hop' = q.hop + 1 /\ q.pc' = "hop" /\ DOMAIN q' = DOMAIN Fresh
          /\ q.plan' = q.plan /\ q.kind' = q.kind /\ q.kept' = q.kept /\ q.draft' = q.draft
        BY <1>1, <2>1
    <2> QED BY <1>2, <1>7, <2>2, <2>3 DEF Gate, Reading, QueryTyped, QueryTypeOK
<1>15. CASE Assemble
    <2>1. PICK kept, pc :
            /\ q' = [q EXCEPT !.passages = kept, !.answerable = kept # {}, !.pc = pc]
            /\ pc \in {"answerable", "persist"}
        BY <1>15 DEF Assemble
    <2> QED BY <1>1, <1>2, <1>15, <2>1 DEF Assemble, Reading, At, QueryTyped, QueryTypeOK
<1>8. CASE Answerable
    BY <1>1, <1>2, <1>8 DEF Answerable, Reading, At, QueryTyped, QueryTypeOK
<1>9. CASE Persist \/ DraftAnswer \/ Finish
    <2>1. CASE Persist
        BY <1>1, <1>2, <2>1 DEF Persist, Reading, At, QueryTyped, QueryTypeOK
    <2>2. CASE DraftAnswer
        BY <1>1, <1>2, <2>2 DEF DraftAnswer, Reading, At, QueryTyped, QueryTypeOK
    <2>3. CASE Finish
        BY <1>1, <1>2, <2>3 DEF Finish, Reading, At, QueryTyped, QueryTypeOK
    <2> QED BY <1>9, <2>1, <2>2, <2>3
<1>10. CASE Check
    BY <1>1, <1>2, <1>10 DEF Check, Reading, At, QueryTyped, QueryTypeOK
<1>11. CASE EditGraph \/ Publish
    BY <1>1, <1>2, <1>11, QueryAssumption DEF EditGraph, Publish, Change, At, QueryTyped, QueryTypeOK
<1>12. CASE Fail
    BY <1>1, <1>2, <1>12, QueryAssumption DEF Fail, Fresh, NoPlan, At, QueryTyped, QueryTypeOK
<1>13. CASE \E kind \in {"search", "context", "ask"} : Start(kind)
    BY <1>1, <1>2, <1>13 DEF Start, Fresh, NoPlan, At, QueryTyped, QueryTypeOK
<1>14. CASE UNCHANGED queryVars
    BY <1>14 DEF queryVars, At, QueryTyped, QueryTypeOK
<1> QED BY <1>3, <1>4, <1>5, <1>6, <1>7, <1>8, <1>9, <1>10, <1>11, <1>12, <1>13, <1>14, <1>15 DEF NextQuery, Step

(* A query's plan, place and hops are what the code makes of them. *)
THEOREM QueryTypeCorrect == QuerySpec => []QueryTypeOK
<1>1. QueryTyped => QueryTypeOK
    BY DEF QueryTyped
<1> QED BY <1>1, QueryStartsTyped, QueryStaysTyped, PTL DEF QuerySpec

-----------------------------------------------------------------------------
(* Passages. *)

(* Once a query runs, every chunk it has found was accepted since it began;    *)
(* what a link leads to only after its text was read.                          *)
FoundChunks ==
    ~At("idle") =>
        /\ served.accepted \cup q.ann \cup q.hits \cup q.nodes \subseteq live
        /\ At("gate") => \A r \in q.rows : r[3] \in live
        /\ \A p \in q.passages : p[1] = "chunk" => p[2] \in live

LEMMA FoundPreserved == QueryTyped /\ FoundChunks /\ [NextQuery]_queryVars => FoundChunks'
<1> SUFFICES ASSUME QueryTyped, FoundChunks, [NextQuery]_queryVars PROVE FoundChunks'
    OBVIOUS
<1> USE QueryFields
<1>1. DOMAIN q = DOMAIN Fresh
    BY DEF QueryTyped, QueryTypeOK
<1>2. CASE Route
    BY <1>1, <1>2 DEF Route, Reading, At, FoundChunks
<1>3. CASE Ann
    BY <1>1, <1>3 DEF Ann, Reading, At, FoundChunks
<1>17. CASE Fts
    <2>1. PICK S \in SUBSET served.accepted : q' = [q EXCEPT !.ann = q.ann \cup S, !.pc = "rows"]
        BY <1>17 DEF Fts
    <2>2. /\ q'.ann = q.ann \cup S /\ q'.hits = q.hits /\ q'.nodes = q.nodes /\ q'.passages = q.passages
          /\ q'.pc = "rows" /\ q.pc = "fts" /\ served' = served /\ live' = live
        BY <1>1, <1>17, <2>1 DEF Fts, Reading, At
    <2> QED BY <2>1, <2>2 DEF At, FoundChunks
<1>16. CASE Rows
    BY <1>1, <1>16 DEF Rows, Reading, At, FoundChunks
<1>4. CASE Rerank
    <2>1. PICK S, decided, passages, pc :
            /\ q' = [q EXCEPT !.seeds = S, !.nodes = S, !.frontier = S, !.made = decided,
                              !.passages = passages, !.pc = pc]
            /\ S \subseteq q.hits /\ pc \in {"persist", "hop"}
            /\ passages \subseteq {<<"chunk", c>> : c \in S}
        <3> DEFINE ds == {<<"passage", c>> : c \in q.hits}
        <3>1. PICK S \in IF q.kind = "search" THEN SUBSET q.hits ELSE Some(q.hits, q.plan.seeds) :
                 q' = [q EXCEPT !.seeds = S, !.nodes = S, !.frontier = S, !.made = Made(ds),
                                !.passages = IF q.kind = "search" THEN {<<"chunk", c>> : c \in S} ELSE {},
                                !.pc = IF q.kind = "search" THEN "persist" ELSE "hop"]
            BY <1>4 DEF Rerank
        <3>2. S \subseteq q.hits
            BY <3>1, KSubsets
        <3> DEFINE passages == IF q.kind = "search" THEN {<<"chunk", c>> : c \in S} ELSE {}
                   pc == IF q.kind = "search" THEN "persist" ELSE "hop"
        <3>3. passages \subseteq {<<"chunk", c>> : c \in S} /\ pc \in {"persist", "hop"}
            OBVIOUS
        <3>4. q' = [q EXCEPT !.seeds = S, !.nodes = S, !.frontier = S, !.made = Made(ds),
                             !.passages = passages, !.pc = pc]
            BY <3>1
        <3> HIDE DEF ds, passages, pc
        <3> QED BY <3>2, <3>3, <3>4
    <2>2. /\ q.nodes' = S /\ q.passages' = passages /\ q.ann' = q.ann /\ q.hits' = q.hits
          /\ q.pc' = pc /\ served' = served /\ live' = live
        BY <1>1, <1>4, <2>1 DEF Rerank, Reading
    <2>3. served.accepted \cup q.ann \cup q.hits \subseteq live
        BY <1>4 DEF Rerank, At, FoundChunks
    <2> QED BY <2>1, <2>2, <2>3 DEF FoundChunks, At
<1>5. CASE ReadLinks
    BY <1>1, <1>5 DEF ReadLinks, Reading, At, FoundChunks
<1>6. CASE ReadTexts
    BY <1>1, <1>6 DEF ReadTexts, Reading, At, FoundChunks
<1>7. CASE Gate
    <2>1. PICK yes \in SUBSET q.rows :
            LET added == {r[3] : r \in Taken(yes)}
                ds == {<<"expand", r[1], r[3]>> : r \in q.rows} IN
            q' = [q EXCEPT !.nodes = @ \cup added, !.used = @ \cup Taken(yes), !.frontier = added,
                           !.hop = @ + 1, !.rows = {}, !.made = Made(ds), !.pc = "hop"]
        BY <1>7 DEF Gate
    <2>2. Taken(yes) \subseteq q.rows
        BY DEF Taken
    <2> DEFINE added == {r[3] : r \in Taken(yes)}
    <2>3. added \subseteq live
        BY <1>7, <2>2 DEF Gate, At, FoundChunks
    <2>4. /\ q.nodes' = q.nodes \cup added /\ q.passages' = q.passages /\ q.ann' = q.ann
          /\ q.hits' = q.hits /\ q.pc' = "hop" /\ served' = served /\ live' = live
        BY <1>1, <1>7, <2>1 DEF Gate, Reading
    <2> HIDE DEF added
    <2> QED BY <1>7, <2>3, <2>4 DEF Gate, FoundChunks, At
<1>8. CASE Assemble
    <2>1. PICK items, kept, pc :
            /\ q' = [q EXCEPT !.passages = kept, !.answerable = kept # {}, !.pc = pc]
            /\ kept \subseteq items /\ pc \in {"answerable", "persist"}
            /\ \A p \in items : p[1] = "chunk" => p[2] \in q.nodes
        <3> DEFINE comms == IF q.plan.communities
                            THEN {<<"community", m>> : m \in {m \in served.communities : m \cap q.nodes # {}}}
                            ELSE {}
                   items == {<<"chunk", c>> : c \in q.nodes} \cup comms
        <3>1. \A p \in items : p[1] = "chunk" => p[2] \in q.nodes
            OBVIOUS
        <3>2. PICK kept \in IF q.kind = "ask" THEN Some(items, Window) ELSE {items} :
                 q' = [q EXCEPT !.passages = kept, !.answerable = kept # {},
                                !.pc = IF q.kind = "ask" THEN "answerable" ELSE "persist"]
            BY <1>8 DEF Assemble
        <3> HIDE DEF items
        <3>3. kept \subseteq items
            BY <3>2, KSubsets
        <3> QED BY <3>1, <3>2, <3>3
    <2>2. /\ q.nodes' = q.nodes /\ q.passages' = kept /\ q.ann' = q.ann /\ q.hits' = q.hits
          /\ q.pc' = pc /\ served' = served /\ live' = live
        BY <1>1, <1>8, <2>1 DEF Assemble, Reading
    <2> QED BY <1>8, <2>1, <2>2 DEF Assemble, FoundChunks, At
<1>9. CASE Answerable
    BY <1>1, <1>9 DEF Answerable, Reading, At, FoundChunks
<1>10. CASE Persist \/ DraftAnswer \/ Finish
    BY <1>1, <1>10 DEF Persist, DraftAnswer, Finish, Reading, At, FoundChunks
<1>11. CASE Check
    BY <1>1, <1>11 DEF Check, Reading, At, FoundChunks
<1>12. CASE EditGraph \/ Publish
    BY <1>12 DEF EditGraph, Publish, Change, At, FoundChunks
<1>13. CASE Fail
    BY <1>13 DEF Fail, Fresh, At, FoundChunks
<1>14. CASE \E kind \in {"search", "context", "ask"} : Start(kind)
    BY <1>14 DEF Start, Fresh, At, FoundChunks
<1>15. CASE UNCHANGED queryVars
    BY <1>15 DEF queryVars, At, FoundChunks
<1> QED BY <1>2, <1>3, <1>4, <1>5, <1>6, <1>7, <1>8, <1>9, <1>10, <1>11, <1>12, <1>13, <1>14, <1>15, <1>16, <1>17
        DEF NextQuery, Step

(* However often the database is edited or swapped under a query, and whatever *)
(* Jev and the searches say, each passage it returns is a chunk that was       *)
(* accepted in some database the query could have read.                        *)
THEOREM ReturnsAcceptedPassages == QuerySpec => []PassagesWereAccepted
<1>1. InitQuery => FoundChunks
    BY DEF InitQuery, FoundChunks, At, Fresh
<1>2. QueryTyped /\ FoundChunks => PassagesWereAccepted
    BY DEF QueryTyped, FoundChunks, PassagesWereAccepted, At
<1> QED BY <1>1, <1>2, QueryStartsTyped, QueryStaysTyped, FoundPreserved, PTL DEF QuerySpec

-----------------------------------------------------------------------------
(* Decisions. *)

(* What Jev was asked is written, or held until it is; only a publish takes    *)
(* what was written.  Sentences are kept only of a draft, and each of those    *)
(* has been asked about.                                                       *)
HeldDecisions ==
    ~At("idle") =>
        /\ asked \subseteq audit \cup replaced \cup q.made
        /\ At("returned") => q.made = {}
        /\ q.pc \notin {"answer", "check", "finish", "returned"} => q.kept = {}
        /\ \A s \in q.kept : s.cites \cap q.passages # {} /\ <<"citation", s.id, s.cites>> \in asked

LEMMA HeldPreserved == QueryTyped /\ HeldDecisions /\ [NextQuery]_queryVars => HeldDecisions'
<1> SUFFICES ASSUME QueryTyped, HeldDecisions, [NextQuery]_queryVars PROVE HeldDecisions'
    OBVIOUS
<1> USE QueryFields
<1>1. DOMAIN q = DOMAIN Fresh
    BY DEF QueryTyped, QueryTypeOK
<1>2. CASE Route
    BY <1>1, <1>2 DEF Route, Reading, Made, At, HeldDecisions
<1>3. CASE Ann \/ Fts \/ Rows
    BY <1>1, <1>3 DEF Ann, Fts, Rows, Reading, At, HeldDecisions
<1>4. CASE Rerank
    BY <1>1, <1>4 DEF Rerank, Reading, Made, At, HeldDecisions
<1>5. CASE ReadLinks \/ ReadTexts
    BY <1>1, <1>5 DEF ReadLinks, ReadTexts, Reading, At, HeldDecisions
<1>7. CASE Gate
    BY <1>1, <1>7 DEF Gate, Reading, Made, At, HeldDecisions
<1>8. CASE Assemble
    BY <1>1, <1>8 DEF Assemble, Reading, At, HeldDecisions
<1>9. CASE Answerable
    BY <1>1, <1>9 DEF Answerable, Reading, Made, At, HeldDecisions
<1>10. CASE Persist \/ DraftAnswer \/ Finish
    BY <1>1, <1>10 DEF Persist, DraftAnswer, Finish, Reading, At, HeldDecisions
<1>11. CASE Check
    BY <1>1, <1>11 DEF Check, Reading, Made, At, HeldDecisions
<1>12. CASE EditGraph \/ Publish
    BY <1>12 DEF EditGraph, Publish, Change, At, HeldDecisions
<1>13. CASE Fail
    BY <1>13 DEF Fail, Fresh, At, HeldDecisions
<1>14. CASE \E kind \in {"search", "context", "ask"} : Start(kind)
    BY <1>14 DEF Start, Fresh, At, HeldDecisions
<1>15. CASE UNCHANGED queryVars
    BY <1>15 DEF queryVars, At, HeldDecisions
<1> QED BY <1>2, <1>3, <1>4, <1>5, <1>7, <1>8, <1>9, <1>10, <1>11, <1>12, <1>13, <1>14, <1>15
        DEF NextQuery, Step

(* A query that returns has written every question it put to Jev, those of a   *)
(* first draft that was thrown away too, and they are in the database that     *)
(* serves unless a publish has replaced the one they were written to; it keeps *)
(* no sentence Jev was not asked about with the passages it cites.             *)
THEOREM AuditsAnswers == QuerySpec => []AnswersAreAudited
<1>1. InitQuery => HeldDecisions
    BY DEF InitQuery, HeldDecisions, At, Fresh
<1>2. HeldDecisions => AnswersAreAudited
    BY DEF HeldDecisions, AnswersAreAudited, At
<1> QED BY <1>1, <1>2, QueryStartsTyped, QueryStaysTyped, HeldPreserved, PTL DEF QuerySpec

-----------------------------------------------------------------------------
(* Gating. *)

(* A decision is made by the rule, from the answers and the round it records.  *)
Ruled(d) == d = Decision(d.text, d.answers, d.repeat)
GatingInv == GatingTypeOK /\ Lint(qs) /\ \A d \in made \cup decisions : Ruled(d)

LEMMA DecisionIsRuled ==
    ASSUME NEW t, NEW answers, NEW repeat
    PROVE  Decision(t, answers, repeat).text = t /\ Ruled(Decision(t, answers, repeat))
BY DEF Decision, Ruled

(* By the lint, the threshold recorded for a question is that of each of its   *)
(* leaves with a threshold of its own.                                         *)
LEMMA RecordedForLeaf ==
    ASSUME NEW s, Lint(s), NEW l \in Leaves(s), HasOwn(l), NEW repeat
    PROVE  l.q \in DOMAIN ForLeaves(s, repeat) /\ ForLeaves(s, repeat)[l.q] = Raised(l.threshold, repeat)
<1> DEFINE m == CHOOSE x \in Leaves(s) : x.q = l.q /\ HasOwn(x)
<1>1. m \in Leaves(s) /\ m.q = l.q /\ HasOwn(m)
    OBVIOUS
<1>2. m.threshold = l.threshold
    BY <1>1 DEF Lint
<1> QED BY <1>2 DEF ForLeaves

(* A leaf says to the Worker what it said to the engine.                       *)
LEMMA WorkerReadsBar ==
    ASSUME Lint(qs), ~Mixed, NEW d, Ruled(d), NEW l \in Leaves(qs)
    PROVE  Leaf(l, d.answers, WithLeaves(d, l)) = Leaf(l, d.answers, Bar(qs, l, d.repeat))
<1>1. d.leaves = ForLeaves(qs, d.repeat) /\ d.threshold = Raised(Base(qs), d.repeat)
    BY DEF Ruled, Decision
<1>2. CASE "is" \notin DOMAIN l
    BY <1>2 DEF Leaf
<1>3. CASE HasOwn(l)
    <2>1. WithLeaves(d, l) = Raised(l.threshold, d.repeat)
        BY <1>1, <1>3, RecordedForLeaf DEF WithLeaves
    <2> QED BY <1>3, <2>1 DEF Bar
<1>4. CASE "is" \in DOMAIN l /\ ~HasOwn(l)
    <2>1. l.q \notin DOMAIN d.leaves
        BY <1>1, <1>4 DEF ForLeaves, Mixed
    <2>2. WithLeaves(d, l) = d.threshold
        BY <1>4, <2>1 DEF WithLeaves
    <2> QED BY <1>1, <1>4, <2>2 DEF Bar
<1> QED BY <1>2, <1>3, <1>4

LEMMA RuledIsGated ==
    ASSUME Lint(qs), ~Mixed, NEW d, Ruled(d)
    PROVE  WorkerOutcome(d) = d.outcome
<1>1. [l \in Leaves(qs) |-> Leaf(l, d.answers, WithLeaves(d, l))]
        = [l \in Leaves(qs) |-> Leaf(l, d.answers, Bar(qs, l, d.repeat))]
    BY WorkerReadsBar
<1>2. d.outcome = Evaluate(qs, d.answers, d.repeat)
    BY DEF Ruled, Decision
<1> QED BY <1>1, <1>2 DEF WorkerOutcome, Evaluate

LEMMA GatingStarts == InitGating => GatingInv
BY GatingAssumption DEF InitGating, GatingInv, GatingTypeOK

LEMMA CheckKeeps == GatingInv /\ CheckOverlaps => GatingInv'
<1> SUFFICES ASSUME GatingInv, CheckOverlaps PROVE GatingInv'
    OBVIOUS
<1>1. PICK new \in [vocabulary \ DOMAIN answered -> Replies] :
        LET known == [t \in DOMAIN answered \cup vocabulary |->
                         IF t \in DOMAIN answered THEN answered[t] ELSE new[t]]
            ds == {Decision(t, known[t], rounds) : t \in vocabulary} IN
        /\ answered' = known
        /\ IF \E t \in vocabulary : Unanswered(qs, known[t]) THEN Away
           ELSE /\ made' = made \cup ds
                /\ overlaps' = {d.text : d \in {x \in ds : x.outcome # "reject"}}
                /\ phase' = "judge"
                /\ UNCHANGED <<vocabulary, rounds>>
    BY DEF CheckOverlaps
<1> DEFINE known == [t \in DOMAIN answered \cup vocabulary |->
                         IF t \in DOMAIN answered THEN answered[t] ELSE new[t]]
           ds == {Decision(t, known[t], rounds) : t \in vocabulary}
<1>2. UNCHANGED <<qs, decisions, runs>>
    BY DEF CheckOverlaps
<1>3. answered' = known /\ DOMAIN known \subseteq Texts
    BY <1>1 DEF GatingInv, GatingTypeOK
<1>4. \A d \in ds : Ruled(d) /\ d.text \in vocabulary
    BY DecisionIsRuled
<1>5. CASE Away
    BY <1>2, <1>3, <1>5, GatingAssumption DEF Away, GatingInv, GatingTypeOK, Ruled, Decision
<1>6. CASE /\ made' = made \cup ds /\ overlaps' = {d.text : d \in {x \in ds : x.outcome # "reject"}}
           /\ phase' = "judge" /\ UNCHANGED <<vocabulary, rounds>>
    <2>1. \A d : Ruled(d) => Ruled(d)'
        BY <1>2 DEF Ruled, Decision
    <2> HIDE DEF ds, known
    <2>2. \A d \in made' \cup decisions' : Ruled(d)'
        BY <1>2, <1>4, <1>6, <2>1 DEF GatingInv
    <2>3. overlaps' \subseteq Texts
        BY <1>4, <1>6 DEF GatingInv, GatingTypeOK
    <2> QED BY <1>2, <1>3, <1>6, <2>2, <2>3 DEF GatingInv, GatingTypeOK
<1> QED BY <1>1, <1>5, <1>6

LEMMA GatingKeeps == GatingInv /\ [NextGating]_gatingVars => GatingInv'
<1> SUFFICES ASSUME GatingInv, [NextGating]_gatingVars PROVE GatingInv'
    OBVIOUS
<1>1. \A d : qs' = qs /\ Ruled(d) => Ruled(d)'
    BY DEF Ruled, Decision
<1> USE GatingAssumption DEF GatingInv, GatingTypeOK
<1>2. CASE Draft
    BY <1>1, <1>2 DEF Draft
<1>3. CASE CheckOverlaps
    BY <1>3, CheckKeeps
<1>4. CASE Redraft
    BY <1>1, <1>4 DEF Redraft
<1>5. CASE Propose
    BY <1>1, <1>5 DEF Propose, Away
<1>6. CASE Die
    BY <1>1, <1>6 DEF Die, Away
<1>7. CASE UNCHANGED gatingVars
    BY <1>1, <1>7 DEF gatingVars
<1> QED BY <1>2, <1>3, <1>4, <1>5, <1>6, <1>7 DEF NextGating

(* For every question set that passes the lint, however its conditions nest,   *)
(* for any thresholds, answers and rounds: a decision that is written comes    *)
(* out the same when the Worker gates its answers by the thresholds that the   *)
(* row and the bundle have, though these were raised when the row was made.    *)
THEOREM GatesAsRecorded == GatingSpec => []GatedAsRecorded
<1>1. GatingInv => GatedAsRecorded
    BY RuledIsGated DEF GatingInv, GatedAsRecorded
<1> QED BY <1>1, GatingStarts, GatingKeeps, PTL DEF GatingSpec

-----------------------------------------------------------------------------
(* The composition: each of the three, while another runs, stutters.           *)

(* What the server and its two helpers promise holds of an instance whichever  *)
(* of them it runs.                                                            *)
THEOREM ServesAsPromised ==
    ServingSpec => [](PassagesWereAccepted /\ AnswersAreAudited /\ GatedAsRecorded /\ WithinProfileRate)
<1>1. InitServing => InitQuery /\ InitGating /\ InitLimiter
    BY DEF InitServing
<1>2. [Serve \/ Judge \/ Limit(NextLimiter)]_servingVars =>
        [NextQuery]_queryVars /\ [NextGating]_gatingVars /\ [NextLimiter]_limiterVars
    BY DEF Serve, Judge, Limit, servingVars
<1>3. ServingSpec => QuerySpec /\ GatingSpec /\ LimiterSpec
    BY <1>1, <1>2, PTL DEF ServingSpec, QuerySpec, GatingSpec, LimiterSpec
<1> QED BY <1>3, ReturnsAcceptedPassages, AuditsAnswers, GatesAsRecorded, CallsStayWithinRate, PTL
=============================================================================
