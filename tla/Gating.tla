------------------------------- MODULE Gating -------------------------------
(***************************************************************************)
(* jev/gating.py: whether Jev's answers to a question set mean "accept".   *)
(* The one question that comes back to Jev for the same subject is whether *)
(* two drafted relation types overlap: S0 has every pair judged and the    *)
(* harness redraft the vocabulary until none is flagged, each round at a   *)
(* higher bar (s0_bootstrap._verify).  The Cloudflare Worker gates its own *)
(* answers with other code, at the thresholds the bundle has for it.       *)
(*                                                                         *)
(* The question set is any that passes the lint.  A probability is a       *)
(* number out of Unit and the back-off one half; with Unit a power of two  *)
(* every threshold is exact.                                               *)
(***************************************************************************)
EXTENDS Integers

CONSTANTS
    Unit,         \* probability one
    Threshold,    \* policies.gating.threshold
    QuestionSets, \* [accept: a condition, threshold: its own or Unset]
    Unset,        \* a threshold that is not given
    Conditions,   \* the conditions of the question sets, and their parts
    Replies,      \* answers Jev may give: functions of the questions asked
    Texts,        \* pairs of relation types, by their definitions
    MaxRounds,    \* policies.bootstrap.max_disambiguation_rounds
    MaxRuns       \* bound on the bootstraps

ASSUME GatingAssumption ==
    /\ Threshold \in 0..(Unit - 1) /\ Unset \notin 0..Unit
    /\ MaxRounds \in Nat /\ Unit % 2^MaxRounds = 0 /\ MaxRuns \in Nat

VARIABLES
    qs,         \* the question set, from the active Registry
    answered,   \* jev_calls: Jev's answers, by the text asked about
    phase, vocabulary, rounds, overlaps, made,  \* locals of a bootstrap
    decisions,  \* the decisions table
    runs

gatingVars == <<qs, answered, phase, vocabulary, rounds, overlaps, made, decisions, runs>>

-----------------------------------------------------------------------------
(* A condition is [all: conditions], [any: conditions], [not: a condition] or *)
(* a leaf: [q, is, threshold, ifAsked] on a Noul, [q, in, ifAsked] on a       *)
(* Choice (eq, in, not_in as the options that count) or a Score.              *)
Parts(c) ==
    IF "all" \in DOMAIN c THEN c.all
    ELSE IF "any" \in DOMAIN c THEN c.any
    ELSE IF "not" \in DOMAIN c THEN {c.not}
    ELSE {}

ASSUME ConditionsAssumption ==
    /\ \A s \in QuestionSets : s.accept \in Conditions
    /\ \A c \in Conditions : Parts(c) \subseteq Conditions

LeavesOf[c \in Conditions] ==
    IF "q" \in DOMAIN c THEN {c} ELSE UNION {LeavesOf[x] : x \in Parts(c)}
Leaves(s) == LeavesOf[s.accept]

HasOwn(l) == "threshold" \in DOMAIN l /\ l.threshold # Unset

(* Two leaves on one question must not set two thresholds.  (That questions    *)
(* exist and leaves have their type's form is in the shape of conditions.)     *)
Lint(s) == \A l, m \in Leaves(s) :
    l.q = m.q /\ HasOwn(l) /\ HasOwn(m) => l.threshold = m.threshold

(* Back-off: half the distance to one is left per repeat. *)
Raised(base, repeat) == Unit - (Unit - base) \div 2^repeat
Base(s) == IF s.threshold = Unset THEN Threshold ELSE s.threshold

(* The level rated most probable, the lowest of several: levels of one digit, which *)
(* sort alike as strings.                                                     *)
TopLevel(probs) ==
    CHOOSE l \in DOMAIN probs : \A m \in DOMAIN probs : probs[m] <= probs[l] /\ (probs[m] = probs[l] => l <= m)

(* says_yes, says_no: Jev's probability for what it says is above the bar. *)
Says(is, p, bar) == IF is = "yes" THEN p > bar ELSE Unit - p > bar

(* What a condition says, as the set of its truth value; {} if every question *)
(* it is about was if_asked and not asked.                                    *)
And(values) == {v \in {FALSE \notin UNION values} : UNION values # {}}
Or(values) == {v \in {TRUE \in UNION values} : UNION values # {}}

Leaf(l, answers, bar) ==
    IF l.q \notin DOMAIN answers THEN {}
    ELSE IF "is" \notin DOMAIN l THEN {TopLevel(answers[l.q]) \in l.in}
    ELSE {Says(l.is, answers[l.q], bar)}

(* The value of condition c, when its leaves have the values of leaf.         *)
Eval(c, leaf) ==
    LET value[x \in Conditions] ==
            IF "all" \in DOMAIN x THEN And({value[y] : y \in x.all})
            ELSE IF "any" \in DOMAIN x THEN Or({value[y] : y \in x.any})
            ELSE IF "not" \in DOMAIN x THEN {~v : v \in value[x.not]}
            ELSE leaf[x]
    IN value[c]

Outcome(c, leaf) == IF Eval(c, leaf) = {FALSE} THEN "reject" ELSE "accept"

Bar(s, l, repeat) == Raised(IF HasOwn(l) THEN l.threshold ELSE Base(s), repeat)
Evaluate(s, answers, repeat) ==
    Outcome(s.accept, [l \in Leaves(s) |-> Leaf(l, answers, Bar(s, l, repeat))])

(* A leaf without its answer, unless it is if_asked, is a RegistryError. *)
Unanswered(s, answers) == \E l \in Leaves(s) : l.q \notin DOMAIN answers /\ ~l.ifAsked

-----------------------------------------------------------------------------
(* Regression: the row has a leaf's threshold as the Registry has it. *)
ForLeavesAsGiven(s, repeat) ==
    [q \in {l.q : l \in {x \in Leaves(s) : HasOwn(x)}} |->
        (CHOOSE l \in Leaves(s) : l.q = q /\ HasOwn(l)).threshold]

(* What a decision's row says of the thresholds its answers were gated at.    *)
ForLeaves(s, repeat) ==
    [q \in {l.q : l \in {x \in Leaves(s) : HasOwn(x)}} |->
        Raised((CHOOSE l \in Leaves(s) : l.q = q /\ HasOwn(l)).threshold, repeat)]

Decision(t, answers, repeat) ==
    [text |-> t, repeat |-> repeat, answers |-> answers,
     outcome |-> Evaluate(qs, answers, repeat),
     threshold |-> Raised(Base(qs), repeat), leaves |-> ForLeaves(qs, repeat)]

Id(d) == <<d.text, d.repeat>>

(* The Worker, from the bundle's thresholds: a question's, then the leaf's own, *)
(* then the question set's, none of which it raises.                          *)
WithLeaves(d, l) ==
    IF l.q \in DOMAIN d.leaves THEN d.leaves[l.q]
    ELSE IF HasOwn(l) THEN l.threshold
    ELSE d.threshold

WorkerOutcome(d) ==
    Outcome(qs.accept, [l \in Leaves(qs) |-> Leaf(l, d.answers, WithLeaves(d, l))])

-----------------------------------------------------------------------------
InitGating ==
    /\ qs \in {s \in QuestionSets : Lint(s)}
    /\ answered = <<>>
    /\ phase = "idle"
    /\ vocabulary = {} /\ rounds = 0 /\ overlaps = {} /\ made = {}
    /\ decisions = {}
    /\ runs = 0

Phase(p) == phase = p
Away == phase' = "idle" /\ vocabulary' = {} /\ rounds' = 0 /\ overlaps' = {} /\ made' = {}

(* The harness drafts a vocabulary. *)
Draft ==
    /\ Phase("idle") /\ runs < MaxRuns
    /\ runs' = runs + 1
    /\ vocabulary' \in SUBSET Texts
    /\ phase' = "check"
    /\ UNCHANGED <<qs, answered, rounds, overlaps, made, decisions>>

(* check_definitions: every pair is asked about, at the round's bar, whichever *)
(* pair it was that an earlier round flagged; a text asked before is answered  *)
(* from the cache.                                                             *)
CheckOverlaps ==
    /\ Phase("check")
    /\ \E new \in [vocabulary \ DOMAIN answered -> Replies] :
        LET known == [t \in DOMAIN answered \cup vocabulary |->
                         IF t \in DOMAIN answered THEN answered[t] ELSE new[t]]
            ds == {Decision(t, known[t], rounds) : t \in vocabulary} IN
        /\ answered' = known
        /\ IF \E t \in vocabulary : Unanswered(qs, known[t]) THEN Away
           ELSE /\ made' = made \cup ds
                /\ overlaps' = {d.text : d \in {x \in ds : x.outcome # "reject"}}
                /\ phase' = "judge"
                /\ UNCHANGED <<vocabulary, rounds>>
    /\ UNCHANGED <<qs, decisions, runs>>

(* A round: the harness redrafts, which may leave any pair as it was. *)
Redraft ==
    /\ Phase("judge") /\ overlaps # {} /\ rounds < MaxRounds
    /\ rounds' = rounds + 1
    /\ vocabulary' \in SUBSET Texts
    /\ phase' = "check"
    /\ UNCHANGED <<qs, answered, overlaps, made, decisions, runs>>

(* No overlap is left, the rounds are up or the redraft failed: the proposal   *)
(* goes to the human gate, and the decisions of every round are written.       *)
Propose ==
    /\ Phase("judge")
    /\ decisions' = {d \in decisions : \A e \in made : Id(e) # Id(d)} \cup made
    /\ Away
    /\ UNCHANGED <<qs, answered, runs>>

(* The process dies; what Jev was paid for is kept. *)
Die ==
    /\ ~Phase("idle")
    /\ Away
    /\ UNCHANGED <<qs, answered, decisions, runs>>

NextGating == Draft \/ CheckOverlaps \/ Redraft \/ Propose \/ Die

GatingSpec == InitGating /\ [][NextGating]_gatingVars

-----------------------------------------------------------------------------
GatingTypeOK ==
    /\ qs \in QuestionSets
    /\ DOMAIN answered \subseteq Texts
    /\ phase \in {"idle", "check", "judge"}
    /\ overlaps \cup vocabulary \subseteq Texts
    /\ rounds \in 0..MaxRounds
    /\ runs \in 0..MaxRuns

(* A question gated both on a leaf with a threshold of its own and on one      *)
(* without: lint lets it pass, and row and bundle have one threshold for both. *)
Mixed == \E l, m \in Leaves(qs) : l.q = m.q /\ HasOwn(l) /\ "is" \in DOMAIN m /\ ~HasOwn(m)

(* A decision is what its row explains: gated again from the answers and the   *)
(* thresholds recorded (Decision.threshold_for), as a reader of it does or the *)
(* Worker, by its own code, from the bundle, it comes out the same.            *)
GatedAsRecorded == GatingTypeOK /\ \A d \in decisions : Mixed \/ WorkerOutcome(d) = d.outcome
=============================================================================
