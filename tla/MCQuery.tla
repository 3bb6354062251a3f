------------------------------- MODULE MCQuery -------------------------------
(* Query: three chunks; a triangle of links, one of another relation.  In the *)
(* second copy one chunk is no longer accepted and one is gone.               *)
(* Gating: two Nouls and a Score, as leaves and joined in twos.               *)
(* Limiter: light calls and one larger than the tokens bucket.                *)
EXTENDS Serving

CONSTANTS c1, c2, c3

AllLinks == {<<1, "a", "b", "r">>, <<2, "b", "c", "s">>, <<3, "a", "c", "r">>}
MCCopies ==
    {[there |-> {"a", "b", "c"}, accepted |-> {"a", "b", "c"}, links |-> AllLinks, communities |-> {{"a", "b"}}],
     [there |-> {"a", "b"}, accepted |-> {"b"}, links |-> {<<1, "a", "b", "r">>}, communities |-> {{"b"}}]}
Wide == [hops |-> 2, seeds |-> 2, relations |-> {"r", "s"}, communities |-> TRUE, outOfScope |-> FALSE]
Narrow == [hops |-> 1, seeds |-> 1, relations |-> {"r"}, communities |-> FALSE, outOfScope |-> FALSE]
Outside == [hops |-> 0, seeds |-> 0, relations |-> {}, communities |-> FALSE, outOfScope |-> TRUE]
MCPlans == {Wide, Outside}
MCDrafts ==
    {{[id |-> 1, cites |-> {<<"chunk", "a">>}], [id |-> 2, cites |-> {<<"chunk", "c">>, <<"chunk", "z">>}]},
     {[id |-> 3, cites |-> {<<"chunk", "z">>}]}, {}}

Noul(name, is, t, ifAsked) == [q |-> name, is |-> is, threshold |-> t, ifAsked |-> ifAsked]
LeafChoices ==
    {Noul("a", "yes", Unset, FALSE), Noul("a", "no", Unset, FALSE), Noul("a", "yes", 12, FALSE),
     Noul("a", "no", 8, FALSE), Noul("b", "no", Unset, TRUE), Noul("b", "yes", 12, TRUE),
     [q |-> "s", in |-> {1, 2}, ifAsked |-> FALSE]}
Pairs == kSubset(2, LeafChoices)
Gates == LeafChoices \cup UNION {{[all |-> S], [any |-> S], [not |-> [all |-> S]], [all |-> {[not |-> [any |-> S]]}]} : S \in Pairs}
MCConditions == Gates \cup {[not |-> [any |-> S]] : S \in Pairs}
MCQuestionSets == {[accept |-> c, threshold |-> t] : c \in Gates, t \in {Unset, 4}}
Scored == <<2, 2, 1>>
MCReplies ==
    {[a |-> p, s |-> Scored] : p \in {3, 9, 13}} \cup {[s |-> Scored]}
    \cup {[a |-> p, b |-> r, s |-> <<1, 1, 3>>] : p \in {9, 13}, r \in {2, 13}}

Profile == [rate |-> "req" :> 1 @@ "tok" :> 2, cap |-> "req" :> 1 @@ "tok" :> 3]
Rates == Profile.rate
Caps == Profile.cap
Needs == c1 :> ("req" :> 1 @@ "tok" :> 1) @@ c2 :> ("req" :> 1 @@ "tok" :> 2)
         @@ c3 :> ("req" :> 1 @@ "tok" :> 5)
=============================================================================
