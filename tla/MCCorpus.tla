------------------------------ MODULE MCCorpus ------------------------------
(* Corpus and Metadata on small instances: files whose texts share parts.    *)
EXTENDS CorpusMetadata, TLC

CONSTANTS a, b, c, t1, t2, t3, t4, x, x2, y, z

(* a is edited; b appears, with the text a has or had, and goes out of       *)
(* scope; c is removed.                                                      *)
Growing == (a :> <<t1, t2>>) @@ (b :> <<NoText, t1, t3>>) @@ (c :> <<t4, NoText>>)

(* a is edited, and the edit is undone.                                      *)
Undone == (a :> <<t1, t2, t1>>) @@ (b :> <<t3>>) @@ (c :> <<t4>>)

(* Parts x and x2 say the same.                                              *)
SameWords == (x :> 1) @@ (x2 :> 1) @@ (y :> 2) @@ (z :> 3)

(* t1 repeats a text.  The second Registry version moves part y to t4.       *)
FirstCut == (t1 :> {x, x2, y}) @@ (t2 :> {x, z}) @@ (t3 :> {x}) @@ (t4 :> {x})
SecondCut == (t1 :> {x}) @@ (t2 :> {x, z}) @@ (t3 :> {x}) @@ (t4 :> {x, y})
TwoCuts == <<FirstCut, SecondCut>>
OneCut == <<FirstCut>>

(* b appears, and repeats a part of a.  The second version cuts both texts    *)
(* otherwise, the third as the first did.                                     *)
Repeated == (a :> <<t1>>) @@ (b :> <<NoText, t2>>)
Whole == (t1 :> {x}) @@ (t2 :> {x})
Smaller == (t1 :> {y}) @@ (t2 :> {z})
BackAgain == <<Whole, Smaller, Whole>>
Three == <<1, 1, 1>>
ChangedBack == <<1, 2, 1>>
One == <<1>>
Two == <<2>>
Same == <<1, 1>>
Changed == <<1, 2>>
OneWorkerThen == <<2, 1>>

(* Page 2 repeats one chunk of page 1, page 3 both; page 2's text names a     *)
(* release more specific than any there is.                                   *)
PassageOwner == ("p" :> 1) @@ ("q" :> 1) @@ ("s" :> 2)
Repeats == (1 :> {}) @@ (2 :> {"p"}) @@ (3 :> {"p", "q"})
Releases == {<<"9.1.1", "9.1">>, <<"9.1.1", "9">>, <<"9.1", "9">>}
InText == (1 :> {}) @@ (2 :> {"9.1.1"}) @@ (3 :> {})
=============================================================================
