------------------------------ MODULE Checkout ------------------------------
(***************************************************************************)
(* The abstract machine the ledger implements: an item is checked out to   *)
(* one run for one input hash; while it is, and only then, that run may    *)
(* publish outputs, and what it publishes is of the hash it was given or   *)
(* of inputs the item had at a moment while it was checked out.            *)
(***************************************************************************)
CONSTANTS Runs, Items, Hashes, NoRun, NoHash

VARIABLES
    input,     \* input[i]: the hash of item i's inputs now
    checkout,  \* checkout[i]: the run and hash item i is checked out for, and what was read
    out        \* out[i]: the hash whose outputs are published for item i

Free == [run |-> NoRun, hash |-> NoHash, read |-> NoHash]

Init ==
    /\ input \in [Items -> Hashes]
    /\ checkout = [i \in Items |-> Free]
    /\ out = [i \in Items |-> NoHash]

(* The item's inputs change, whoever holds it. *)
Change(i, h) ==
    /\ input' = [input EXCEPT ![i] = h]
    /\ UNCHANGED <<checkout, out>>

Take(i, r, h) ==
    /\ checkout[i] = Free
    /\ checkout' = [checkout EXCEPT ![i] = [run |-> r, hash |-> h, read |-> NoHash]]
    /\ UNCHANGED <<input, out>>

(* The holder reads the inputs once: those it was given, or those there are. *)
Read(i, h) ==
    /\ checkout[i] # Free /\ checkout[i].read = NoHash
    /\ h \in {checkout[i].hash, input[i]}
    /\ checkout' = [checkout EXCEPT ![i].read = h]
    /\ UNCHANGED <<input, out>>

Publish(i) ==
    /\ checkout[i].read # NoHash
    /\ out' = [out EXCEPT ![i] = checkout[i].read]
    /\ checkout' = [checkout EXCEPT ![i] = Free]
    /\ UNCHANGED input

(* A failure or a stop gives one item back; a crash, all a run holds. *)
GiveBack(S) ==
    /\ checkout' = [i \in Items |-> IF i \in S THEN Free ELSE checkout[i]]
    /\ UNCHANGED <<input, out>>

Next ==
    \/ \E i \in Items, h \in Hashes : Change(i, h) \/ Read(i, h)
    \/ \E i \in Items, r \in Runs, h \in Hashes : Take(i, r, h)
    \/ \E i \in Items : Publish(i)
    \/ \E S \in SUBSET Items : GiveBack(S)

Spec == Init /\ [][Next]_<<input, checkout, out>>

=============================================================================
