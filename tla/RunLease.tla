------------------------------- MODULE RunLease -------------------------------
(***************************************************************************)
(* What claim_run and complete_run promise together, without Redis: a slot *)
(* has at most one live owner, an owner may lose the slot at any time, and *)
(* only a live owner can record the slot as finished.                      *)
(***************************************************************************)
CONSTANTS Workers, Slots

VARIABLES
    owners,     \* the workers whose lease on a slot is still running
    finished    \* slots recorded as completed

vars == <<owners, finished>>

Init ==
    /\ owners = [k \in Slots |-> {}]
    /\ finished = {}

Acquire(w, k) ==
    /\ owners[k] = {}
    /\ owners' = [owners EXCEPT ![k] = {w}]
    /\ UNCHANGED finished

\* Leases run out, or owners die: any number of them in one step.
Lapse ==
    /\ owners' \in [Slots -> SUBSET Workers]
    /\ \A k \in Slots : owners'[k] \subseteq owners[k]
    /\ UNCHANGED finished

Finish(w, k) ==
    /\ w \in owners[k]
    /\ owners' = [owners EXCEPT ![k] = {}]
    /\ finished' = finished \cup {k}

Next ==
    \/ \E w \in Workers, k \in Slots : Acquire(w, k) \/ Finish(w, k)
    \/ Lapse

Spec == Init /\ [][Next]_vars

\* No slot ever has two live owners.
Exclusive == \A k \in Slots : \A v, w \in owners[k] : v = w
=============================================================================
