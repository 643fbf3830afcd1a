------------------------------ MODULE RunOutcome ------------------------------
(***************************************************************************)
(* What the agent runtime promises about the end of a run: its terminal    *)
(* status is recorded at most once, and a caller is answered only with a   *)
(* status that was recorded before.  A run may end without an answer.      *)
(***************************************************************************)
CONSTANTS Runs, Statuses, None

VARIABLES
    recorded,   \* <<run, status>> in the durable audit trail
    answered    \* per run: None, a status, or "raised"

vars == <<recorded, answered>>

Init ==
    /\ recorded = {}
    /\ answered = [r \in Runs |-> None]

\* Terminal statuses enter the trail; those of runs that ended without an
\* answer may do so later, together with another run's.
Record ==
    LET new == recorded' \ recorded IN
      /\ recorded \subseteq recorded'
      /\ new \subseteq Runs \X Statuses
      /\ \A x \in new : answered[x[1]] \in {None, "raised"}
      /\ \A x \in new, y \in recorded' : x[1] = y[1] => x = y
      /\ \/ UNCHANGED answered
         \/ \E r \in Runs : /\ answered[r] = None
                           /\ answered' = [answered EXCEPT ![r] = "raised"]

Answer(r, s) ==
    /\ answered[r] = None
    /\ <<r, s>> \in recorded
    /\ answered' = [answered EXCEPT ![r] = s]
    /\ UNCHANGED recorded

\* Runs end together when their process does.
Abandon(ended) ==
    /\ \A r \in ended : answered[r] = None
    /\ answered' = [r \in Runs |-> IF r \in ended THEN "raised" ELSE answered[r]]
    /\ UNCHANGED recorded

Next ==
    \/ Record
    \/ \E r \in Runs, s \in Statuses : Answer(r, s)
    \/ \E ended \in SUBSET Runs : Abandon(ended)

Spec == Init /\ [][Next]_vars
=============================================================================
