----------------------------- MODULE MCApprovals -----------------------------
\* A requester and a manager in one scope.
EXTENDS Approvals, TLC

MCIdentities ==
    {[user |-> "ann", scope |-> "a", role |-> "customer"],
     [user |-> "max", scope |-> "a", role |-> "manager"]}

Symmetry == Permutations(Handlers) \cup Permutations(Ids)
                \cup Permutations(Tokens) \cup Permutations(Args)
=============================================================================
