----------------------------- MODULE MCRunService -----------------------------
EXTENDS RunService, TLC

MCIdentities ==
    {[owner |-> "ann", role |-> "customer"],
     [owner |-> "bob", role |-> "customer"]}

\* PostgreSQL shared by all replicas, or SQLite in a single one.
MCDeployments ==
    {[store |-> "postgres", replicas |-> Replicas]}
      \cup {[store |-> "sqlite", replicas |-> {p}] : p \in Replicas}

MCSqlite == {[store |-> "sqlite", replicas |-> Replicas]}

MCOneIdentity == {[owner |-> "ann", role |-> "customer"]}

Symmetry == Permutations(Replicas) \cup Permutations(Handlers)
                \cup Permutations(Ids)
=============================================================================
