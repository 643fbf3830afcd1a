----------------------------- MODULE MCSchedule -----------------------------
(* Instances of the schedule service for TLC. *)
EXTENDS ScheduleCorrectness, TLC

\* Processes and tokens are interchangeable: sound for the safety runs.
Symmetry == Permutations(Workers) \cup Permutations(Producers)
                \cup Permutations(Tokens)
=============================================================================
