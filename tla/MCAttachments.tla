---------------------------- MODULE MCAttachments ----------------------------
EXTENDS Attachments, TLC

Symmetry == Permutations(Handlers) \cup Permutations(Ids)
                \cup Permutations(Owners)
=============================================================================
