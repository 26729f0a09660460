---------------------------- MODULE MCWriteBack ----------------------------
EXTENDS WriteBack, TLC

Symmetry == Permutations(PendingIds) \cup Permutations(SpareIds)

=============================================================================
