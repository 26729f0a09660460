---------------------------- MODULE MCSyncManager ----------------------------
EXTENDS SyncManager, TLC

Symmetry == Permutations(PendingIds) \cup Permutations(SpareIds)

=============================================================================
