----------------------------- MODULE MCNamespace -----------------------------
(* Namespace.tla for TLC.  Nothing distinguishes the folders, or the names.  *)
EXTENDS Namespace

LOCAL INSTANCE TLC

Symmetry == Permutations(Folders) \cup Permutations(Bases)
=============================================================================
