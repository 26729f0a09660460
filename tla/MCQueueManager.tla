---------------------------- MODULE MCQueueManager ----------------------------
(***************************************************************************)
(* Instances of QueueManager for TLC.                                      *)
(***************************************************************************)
EXTENDS QueueManager, TLC

\* The threads are interchangeable.
Symmetry == Permutations(Callers)
===============================================================================
