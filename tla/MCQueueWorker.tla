--------------------------- MODULE MCQueueWorker ---------------------------
(* Small instances of QueueWorker for TLC. *)
EXTENDS QueueWorker, TLC

Symmetry == Permutations(JobId) \cup Permutations(Worker)
=============================================================================
