---------------------------- MODULE MCWorkerPool ----------------------------
(* Small instances of WorkerPool for TLC.                                  *)
EXTENDS WorkerPool, TLC

Threads == Permutations(Workers) \cup Permutations(Conns) \cup Permutations(Signals)
=============================================================================
