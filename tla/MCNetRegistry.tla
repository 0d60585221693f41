--------------------------- MODULE MCNetRegistry ---------------------------
(* Small instances of NetRegistry for TLC.                                 *)
EXTENDS NetRegistry, TLC

Renamings == Permutations(Threads) \cup Permutations(Fds)
=============================================================================
