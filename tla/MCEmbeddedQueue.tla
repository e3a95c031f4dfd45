--------------------------- MODULE MCEmbeddedQueue ---------------------------
(* Small instances of EmbeddedQueue for TLC.                               *)
EXTENDS EmbeddedQueue, TLC

Symmetry == Permutations(Jobs) \cup Permutations(Threads)
=============================================================================
