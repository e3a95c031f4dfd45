--------------------------- MODULE MCExternalQueue ---------------------------
(* Small instances of ExternalQueue for TLC.                               *)
EXTENDS ExternalQueue, TLC

CONSTANTS w1, w2

OneTaskEach == [w \in Workers |-> 1]
OneAndTwo == w1 :> 1 @@ w2 :> 2

Symmetry == Permutations(Jobs) \cup Permutations(Workers)
=============================================================================
