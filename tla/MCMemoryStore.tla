---------------------------- MODULE MCMemoryStore ----------------------------
EXTENDS MemoryStore, TLC

CONSTANTS r1, r2, c1, c2, k1

MCRuns == {r1, r2}
MCSetting == c1 :> "dev" @@ c2 :> "owner"
MCPlans == {<<k1>>, <<k1, Bad>>}
(* Begun before midnight, a clean-up of 0 days has the cutoff that one of a *)
(* day has after it.                                                        *)
MCRetentions == {[days |-> 0, keep |-> 1]}
Symmetry == Permutations(MCRuns)
=============================================================================
