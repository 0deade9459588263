------------------------- MODULE MCPoolCoordinator -------------------------
(* The coordinator on small instances. *)
EXTENDS PoolCoordinator, TLC

CONSTANTS h1, w1, k1, k2, d1, d2, m1, v1, ok, retry

MCKeys    == {<<w1, "start">>}
MCWorkers == {k1, k2}

Symmetric == Permutations(MCWorkers)
=============================================================================
