---------------------------- MODULE MCPoolQueue ----------------------------
(* The pool queue on small instances. *)
EXTENDS PoolQueue, TLC

CONSTANTS h1, w1, w2, f1, k1, k2, d1, d2, m1, c1, o1, s1, v1, v2, ok, retry

MCWorks    == {w1, w2}
MCKeys     == {<<w1, "start">>, <<w1, c1>>}
TwoKeys    == MCWorks \X {"start", c1}
MCPayloads == {v1, v2}
MCWorkers  == {k1, k2}

Symmetric      == Permutations(MCWorkers) \cup Permutations(MCPayloads)
SymmetricWorks == Permutations(MCWorks)
=============================================================================
