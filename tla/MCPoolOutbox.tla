---------------------------- MODULE MCPoolOutbox ----------------------------
(* The outbox of a pool with a remote journal on small instances. *)
EXTENDS PoolOutbox

CONSTANTS v1, v2

\* Two coordinators that overlap, with one attempt; then coordinators one after
\* the other, with two attempts and a crash: with a lost call, or with attempts
\* that disagree.
MCLoads ==
  {[epochs |-> 2, gens |-> 1, values |-> {v1}, lost |-> 0, crashes |-> 0, overlap |-> TRUE],
   [epochs |-> 3, gens |-> 2, values |-> {v1}, lost |-> 1, crashes |-> 1, overlap |-> FALSE],
   [epochs |-> 3, gens |-> 2, values |-> {v1, v2}, lost |-> 0, crashes |-> 1, overlap |-> FALSE]}
=============================================================================
