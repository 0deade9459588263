-------------------------- MODULE MCJournalBackend --------------------------
(* JournalBackend for model checking: two backends of one run. *)
EXTENDS JournalBackend, TLC

CONSTANTS b1, b2, k1, p1, s1, s2

Load(backends, menu, asks, x, f) ==
  [backends |-> backends, menu |-> menu, asks |-> asks, execs |-> x, faults |-> f]

\* Transitions, checkpoints and the pool's appends; registration and deletion; a
\* failing journal; two executions on one backend that closes.
MCLoads ==
  {Load({b1, b2}, {"transition", "handoff", "checkpoint", "pool"}, b1 :> 1 @@ b2 :> 1, 0, 0),
   Load({b1, b2}, {"register", "delete"}, b1 :> 2 @@ b2 :> 1, 0, 0),
   Load({b1, b2}, {"register", "transition"}, b1 :> 1 @@ b2 :> 1, 0, 1),
   Load({b1}, {"register", "delete", "release", "close"}, b1 :> 2 @@ b2 :> 0, 2, 0)}
=============================================================================
