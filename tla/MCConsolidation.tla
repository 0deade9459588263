------------------------- MODULE MCConsolidation -------------------------
(* Small instances of Consolidation. *)
EXTENDS Consolidation, TLC

CONSTANTS c1, c2, r1, r2, x1

Load(c, r, x, overlap, s, f) ==
  [consolidations |-> c, resumes |-> r, readers |-> x, overlap |-> overlap, stops |-> s, faults |-> f]

\* Consolidations that overlap; one after the other, with two resumes and an
\* unavailable shard; and a read.
MCLoads ==
  {Load(2, 1, 0, TRUE, 1, 0), Load(2, 2, 0, FALSE, 2, 1), Load(1, 1, 1, FALSE, 1, 0)}

ConsolidationSymmetry == Permutations(Consolidations) \cup Permutations(Resumes)

==========================================================================
