--------------------------- MODULE MCJournalPair ----------------------------
(* Both run journals on a small instance. *)
EXTENDS JournalPair, TLC

CONSTANTS h1, h2, k1, p1, running, paused

MCHolders  == {h1, h2}
MCKeys     == {k1}
MCPayloads == {p1}
MCStatuses == {running, paused}

Symmetric == Permutations(MCHolders) \cup Permutations(MCStatuses)
=============================================================================
