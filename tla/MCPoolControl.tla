---------------------------- MODULE MCPoolControl ---------------------------
(***************************************************************************)
(* PoolControl for model checking: one worker.                             *)
(***************************************************************************)
EXTENDS PoolControl

One == {"w1"}
=============================================================================
