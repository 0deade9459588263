---------------------------- MODULE MCPoolPlaces ----------------------------
(* The places of a worker pool on a small instance. *)
EXTENDS PoolPlaces

CONSTANTS s1, s2, s3

Three == {s1, s2, s3}
=============================================================================
