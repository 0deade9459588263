--------------------------- MODULE MCRequestLanes ---------------------------
(* The request lanes of one worker; the configurations bound its requests. *)
EXTENDS RequestLanes
=============================================================================
