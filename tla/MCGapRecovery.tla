------------------------------ MODULE MCGapRecovery ------------------------------
(* A short session, requests of at most two messages and a two-tick interval:
   chunks are split, ranges merge across rounds and expire between them. *)
EXTENDS GapRecovery
=============================================================================
