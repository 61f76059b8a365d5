----------------------------- MODULE MCAbArbitration -----------------------------
(* Two legs and a window of two over five messages: every message can be slid out of
   the window before its first copy, between its copies and after both. *)
EXTENDS AbArbitration
=============================================================================
