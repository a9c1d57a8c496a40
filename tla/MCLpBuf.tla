------------------------------ MODULE MCLpBuf ------------------------------
(* The threads of LpBuf for TLC: the player, and a helper that buffers. *)
EXTENDS LpBuf

CONSTANTS player, helper
=============================================================================
