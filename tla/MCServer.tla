------------------------------ MODULE MCServer ------------------------------
(***************************************************************************)
(* ServerConn for TLC: r1 has a controller, so has r2, whose responses the *)
(* codec refuses half way, and r3 has none.                                *)
(***************************************************************************)
EXTENDS ServerConn

CONSTANTS r1, r2, r3
=============================================================================
