---------------------------- MODULE MCClientConn ----------------------------
(***************************************************************************)
(* Constants of ClientConn for TLC.                                        *)
(***************************************************************************)
EXTENDS ClientConn, TLC

CONSTANTS r1, r2, r3

(* ids as NewTxnId makes them: one for each request                        *)
UniqueIds == [r \in Reqs |-> r]
=============================================================================
