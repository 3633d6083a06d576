---------------------------- MODULE MCClientPool ----------------------------
(***************************************************************************)
(* Constants of ClientPool for TLC.  Callers and connections are used only *)
(* through equality, so safety runs may permute them.                      *)
(***************************************************************************)
EXTENDS ClientPool, TLC

Symmetry == Permutations(Callers) \cup Permutations(Conns)
=============================================================================
