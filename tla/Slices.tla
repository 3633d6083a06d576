------------------------------- MODULE Slices -------------------------------
(***************************************************************************)
(* The loop that several parts of the program, and of its specification,   *)
(* filter a slice with.  It is written out because the proofs unfold it;   *)
(* SelectSeq computes the same.                                            *)
(***************************************************************************)
EXTENDS Naturals, Sequences

(* The elements of q that are in K, in their order.                        *)
Keep(q, K) ==
  LET kept[i \in 0..Len(q)] ==
        IF i = 0 THEN <<>>
        ELSE IF q[i] \in K THEN Append(kept[i - 1], q[i]) ELSE kept[i - 1]
  IN  kept[Len(q)]
=============================================================================
