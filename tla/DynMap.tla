------------------------------- MODULE DynMap -------------------------------
(***************************************************************************)
(* Nested maps with dotted keys (dynmap/dynmap.go), as far as Stats and    *)
(* Packets use them.  A dotted key is the sequence of its names, and a map *)
(* is given by its leaves: a function from the keys of the leaves to their *)
(* values.  A key that is a proper prefix of a leaf's key is the key of a  *)
(* sub map, which is never empty.                                          *)
(***************************************************************************)
EXTENDS Naturals, Sequences, SequencesExt

EmptyMap == [k \in {} |-> 0]

(* The leaf p lies in the sub map at k.                                    *)
Under(k, p) == IsStrictPrefix(k, p)

IsDynMap(m) == \A k, p \in DOMAIN m : ~Under(k, p)

(* Get, then a conversion such as ToInt64: a sub map is no number, and     *)
(* nothing is found below a number.                                        *)
MustInt64(m, k, def) == IF k \in DOMAIN m THEN m[k] ELSE def

(* A value on the way to k refuses the new one (PutWithDot's error, which  *)
(* its callers ignore); a sub map at k is replaced as a whole.             *)
PutWithDot(m, k, v) ==
  IF \E p \in DOMAIN m : Under(p, k) THEN m
  ELSE [p \in {k} \cup {q \in DOMAIN m : ~Under(k, q)} |-> IF p = k THEN v ELSE m[p]]
=============================================================================
