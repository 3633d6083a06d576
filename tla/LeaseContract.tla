--------------------------- MODULE LeaseContract ----------------------------
(***************************************************************************)
(* What a pool of connections promises (client/pool.go): a connection is   *)
(* "not threadsafe and should only be used in one routine at a time"       *)
(* (client/connection.go), so it is lent to one goroutine at a time, and   *)
(* one that was retired is never lent again.                               *)
(***************************************************************************)
CONSTANTS
  Conns,      (* connections                                               *)
  Users       (* goroutines that borrow them, other values than the three  *)
              (* places "new", "free" and "retired"                        *)

VARIABLE holder  (* who has each connection, or where it is                *)

Init == holder = [c \in Conns |-> "new"]

Pass(c, from, to) ==
  /\ holder[c] = from
  /\ holder' = [holder EXCEPT ![c] = to]

Create(c) == Pass(c, "new", "free")
Lend(c, u) == Pass(c, "free", u)
GiveBack(c, u) == Pass(c, u, "free")
Retire(c) == \E from \in Users \cup {"free"} : Pass(c, from, "retired")

Next == \E c \in Conns :
  \/ Create(c) \/ Retire(c)
  \/ \E u \in Users : Lend(c, u) \/ GiveBack(c, u)

Spec == Init /\ [][Next]_holder
=============================================================================
