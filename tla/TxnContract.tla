---------------------------- MODULE TxnContract ----------------------------
(***************************************************************************)
(* What a STREST client promises to the user of one transaction, whatever  *)
(* the goroutines, queues and sockets under it do (client/client.go, the   *)
(* Client interface, and protocol.md, "Transactions"):                     *)
(*  - a request is either refused at once or opened;                       *)
(*  - an open transaction receives responses until one completes it;       *)
(*  - it fails only after its connection is down;                          *)
(*  - nothing happens to it after it has completed or failed.              *)
(***************************************************************************)
EXTENDS Naturals

CONSTANT Reqs       (* the requests of one connection                      *)

VARIABLES
  phase,            (* how far each transaction is                         *)
  responses,        (* how many responses each transaction received        *)
  linkUp            (* the connection has not been declared dead           *)

vars == <<phase, responses, linkUp>>

Init ==
  /\ phase = [r \in Reqs |-> "new"]
  /\ responses = [r \in Reqs |-> 0]
  /\ linkUp = TRUE

Move(r, from, to) ==
  /\ phase[r] = from
  /\ phase' = [phase EXCEPT ![r] = to]

(* ApiCall returns an error: no transaction                                *)
Refuse(r) == Move(r, "new", "refused") /\ UNCHANGED <<responses, linkUp>>

(* ApiCall returns nil                                                     *)
Open(r) == Move(r, "new", "open") /\ UNCHANGED <<responses, linkUp>>

(* a response with txn status "continue", or "completed"                   *)
Respond(r) ==
  /\ linkUp
  /\ Move(r, "open", "open") \/ Move(r, "open", "completed")
  /\ responses' = [responses EXCEPT ![r] = @ + 1]
  /\ UNCHANGED linkUp

(* an error on the error channel                                           *)
Fail(r) ==
  /\ ~linkUp
  /\ Move(r, "open", "failed")
  /\ UNCHANGED <<responses, linkUp>>

GoDown == linkUp /\ linkUp' = FALSE /\ UNCHANGED <<phase, responses>>

Next ==
  \/ GoDown
  \/ \E r \in Reqs : Refuse(r) \/ Open(r) \/ Respond(r) \/ Fail(r)

Spec == Init /\ [][Next]_vars
=============================================================================
