--------------------------- MODULE ServerContract ---------------------------
(***************************************************************************)
(* What a client may rely on from the server's end of one connection: only *)
(* requests it received are answered, each answer arrives whole, answers   *)
(* to one request arrive in the order its handler wrote them, and nothing  *)
(* arrives once the server's end is closed.  Nothing is promised about the *)
(* order of answers to different requests, nor that there is an answer.    *)
(* ClientConn assumes no more than this of the other end of its socket.    *)
(***************************************************************************)
EXTENDS Slices, Naturals, Sequences

CONSTANT Reqs

VARIABLES
  served,     (* requests the server has decoded                           *)
  frames,     (* every whole response sent so far, as <<request, number>>  *)
  serverUp

vars == <<served, frames, serverUp>>

Init == served = {} /\ frames = <<>> /\ serverUp = TRUE

Answers(r) == Keep(frames, {r} \X Nat)

Serve(r) ==
  /\ serverUp
  /\ served' = served \cup {r}
  /\ UNCHANGED <<frames, serverUp>>

Respond(r) ==
  /\ serverUp
  /\ r \in served
  /\ frames' = Append(frames, <<r, Len(Answers(r)) + 1>>)
  /\ UNCHANGED <<served, serverUp>>

Down == serverUp /\ serverUp' = FALSE /\ UNCHANGED <<served, frames>>

Next == Down \/ \E r \in Reqs : Serve(r) \/ Respond(r)

Spec == Init /\ [][Next]_vars
=============================================================================
