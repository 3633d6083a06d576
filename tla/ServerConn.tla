----------------------------- MODULE ServerConn -----------------------------
(***************************************************************************)
(* The server's end of one connection: the goroutine that decodes requests *)
(* (handleJSONConnection in cheshire/jsonlistener.go, handleConnection in  *)
(* cheshire/binarylistener.go, HandleWCConnection in                       *)
(* cheshire/websocketlistener.go), the goroutine it starts for each one    *)
(* (HandleRequest in cheshire/controllers.go) and the writer that these    *)
(* share, whose lock keeps their responses apart.                          *)
(*                                                                         *)
(* A response goes out in Parts pieces: one Write for JSON; for the binary *)
(* protocol many, through a buffer that is empty again when the lock is    *)
(* given up.  Filters and controllers are the application's code: they     *)
(* write what they like, as often as they like, from their own goroutine,  *)
(* and may go on for ever: the Firehose of the README looks at no error    *)
(* and does not stop when the connection is closed.                        *)
(***************************************************************************)
EXTENDS Slices, Naturals, Sequences, FiniteSets

CONSTANTS
  Reqs,        (* requests the client sends, in any order                  *)
  Routed,      (* those for which Router.Match finds a controller          *)
  Malformed,   (* those whose responses the codec refuses half way         *)
  Parts,       (* pieces of a response                                     *)
  MaxResp,     (* bound: responses filters and handlers write for one while *)
               (* the connection is open; there is none once it is closed  *)
  Window,      (* pieces the connection holds until the client reads them  *)
  NoReq

ASSUME ServerAssumption ==
  /\ Routed \subseteq Reqs /\ Malformed \subseteq Reqs
  /\ Parts \in Nat \ {0} /\ MaxResp \in Nat \ {0} /\ Window \in Nat \ {0}
  /\ NoReq \notin Reqs

VARIABLES
  wire,     (* requests on their way to the server                         *)
  unsent,   (* requests the client has not sent                            *)
  reader,   (* where the decoding goroutine stands                         *)
  sock,     (* the server's end of the connection                          *)
  handler,  (* where the goroutine of each request stands                  *)
  phase,    (* whose code it runs: the filters' or the controller's; or    *)
            (* the not-found controller has written its answer             *)
  lock,     (* who holds writerLock                                        *)
  part,     (* pieces of the current response that were written            *)
  written,  (* responses the goroutine began while the socket was open     *)
  unread,   (* pieces the client has not read                              *)
  pieces,   (* history: all pieces that went out                           *)
  served    (* history: requests decoded                                   *)

netVars == <<wire, unsent, unread>>
vars == <<netVars, reader, sock, handler, phase, lock, part, written, pieces, served>>

Piece(r) == [of |-> r, n |-> written[r], part |-> part[r] + 1]

Init ==
  /\ wire = <<>>
  /\ unsent = Reqs
  /\ reader = "read"
  /\ sock = "open"
  /\ handler = [r \in Reqs |-> "none"]
  /\ phase = [r \in Reqs |-> "filters"]
  /\ lock = NoReq
  /\ part = [r \in Reqs |-> 0]
  /\ written = [r \in Reqs |-> 0]
  /\ unread = 0
  /\ pieces = <<>>
  /\ served = {}

Goto(r, from, to) ==
  /\ handler[r] = from
  /\ handler' = [handler EXCEPT ![r] = to]
-----------------------------------------------------------------------------
(* The client (external): sends, and reads or does not read.               *)

ClientSends(r) ==
  /\ r \in unsent
  /\ unsent' = unsent \ {r}
  /\ wire' = Append(wire, r)
  /\ UNCHANGED <<unread, reader, sock, handler, phase, lock, part, written, pieces, served>>

ClientReads ==
  /\ unread > 0
  /\ unread' = unread - 1
  /\ UNCHANGED <<wire, unsent, reader, sock, handler, phase, lock, part,
                 written, pieces, served>>
-----------------------------------------------------------------------------
(* The decoding goroutine.                                                 *)

(* DecodeRequest, Router.Match, go HandleRequest                           *)
Decode ==
  /\ reader = "read"
  /\ wire # <<>>
  /\ wire' = Tail(wire)
  /\ served' = served \cup {Head(wire)}
  /\ Goto(Head(wire), "none", "run")
  /\ UNCHANGED <<unsent, unread, reader, sock, phase, lock, part, written, pieces>>

(* io.EOF or any other error, at any point of the stream                   *)
DecodeError ==
  /\ reader = "read"
  /\ reader' = "close"
  /\ UNCHANGED <<netVars, sock, handler, phase, lock, part, written, pieces, served>>

(* defer conn.conn.Close(): the handlers are not told                      *)
CloseSocket ==
  /\ reader = "close"
  /\ reader' = "done"
  /\ sock' = "closed"
  /\ UNCHANGED <<netVars, handler, phase, lock, part, written, pieces, served>>
-----------------------------------------------------------------------------
(* HandleRequest: the filters in turn, then the controller.                *)

FiltersPass(r) ==
  /\ phase[r] = "filters"
  /\ Goto(r, "run", "run")
  /\ phase' = [phase EXCEPT ![r] = "controller"]
  /\ UNCHANGED <<netVars, reader, sock, lock, part, written, pieces, served>>

(* a Before that returns false ends the request, answered or not           *)
FiltersStop(r) ==
  /\ phase[r] = "filters"
  /\ Goto(r, "run", "done")
  /\ UNCHANGED <<netVars, reader, sock, phase, lock, part, written, pieces, served>>

(* Mutant: the not-found controller does not answer.                       *)
ReturnsSilently(r) ==
  /\ phase[r] = "controller"
  /\ Goto(r, "run", "done")
  /\ UNCHANGED <<netVars, reader, sock, phase, lock, part, written, pieces, served>>

(* DefaultNotFoundHandler returns when it has answered.  A handler may     *)
(* write nothing, and DefaultController does not when it has no handler    *)
(* for the method.                                                         *)
ControllerReturns(r) ==
  /\ phase[r] = IF r \in Routed THEN "controller" ELSE "answered"
  /\ Goto(r, "run", "done")
  /\ UNCHANGED <<netVars, reader, sock, phase, lock, part, written, pieces, served>>

(* Who may write: a filter or the application's handler, or the not-found  *)
(* controller, once.                                                       *)
AppWrites(r) ==
  /\ \/ phase[r] = "filters"
     \/ phase[r] = "controller" /\ r \in Routed
  /\ written[r] < MaxResp \/ sock = "closed"
  /\ UNCHANGED phase

NotFoundWrites(r) ==
  /\ phase[r] = "controller"
  /\ r \notin Routed
  /\ phase' = [phase EXCEPT ![r] = "answered"]

(* Txn.Write: the filters' BeforeWrite, then Writer.Write asks for the lock *)
StartWrite(r) ==
  /\ AppWrites(r) \/ NotFoundWrites(r)
  /\ Goto(r, "run", "lock")
  /\ UNCHANGED <<netVars, reader, sock, lock, part, written, pieces, served>>
-----------------------------------------------------------------------------
(* Writer.Write                                                            *)

(* Mutant: Write does not wait for the lock.                               *)
LockFree(r) ==
  /\ Goto(r, "lock", "write")
  /\ lock' = r
  /\ part' = [part EXCEPT ![r] = 0]
  /\ written' = IF sock = "open" THEN [written EXCEPT ![r] = @ + 1] ELSE written
  /\ UNCHANGED <<netVars, reader, sock, phase, pieces, served>>

Lock(r) ==
  /\ lock = NoReq
  /\ Goto(r, "lock", "write")
  /\ lock' = r
  /\ part' = [part EXCEPT ![r] = 0]
  /\ written' = IF sock = "open" THEN [written EXCEPT ![r] = @ + 1] ELSE written
  /\ UNCHANGED <<netVars, reader, sock, phase, pieces, served>>

(* How far WriteResponse gets before it meets what it cannot encode        *)
Encodable(r) == IF r \in Malformed THEN Parts - 1 ELSE Parts

(* conn.Write blocks while the connection is full; there is no deadline    *)
WritePart(r) ==
  /\ handler[r] = "write"
  /\ part[r] < Encodable(r)
  /\ sock = "open"
  /\ unread < Window
  /\ unread' = unread + 1
  /\ pieces' = Append(pieces, Piece(r))
  /\ part' = [part EXCEPT ![r] = @ + 1]
  /\ UNCHANGED <<wire, unsent, reader, sock, handler, phase, lock, written, served>>

(* Mutant: a response that was sent is sent once more.                     *)
WriteTwice(r) ==
  /\ handler[r] = "write"
  /\ part[r] = Parts
  /\ part' = [part EXCEPT ![r] = 0]
  /\ UNCHANGED <<netVars, reader, sock, handler, phase, lock, written, pieces, served>>

(* Mutant: a write to a closed connection does not fail.                   *)
UnlockWhole(r) ==
  /\ part[r] = Encodable(r)
  /\ Goto(r, "write", "run")
  /\ lock' = NoReq
  /\ UNCHANGED <<netVars, reader, sock, phase, part, written, pieces, served>>

(* The response is complete; or the socket is closed; or the codec has     *)
(* refused the rest (a bad txn status, parameters that do not marshal),    *)
(* and what it had written is flushed.                                     *)
Unlock(r) ==
  /\ part[r] = Encodable(r) \/ sock = "closed"
  /\ Goto(r, "write", "run")
  /\ lock' = NoReq
  /\ UNCHANGED <<netVars, reader, sock, phase, part, written, pieces, served>>
-----------------------------------------------------------------------------
ReaderStep == Decode \/ CloseSocket

HandlerStep(r) ==
  \/ FiltersPass(r) \/ FiltersStop(r) \/ ControllerReturns(r)
  \/ StartWrite(r) \/ Lock(r) \/ WritePart(r) \/ Unlock(r)

Next ==
  \/ ReaderStep \/ DecodeError
  \/ \E r \in Reqs : HandlerStep(r) \/ ClientSends(r)
  \/ ClientReads

Spec == Init /\ [][Next]_vars

(* The not-found controller is the only one that is the server's own code. *)
NotFoundStep(r) == phase[r] # "filters" /\ (StartWrite(r) \/ ControllerReturns(r))

(* The server's own goroutines go on, and the mutex is not kept from one   *)
(* who waits for it while others take it again and again.  Nothing is      *)
(* assumed of the application, whose handlers need not return, nor of the  *)
(* client, which need not read.                                            *)
ServerFairness ==
  /\ WF_vars(ReaderStep)
  /\ \A r \in Reqs : SF_vars(Lock(r)) /\ WF_vars(WritePart(r) \/ Unlock(r))
  /\ \A r \in Reqs \ Routed : WF_vars(NotFoundStep(r))

FairSpec == Spec /\ ServerFairness
-----------------------------------------------------------------------------
TypeOK ==
  /\ wire \in Seq(Reqs) /\ unsent \subseteq Reqs
  /\ reader \in {"read", "close", "done"}
  /\ sock \in {"open", "closed"}
  /\ handler \in [Reqs -> {"none", "run", "lock", "write", "done"}]
  /\ phase \in [Reqs -> {"filters", "controller", "answered"}]
  /\ lock \in Reqs \cup {NoReq}
  /\ part \in [Reqs -> 0..Parts]
  /\ written \in [Reqs -> 0..MaxResp + 1]
  /\ unread \in 0..Window
  /\ served \subseteq Reqs

(* The lock has one holder, and only a goroutine that writes holds it.     *)
LockExclusive == \A r \in Reqs : handler[r] = "write" <=> lock = r

(* Pieces of one response are next to each other and in order, whatever    *)
(* handlers run at the same time, and another response begins only where   *)
(* one has ended: the client can decode the stream, up to the first        *)
(* response that the codec cut short.                                      *)
FramesWhole ==
  \A i \in 1..Len(pieces) :
    IF pieces[i].part = 1
    THEN i = 1 \/ pieces[i - 1].part = Encodable(pieces[i - 1].of)
    ELSE i > 1 /\ pieces[i - 1] = [pieces[i] EXCEPT !.part = @ - 1]

(* A response left unfinished on an open connection is the one whose       *)
(* writer holds the lock.                                                  *)
UnfinishedIsLocked ==
  sock = "open" /\ pieces # <<>> =>
    LET last == pieces[Len(pieces)]
    IN  last.part < Encodable(last.of) => lock = last.of

(* Closing the socket frees everyone in Writer.Write (jsonlistener.go:18): *)
(* the holder of the lock who waits for a client that does not read, and   *)
(* those who wait for the lock, each get back to their handler, which can  *)
(* then see the error; even if some handler never looks at it and writes   *)
(* to the closed connection for ever.                                      *)
WritesEnd ==
  \A r \in Reqs :
    sock = "closed" /\ handler[r] \in {"lock", "write"} ~> handler[r] = "run"

(* While the client reads, a request whose path no controller matches gets *)
(* the not-found answer once the filters let it pass, whoever else waits   *)
(* for the lock; unless the connection is closed.                          *)
ClientKeepsReading == []<>(unread < Window)

AnsweredWhole(r) == \E i \in 1..Len(pieces) : pieces[i].of = r /\ pieces[i].part = Parts

NotFoundAnswered ==
  ClientKeepsReading =>
    \A r \in Reqs \ Routed :
      phase[r] = "controller" ~> AnsweredWhole(r) \/ sock = "closed"

(* The mapping to ServerContract: a response is sent with its last piece.  *)
Complete == Keep(pieces, [of : Reqs, n : Nat, part : {Parts}])

Server == INSTANCE ServerContract WITH
  frames <- [i \in 1..Len(Complete) |-> <<Complete[i].of, Complete[i].n>>],
  serverUp <- sock = "open"

ContractSpec == Server!Spec
=============================================================================
