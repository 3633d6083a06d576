----------------------------- MODULE ClientConn -----------------------------
(***************************************************************************)
(* One client connection, client/connection.go: the goroutine of the event *)
(* loop, the goroutine that reads the socket (listener), the goroutines    *)
(* that call sendRequest and wait for the answers, and the goroutines that *)
(* call Close.  The socket and the server at its other end are external.   *)
(*                                                                         *)
(* A Go channel with a buffer is a sequence (outgoing, incoming) or a      *)
(* count (inflight); a send on a full one is a step that is not enabled.   *)
(* exitChan has no buffer: a sender stands at "sendExit" until the loop    *)
(* takes the value in the same step.                                       *)
(***************************************************************************)
EXTENDS Integers, Sequences, FiniteSets

CONSTANTS
  Reqs,         (* the requests the client submits on this connection       *)
  SyncReqs,     (* those submitted by doApiCallSync: one receive, a timeout *)
  Unencodable,  (* those for which protocol.WriteRequest returns an error   *)
  Txns,         (* transaction ids                                          *)
  TxnOf,        (* the id of each request                                   *)
  Closers,      (* goroutines that call Close (the pool's Cleanup)          *)
  MaxInFlight,  (* capacity of inflightChan                                 *)
  ChanCap,      (* capacity of incomingChan and of outgoingChan, 25 in Go   *)
  MaxResp,      (* bound: responses the server sends for one request        *)
  NoReq         (* the absent value of the requests map                     *)

ASSUME ConnAssumption ==
  /\ SyncReqs \subseteq Reqs /\ Unencodable \subseteq Reqs
  /\ TxnOf \in [Reqs -> Txns]
  /\ MaxInFlight \in Nat \ {0} /\ ChanCap \in Nat \ {0} /\ MaxResp \in Nat
  /\ NoReq \notin Reqs

VARIABLES
  connected,  (* the atomic flag "connected"                                *)
  loop,       (* where the event loop's goroutine stands                    *)
  cur,        (* what the loop holds: a response with its request           *)
  requests,   (* the map from transaction id to request                     *)
  inflight,   (* number of values in inflightChan                           *)
  outgoing,   (* outgoingChan                                               *)
  incoming,   (* incomingChan                                               *)
  listener,   (* where the listener's goroutine stands, with its response   *)
  caller,     (* where the goroutine of each request stands                 *)
  closer,     (* where each goroutine that calls Close stands               *)
  sock,       (* the socket, seen from this end                             *)
  served,     (* requests the server has decoded and may answer             *)
  toClient,   (* responses on their way from the server                     *)
  sent,       (* history: responses the server sent for each request        *)
  got,        (* history: the responses each request was given              *)
  outcome     (* history: how each request ended                            *)

connVars == <<connected, loop, cur, requests, inflight, outgoing, incoming>>
envVars  == <<sock, served, toClient, sent>>
histVars == <<got, outcome>>
vars == <<connVars, listener, caller, closer, envVars, histVars>>

Statuses  == {"continue", "completed"}
Responses == [txn : Txns, of : Reqs, n : 1..MaxResp, status : Statuses]
NoResp    == [txn |-> NoReq]

(* The ids that the requests map holds.                                    *)
Registered == {t \in Txns : requests[t] # NoReq}

(* The callers that have put a value in inflightChan for a request that is *)
(* not in outgoingChan yet.                                                *)
Entering == {r \in Reqs : caller[r] \in {"check", "enqueue"}}

Init ==
  /\ connected = TRUE
  /\ loop = "select"
  /\ cur = NoResp
  /\ requests = [t \in Txns |-> NoReq]
  /\ inflight = 0
  /\ outgoing = <<>>
  /\ incoming = <<>>
  /\ listener = [at |-> "read", res |-> NoResp]
  /\ caller = [r \in Reqs |-> "idle"]
  /\ closer = [c \in Closers |-> "idle"]
  /\ sock = "up"
  /\ served = {}
  /\ toClient = <<>>
  /\ sent = [r \in Reqs |-> 0]
  /\ got = [r \in Reqs |-> <<>>]
  /\ outcome = [r \in Reqs |-> "open"]
-----------------------------------------------------------------------------
(* sendRequest.  The pool lends the connection to one caller at a time.    *)

CallerAt(r, from, to) ==
  /\ caller[r] = from
  /\ caller' = [caller EXCEPT ![r] = to]

Leased == \E r \in Reqs : caller[r] \in {"acquire", "wait", "check", "enqueue",
                                         "close", "sendExit"}

Submit(r) ==
  /\ ~Leased
  /\ CallerAt(r, "idle", "acquire")
  /\ UNCHANGED <<connVars, listener, closer, envVars, histVars>>

(* inflightChan <- true, at once or after a wait                           *)
Acquire(r) ==
  /\ \/ CallerAt(r, "acquire", "check")
     \/ CallerAt(r, "wait", "check")
  /\ inflight < MaxInFlight
  /\ inflight' = inflight + 1
  /\ UNCHANGED <<connected, loop, cur, requests, outgoing, incoming,
                 listener, closer, envVars, histVars>>

(* inflightChan is full: the select waits for room or for its timer        *)
WaitForRoom(r) ==
  /\ inflight = MaxInFlight
  /\ CallerAt(r, "acquire", "wait")
  /\ UNCHANGED <<connVars, listener, closer, envVars, histVars>>

(* Mutant: sendRequest does not return after the timeout.                  *)
TimeoutProceeds(r) ==
  /\ CallerAt(r, "wait", "check")
  /\ UNCHANGED <<connVars, listener, closer, envVars, histVars>>

(* the timer of the select fires: Close, then return the error             *)
InflightTimeout(r) ==
  /\ CallerAt(r, "wait", "close")
  /\ UNCHANGED <<connVars, listener, closer, envVars, histVars>>

CallerClose(r) ==
  /\ \/ connected /\ CallerAt(r, "close", "sendExit")
     \/ ~connected /\ CallerAt(r, "close", "refused")
  /\ UNCHANGED <<connVars, listener, closer, envVars, histVars>>

(* the value in inflightChan stays there when the request is refused       *)
CheckConnected(r) ==
  /\ \/ connected /\ CallerAt(r, "check", "enqueue")
     \/ ~connected /\ CallerAt(r, "check", "refused")
  /\ UNCHANGED <<connVars, listener, closer, envVars, histVars>>

Enqueue(r) ==
  /\ CallerAt(r, "enqueue", "accepted")
  /\ Len(outgoing) < ChanCap
  /\ outgoing' = Append(outgoing, r)
  /\ UNCHANGED <<connected, loop, cur, requests, inflight, incoming,
                 listener, closer, envVars, histVars>>

(* doApiCallSync stops waiting: its timer, or an error in errorChan        *)
StopWaiting(r) ==
  /\ r \in SyncReqs
  /\ CallerAt(r, "accepted", "returned")
  /\ UNCHANGED <<connVars, listener, closer, envVars, histVars>>

(* A result is received: the channel of an ApiCall is drained by its user, *)
(* the one of doApiCallSync only while doApiCallSync waits.                *)
Receiving(r) == r \in SyncReqs => caller[r] = "accepted"
-----------------------------------------------------------------------------
(* Close                                                                   *)

CloserAt(c, from, to) ==
  /\ closer[c] = from
  /\ closer' = [closer EXCEPT ![c] = to]

Close(c) ==
  /\ \/ connected /\ CloserAt(c, "idle", "sendExit")
     \/ ~connected /\ CloserAt(c, "idle", "done")
  /\ UNCHANGED <<connVars, listener, caller, envVars, histVars>>
-----------------------------------------------------------------------------
(* listener: decode the next response, put it in incomingChan              *)

ListenerDecode ==
  /\ listener.at = "read"
  /\ toClient # <<>>
  /\ listener' = [at |-> "push", res |-> Head(toClient)]
  /\ toClient' = Tail(toClient)
  /\ UNCHANGED <<connVars, caller, closer, sock, served, sent, histVars>>

(* Mutant: the listener ends without telling the loop.                     *)
ListenerErrorSilent ==
  /\ listener.at = "read"
  /\ sock \in {"gone", "closed"}
  /\ listener' = [at |-> "done", res |-> NoResp]
  /\ toClient' = <<>>
  /\ UNCHANGED <<connVars, caller, closer, sock, served, sent, histVars>>

(* the socket ended; what it had not delivered is lost                     *)
ListenerError ==
  /\ listener.at = "read"
  /\ sock \in {"gone", "closed"}
  /\ listener' = [at |-> "sendExit", res |-> NoResp]
  /\ toClient' = <<>>
  /\ UNCHANGED <<connVars, caller, closer, sock, served, sent, histVars>>

(* Mutant: a response that finds incomingChan full is dropped.             *)
ListenerPushDrops ==
  /\ listener.at = "push"
  /\ incoming' = IF Len(incoming) < ChanCap THEN Append(incoming, listener.res)
                                            ELSE incoming
  /\ listener' = [at |-> "read", res |-> NoResp]
  /\ UNCHANGED <<connected, loop, cur, requests, inflight, outgoing,
                 caller, closer, envVars, histVars>>

ListenerPush ==
  /\ listener.at = "push"
  /\ Len(incoming) < ChanCap
  /\ incoming' = Append(incoming, listener.res)
  /\ listener' = [at |-> "read", res |-> NoResp]
  /\ UNCHANGED <<connected, loop, cur, requests, inflight, outgoing,
                 caller, closer, envVars, histVars>>
-----------------------------------------------------------------------------
(* eventLoop: the three cases of its select and what follows each.         *)

(* Mutant: a response without a request takes a token all the same.        *)
UnknownReleases ==
  /\ loop = "select"
  /\ incoming # <<>>
  /\ incoming' = Tail(incoming)
  /\ IF requests[Head(incoming).txn] = NoReq
     THEN loop' = "release" /\ UNCHANGED cur
     ELSE loop' = "deliver" /\ cur' = Head(incoming)
  /\ UNCHANGED <<connected, requests, inflight, outgoing,
                 listener, caller, closer, envVars, histVars>>

(* A response: it is dropped when the map has no request for its id.       *)
TakeResponse ==
  /\ loop = "select"
  /\ incoming # <<>>
  /\ incoming' = Tail(incoming)
  /\ LET res == Head(incoming)
     IN  IF requests[res.txn] = NoReq
         THEN UNCHANGED <<loop, cur>>
         ELSE loop' = "deliver" /\ cur' = res
  /\ UNCHANGED <<connected, requests, inflight, outgoing,
                 listener, caller, closer, envVars, histVars>>

(* req.resultChan <- response                                              *)
Deliver ==
  /\ loop = "deliver"
  /\ LET r == requests[cur.txn]
         completed == cur.status = "completed"
     IN  /\ Receiving(r)
         /\ got' = [got EXCEPT ![r] = Append(@, [of |-> cur.of, n |-> cur.n])]
         /\ outcome' = IF completed THEN [outcome EXCEPT ![r] = "completed"]
                                    ELSE outcome
         /\ caller' = IF r \in SyncReqs THEN [caller EXCEPT ![r] = "returned"]
                                        ELSE caller
         /\ loop' = IF completed THEN "retire" ELSE "select"
         /\ cur' = IF completed THEN cur ELSE NoResp
  /\ UNCHANGED <<connected, requests, inflight, outgoing, incoming,
                 listener, closer, envVars>>

(* Mutant: a completed request stays in the map.                           *)
RetireKeeps ==
  /\ loop = "retire"
  /\ cur' = NoResp
  /\ loop' = "release"
  /\ UNCHANGED <<connected, requests, inflight, outgoing, incoming,
                 listener, caller, closer, envVars, histVars>>

(* Mutant: a completed request keeps its token.                            *)
RetireLeaks ==
  /\ loop = "retire"
  /\ requests' = [requests EXCEPT ![cur.txn] = NoReq]
  /\ cur' = NoResp
  /\ loop' = "select"
  /\ UNCHANGED <<connected, inflight, outgoing, incoming,
                 listener, caller, closer, envVars, histVars>>

(* delete(this.requests, response.TxnId())                                 *)
Retire ==
  /\ loop = "retire"
  /\ requests' = [requests EXCEPT ![cur.txn] = NoReq]
  /\ cur' = NoResp
  /\ loop' = "release"
  /\ UNCHANGED <<connected, inflight, outgoing, incoming,
                 listener, caller, closer, envVars, histVars>>

(* <- this.inflightChan                                                    *)
Release ==
  /\ loop = "release"
  /\ inflight > 0
  /\ inflight' = inflight - 1
  /\ loop' = "select"
  /\ UNCHANGED <<connected, cur, requests, outgoing, incoming,
                 listener, caller, closer, envVars, histVars>>

(* A request: register it under its id, then write it.                     *)
TakeRequest ==
  /\ loop = "select"
  /\ outgoing # <<>>
  /\ LET r == Head(outgoing)
     IN  /\ requests' = [requests EXCEPT ![TxnOf[r]] = r]
         /\ cur' = [txn |-> TxnOf[r]]
  /\ outgoing' = Tail(outgoing)
  /\ loop' = "write"
  /\ UNCHANGED <<connected, inflight, incoming,
                 listener, caller, closer, envVars, histVars>>

WriteRequest ==
  /\ loop = "write"
  /\ requests[cur.txn] \notin Unencodable
  /\ served' = IF sock = "up" THEN served \cup {requests[cur.txn]} ELSE served
  /\ loop' = "select"
  /\ cur' = NoResp
  /\ UNCHANGED <<connected, requests, inflight, outgoing, incoming, sock,
                 toClient, sent, listener, caller, closer, histVars>>

(* An error of WriteRequest is logged; the request stays registered.  A    *)
(* request that cannot be encoded, or a write deadline, may leave part of  *)
(* the request on the stream, which the server can no longer decode.       *)
WriteError ==
  /\ loop = "write"
  /\ sock' \in IF sock = "up" THEN {"torn"} \cup
                    (IF requests[cur.txn] \in Unencodable THEN {"up"} ELSE {})
               ELSE {sock}
  /\ loop' = "select"
  /\ cur' = NoResp
  /\ UNCHANGED <<connected, requests, inflight, outgoing, incoming, served,
                 toClient, sent, listener, caller, closer, histVars>>

(* <-this.exitChan: the loop meets one of the goroutines that send on it.  *)
TakeExit ==
  /\ loop = "select"
  /\ loop' = "exit"
  /\ \/ /\ listener.at = "sendExit"
        /\ listener' = [at |-> "done", res |-> NoResp]
        /\ UNCHANGED <<caller, closer>>
     \/ /\ \E c \in Closers : CloserAt(c, "sendExit", "done")
        /\ UNCHANGED <<listener, caller>>
     \/ /\ \E r \in Reqs : CallerAt(r, "sendExit", "refused")
        /\ UNCHANGED <<listener, closer>>
  /\ UNCHANGED <<connected, cur, requests, inflight, outgoing, incoming,
                 envVars, histVars>>

(* setConnected(false), which ends the for statement                       *)
SetDisconnected ==
  /\ loop = "exit"
  /\ connected' = FALSE
  /\ loop' = "closeSocket"
  /\ UNCHANGED <<cur, requests, inflight, outgoing, incoming,
                 listener, caller, closer, envVars, histVars>>
-----------------------------------------------------------------------------
(* cleanup                                                                 *)

CloseSocket ==
  /\ loop = "closeSocket"
  /\ sock' = "closed"
  /\ loop' = "drain"
  /\ UNCHANGED <<connected, cur, requests, inflight, outgoing, incoming,
                 served, toClient, sent, listener, caller, closer, histVars>>

(* req.errorChan <- err for a request that was never written               *)
DrainOne ==
  /\ loop = "drain"
  /\ outgoing # <<>>
  /\ outcome' = [outcome EXCEPT ![Head(outgoing)] = "error"]
  /\ outgoing' = Tail(outgoing)
  /\ UNCHANGED <<connected, loop, cur, requests, inflight, incoming,
                 listener, caller, closer, envVars, got>>

DrainEnd ==
  /\ loop = "drain"
  /\ outgoing = <<>>
  /\ loop' = "failAll"
  /\ UNCHANGED <<connected, cur, requests, inflight, outgoing, incoming,
                 listener, caller, closer, envVars, histVars>>

(* v.errorChan <- err and delete, in the order Go ranges over the map      *)
FailOne(t) ==
  /\ loop = "failAll"
  /\ requests[t] # NoReq
  /\ outcome' = [outcome EXCEPT ![requests[t]] = "error"]
  /\ requests' = [requests EXCEPT ![t] = NoReq]
  /\ UNCHANGED <<connected, loop, cur, inflight, outgoing, incoming,
                 listener, caller, closer, envVars, got>>

(* Mutant: cleanup returns before it has been through the map.             *)
FailEndsEarly ==
  /\ loop = "failAll"
  /\ loop' = "done"
  /\ UNCHANGED <<connected, cur, requests, inflight, outgoing, incoming,
                 listener, caller, closer, envVars, histVars>>

FailEnd ==
  /\ loop = "failAll"
  /\ Registered = {}
  /\ loop' = "done"
  /\ UNCHANGED <<connected, cur, requests, inflight, outgoing, incoming,
                 listener, caller, closer, envVars, histVars>>
-----------------------------------------------------------------------------
(* The server: answers in any order, any number of times, or never.        *)

Respond(r) ==
  /\ r \in served
  /\ sock \in {"up", "torn"}
  /\ sent[r] < MaxResp
  /\ sent' = [sent EXCEPT ![r] = @ + 1]
  /\ \E s \in Statuses :
       toClient' = Append(toClient, [txn |-> TxnOf[r], of |-> r,
                                     n |-> sent[r] + 1, status |-> s])
  /\ UNCHANGED <<connVars, listener, caller, closer, sock, served, histVars>>

PeerClose ==
  /\ sock \in {"up", "torn"}
  /\ sock' = "gone"
  /\ UNCHANGED <<connVars, listener, caller, closer,
                 served, toClient, sent, histVars>>
-----------------------------------------------------------------------------
LoopStep ==
  \/ TakeResponse \/ Deliver \/ Retire \/ Release
  \/ TakeRequest \/ WriteRequest \/ WriteError
  \/ TakeExit \/ SetDisconnected
  \/ CloseSocket \/ DrainOne \/ DrainEnd
  \/ \E t \in Txns : FailOne(t)
  \/ FailEnd

ListenerStep == ListenerDecode \/ ListenerError \/ ListenerPush

CallerStep(r) ==
  \/ Acquire(r) \/ WaitForRoom(r) \/ InflightTimeout(r) \/ CallerClose(r)
  \/ CheckConnected(r) \/ Enqueue(r) \/ StopWaiting(r)

Next ==
  \/ LoopStep
  \/ ListenerStep
  \/ \E r \in Reqs : Submit(r) \/ CallerStep(r) \/ Respond(r)
  \/ \E c \in Closers : Close(c)
  \/ PeerClose

Spec == Init /\ [][Next]_vars

(* The Go scheduler runs every goroutine that can run, a select picks among *)
(* its ready cases at random, timers fire, and a read of an ended socket    *)
(* returns.  Nothing is assumed of the server, nor that anybody submits.    *)
Fairness ==
  /\ WF_vars(LoopStep)
  /\ WF_vars(ListenerStep)
  /\ \A r \in Reqs : WF_vars(CallerStep(r))

FairSpec == Spec /\ Fairness
-----------------------------------------------------------------------------
LoopTypeOK ==
  /\ connected \in BOOLEAN
  /\ loop \in {"select", "deliver", "retire", "release", "write", "exit",
               "closeSocket", "drain", "failAll", "done"}
  /\ cur \in Responses \cup [txn : Txns \cup {NoReq}]
  /\ loop \in {"deliver", "retire"} => cur \in Responses
  /\ loop \in {"deliver", "retire", "write"} => cur.txn \in Registered
  /\ requests \in [Txns -> Reqs \cup {NoReq}]
  /\ inflight \in 0..MaxInFlight

Chan(S) == {q \in Seq(S) : Len(q) <= ChanCap}

QueueTypeOK ==
  /\ outgoing \in Chan(Reqs)
  /\ incoming \in Chan(Responses)
  /\ toClient \in Seq(Responses)

RoutineTypeOK ==
  /\ listener \in [at : {"read", "push", "sendExit", "done"},
                   res : Responses \cup {NoResp}]
  /\ listener.at = "push" => listener.res \in Responses
  /\ caller \in [Reqs -> {"idle", "acquire", "wait", "check", "enqueue", "close",
                          "sendExit", "accepted", "refused", "returned"}]
  /\ closer \in [Closers -> {"idle", "sendExit", "done"}]

EnvTypeOK ==
  /\ sock \in {"up", "torn", "gone", "closed"}
  /\ served \subseteq Reqs
  /\ sent \in [Reqs -> 0..MaxResp]

HistTypeOK ==
  /\ got \in [Reqs -> Seq([of : Reqs, n : 1..MaxResp])]
  /\ outcome \in [Reqs -> {"open", "completed", "error"}]

TypeOK == LoopTypeOK /\ QueueTypeOK /\ RoutineTypeOK /\ EnvTypeOK /\ HistTypeOK

(* 1 while the loop has deleted a request and not yet taken its token.     *)
Releasing == IF loop = "release" THEN 1 ELSE 0

InFlight == Cardinality(Registered) + Len(outgoing) + Cardinality(Entering)

(* Every request on its way into the connection, waiting to be written or  *)
(* registered for an answer has a token of its own in inflightChan.  The   *)
(* tokens are put by callers (sendRequest) and taken by the loop, with     *)
(* the map in between: no lock covers the two.                             *)
TokenInv == InFlight + Releasing <= inflight

(* sendRequest's promise: never more than maxInFlight requests wait for a  *)
(* response, whoever interleaves with the loop.                            *)
WindowRespected == Cardinality(Registered) + Len(outgoing) <= MaxInFlight

(* The loop's own receive from inflightChan can never block, which would   *)
(* stop the only goroutine that could ever fill or empty it.               *)
ReleaseNeverBlocks == loop = "release" => inflight > 0

(* While the connection lives no token is lost: the window never shrinks,  *)
(* so a caller that waits for room waits only for other requests.  Holds   *)
(* when ids are unique per connection, as protocol.md asks.                *)
NoTokenLeak == connected => inflight = InFlight + Releasing

(* A request is given its own responses, in the order the server sent them *)
(* and without a gap, through three queues and two goroutines.             *)
GotOwnInOrder ==
  \A r \in Reqs : \A i \in 1..Len(got[r]) : got[r][i] = [of |-> r, n |-> i]

(* cleanup reaches every request the connection took: when the loop has    *)
(* ended, a request without an outcome can only be one that was put in     *)
(* outgoingChan after cleanup had emptied it.                              *)
CleanupMissesNone ==
  loop = "done" =>
    \A r \in Reqs : caller[r] \in {"accepted", "returned"} /\ outcome[r] = "open"
                      => \E i \in 1..Len(outgoing) : outgoing[i] = r

(* The loss of the server ends the connection by itself: the listener sees *)
(* it, tells the loop, and every registered request fails.                 *)
PeerLossEndsConnection == sock = "gone" ~> loop = "done"

(* Every response the server sends reaches its caller, unless the txn ends *)
(* without it.  True when every caller goes on receiving (ApiCall).        *)
EveryResponseDelivered ==
  \A r \in Reqs : \A n \in 1..MaxResp :
    sent[r] >= n ~> (Len(got[r]) >= n \/ outcome[r] # "open")
-----------------------------------------------------------------------------
(* What comments and documents of the repository promise and the code does *)
(* not keep; each has a run that finds the behaviour.                      *)

(* client.go:293 "Transport errors and others will arrive on the channel": *)
(* a request accepted by a connection that has ended has been told so.     *)
AcceptedIsAnswered ==
  loop = "done" =>
    \A r \in Reqs : caller[r] = "accepted" => outcome[r] # "open"

(* client.go:20 "times out after the requested timeout": a synchronous     *)
(* call returns.  Stated for a connection that stays healthy, so that only *)
(* the callers and the loop can be at fault.                               *)
SyncCallReturns ==
  [](sock = "up") =>
    \A r \in SyncReqs : caller[r] = "acquire" ~> caller[r] \in {"returned", "refused"}
-----------------------------------------------------------------------------
(* Refinement: the contract of a transaction, module TxnContract.          *)

Phase(r) ==
  CASE outcome[r] = "completed" -> "completed"
    [] outcome[r] = "error"     -> "failed"
    [] outcome[r] = "open" /\ caller[r] \in {"accepted", "returned"} -> "open"
    [] outcome[r] = "open" /\ caller[r] = "refused" -> "refused"
    [] OTHER -> "new"

Contract == INSTANCE TxnContract WITH
  phase <- [r \in Reqs |-> Phase(r)],
  responses <- [r \in Reqs |-> Len(got[r])],
  linkUp <- connected

ContractSpec == Contract!Spec
=============================================================================
