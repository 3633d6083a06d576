--------------------------- MODULE ClientConnProofs ---------------------------
(***************************************************************************)
(* Proofs about ClientConn, for every value of its constants.  First       *)
(* typing and the accounting of inflightChan: TokenIInv, the inductive     *)
(* invariant, says that the requests on their way in, in outgoingChan and  *)
(* in the map have a token each; every action moves a request from one of  *)
(* the three to the next, puts a token before the first or takes one after *)
(* the last.  Then the life of a request: the connection implements the    *)
(* contract of a transaction (TxnContract), and when ids are unique, as    *)
(* NewTxnId makes them, no token is lost, cleanup misses no request and    *)
(* every request is given its own responses in order.                      *)
(***************************************************************************)
EXTENDS ClientConn, QueueLemmas, FiniteSetTheorems

LEMMA ResponseType ==
  \A res \in Responses : /\ res.txn \in Txns /\ res.of \in Reqs
                         /\ res.n \in 1..MaxResp /\ res.status \in Statuses
BY DEF Responses

LEMMA TypeInit == Init => TypeOK
<1> SUFFICES ASSUME Init PROVE TypeOK
  OBVIOUS
<1> USE ConnAssumption DEF Init
<1>1. LoopTypeOK
  BY DEF LoopTypeOK, NoResp
<1>2. QueueTypeOK
  BY DEF QueueTypeOK, Chan
<1>3. RoutineTypeOK
  BY DEF RoutineTypeOK
<1>4. EnvTypeOK
  BY DEF EnvTypeOK
<1>5. HistTypeOK
  BY DEF HistTypeOK
<1>6. QED
  BY <1>1, <1>2, <1>3, <1>4, <1>5 DEF TypeOK

LEMMA EnvTypeStep == TypeOK /\ [Next]_vars => EnvTypeOK'
<1> SUFFICES ASSUME TypeOK, [Next]_vars PROVE EnvTypeOK'
  OBVIOUS
<1> USE ConnAssumption DEF TypeOK, EnvTypeOK
<1>1. CASE WriteRequest
  BY <1>1 DEF WriteRequest, LoopTypeOK, Registered
<1>2. CASE WriteError
  BY <1>2 DEF WriteError
<1>3. CASE CloseSocket
  BY <1>3 DEF CloseSocket
<1>4. ASSUME NEW r \in Reqs, Respond(r) PROVE EnvTypeOK'
  BY <1>4 DEF Respond
<1>5. CASE PeerClose
  BY <1>5 DEF PeerClose
<1>6. CASE UNCHANGED <<sock, served, sent>>
  BY <1>6
<1>7. QED
  BY <1>1, <1>2, <1>3, <1>4, <1>5, <1>6
  DEF Next, LoopStep, ListenerStep, CallerStep, vars, connVars, envVars, histVars,
      TakeResponse, Deliver, Retire, Release, TakeRequest, TakeExit,
      SetDisconnected, DrainOne, DrainEnd, FailOne, FailEnd,
      ListenerDecode, ListenerError, ListenerPush, Submit, Acquire, WaitForRoom,
      InflightTimeout, CallerClose, CheckConnected, Enqueue, StopWaiting, Close

(* A channel keeps its element type and its capacity when a value is taken *)
(* from it, and when a value is put in it while it has room.               *)
LEMMA ChanTake ==
  ASSUME NEW S, NEW q \in Chan(S), q # <<>>
  PROVE  Head(q) \in S /\ Tail(q) \in Chan(S)
BY ConnAssumption, HeadTailProperties DEF Chan

LEMMA ChanPut ==
  ASSUME NEW S, NEW q \in Chan(S), Len(q) < ChanCap, NEW e \in S
  PROVE  Append(q, e) \in Chan(S)
BY ConnAssumption, AppendProperties DEF Chan

LEMMA ChanType ==
  ASSUME NEW S, NEW q \in Chan(S)
  PROVE  q \in Seq(S) /\ Len(q) \in Nat /\ Len(q) <= ChanCap
BY DEF Chan

LEMMA QueueTypeStep == TypeOK /\ [Next]_vars => QueueTypeOK'
<1> SUFFICES ASSUME TypeOK, [Next]_vars PROVE QueueTypeOK'
  OBVIOUS
<1> USE DEF TypeOK, QueueTypeOK
<1>1. CASE TakeResponse
  BY <1>1, ChanTake DEF TakeResponse, envVars
<1>2. CASE TakeRequest
  BY <1>2, ChanTake DEF TakeRequest, envVars
<1>3. CASE DrainOne
  BY <1>3, ChanTake DEF DrainOne, envVars
<1>4. CASE ListenerDecode
  BY <1>4 DEF ListenerDecode, connVars
<1>5. CASE ListenerError
  BY <1>5 DEF ListenerError, connVars
<1>6. CASE ListenerPush
  <2>1. incoming' \in Chan(Responses)
    BY <1>6, ChanPut DEF ListenerPush, RoutineTypeOK
  <2>2. UNCHANGED <<outgoing, toClient>>
    BY <1>6 DEF ListenerPush, envVars
  <2>3. QED
    BY <2>1, <2>2
<1>7. ASSUME NEW r \in Reqs, Enqueue(r) PROVE QueueTypeOK'
  <2>1. outgoing' \in Chan(Reqs)
    BY <1>7, ChanPut DEF Enqueue
  <2>2. UNCHANGED <<incoming, toClient>>
    BY <1>7 DEF Enqueue, envVars
  <2>3. QED
    BY <2>1, <2>2
<1>8. ASSUME NEW r \in Reqs, Respond(r) PROVE QueueTypeOK'
  <2>0. TxnOf[r] \in Txns /\ MaxResp \in Nat
    BY ConnAssumption
  <2>a. sent[r] \in 0..MaxResp /\ sent[r] < MaxResp
    BY <1>8 DEF Respond, EnvTypeOK
  <2>b. sent[r] + 1 \in 1..MaxResp
    BY <2>0, <2>a
  <2>1. PICK s \in Statuses :
          toClient' = Append(toClient, [txn |-> TxnOf[r], of |-> r,
                                        n |-> sent[r] + 1, status |-> s])
    BY <1>8 DEF Respond
  <2>2. [txn |-> TxnOf[r], of |-> r, n |-> sent[r] + 1, status |-> s] \in Responses
    BY <2>0, <2>b DEF Responses
  <2>3. toClient' \in Seq(Responses)
    BY <2>1, <2>2, AppendProperties
  <2>4. UNCHANGED <<outgoing, incoming>>
    BY <1>8 DEF Respond, connVars
  <2>5. QED
    BY <2>3, <2>4
<1>9. CASE UNCHANGED <<outgoing, incoming, toClient>>
  BY <1>9
<1>10. QED
  BY <1>1, <1>2, <1>3, <1>4, <1>5, <1>6, <1>7, <1>8, <1>9
  DEF Next, LoopStep, ListenerStep, CallerStep, vars, connVars, envVars,
      histVars, Deliver, Retire, Release, WriteRequest, WriteError,
      TakeExit, SetDisconnected, CloseSocket, DrainEnd, FailOne, FailEnd,
      Submit, Acquire, WaitForRoom, InflightTimeout, CallerClose,
      CheckConnected, StopWaiting, Close, PeerClose

LEMMA RoutineTypeStep == TypeOK /\ [Next]_vars => RoutineTypeOK'
<1> SUFFICES ASSUME TypeOK, [Next]_vars PROVE RoutineTypeOK'
  OBVIOUS
<1> USE ConnAssumption DEF TypeOK, RoutineTypeOK
<1>1. CASE Deliver
  BY <1>1 DEF Deliver, LoopTypeOK, Registered
<1>2. CASE TakeExit
  BY <1>2 DEF TakeExit, CallerAt, CloserAt
<1>3. CASE ListenerDecode
  BY <1>3 DEF ListenerDecode, QueueTypeOK
<1>4. CASE ListenerError
  BY <1>4 DEF ListenerError
<1>5. CASE ListenerPush
  BY <1>5 DEF ListenerPush
<1>6. ASSUME NEW r \in Reqs, Submit(r) PROVE RoutineTypeOK'
  BY <1>6 DEF Submit, CallerAt
<1>7. ASSUME NEW r \in Reqs, Acquire(r) PROVE RoutineTypeOK'
  BY <1>7 DEF Acquire, CallerAt
<1>8. ASSUME NEW r \in Reqs, WaitForRoom(r) PROVE RoutineTypeOK'
  BY <1>8 DEF WaitForRoom, CallerAt
<1>9. ASSUME NEW r \in Reqs, InflightTimeout(r) PROVE RoutineTypeOK'
  BY <1>9 DEF InflightTimeout, CallerAt
<1>10. ASSUME NEW r \in Reqs, CallerClose(r) PROVE RoutineTypeOK'
  BY <1>10 DEF CallerClose, CallerAt
<1>11. ASSUME NEW r \in Reqs, CheckConnected(r) PROVE RoutineTypeOK'
  BY <1>11 DEF CheckConnected, CallerAt
<1>12. ASSUME NEW r \in Reqs, Enqueue(r) PROVE RoutineTypeOK'
  BY <1>12 DEF Enqueue, CallerAt
<1>13. ASSUME NEW r \in Reqs, StopWaiting(r) PROVE RoutineTypeOK'
  BY <1>13 DEF StopWaiting, CallerAt
<1>14. ASSUME NEW c \in Closers, Close(c) PROVE RoutineTypeOK'
  BY <1>14 DEF Close, CloserAt
<1>15. CASE UNCHANGED <<listener, caller, closer>>
  BY <1>15
<1>16. QED
  BY <1>1, <1>2, <1>3, <1>4, <1>5, <1>6, <1>7, <1>8, <1>9, <1>10, <1>11,
     <1>12, <1>13, <1>14, <1>15
  DEF Next, LoopStep, ListenerStep, CallerStep, vars, connVars, envVars,
      histVars, TakeResponse, Retire, Release, TakeRequest, WriteRequest,
      WriteError, SetDisconnected, CloseSocket, DrainOne, DrainEnd, FailOne,
      FailEnd, Respond, PeerClose

LEMMA HistTypeStep == TypeOK /\ [Next]_vars => HistTypeOK'
<1> SUFFICES ASSUME TypeOK, [Next]_vars PROVE HistTypeOK'
  OBVIOUS
<1> USE ConnAssumption DEF TypeOK, HistTypeOK
<1>1. CASE Deliver
  <2> DEFINE r == requests[cur.txn]
             x == [of |-> cur.of, n |-> cur.n]
             X == [of : Reqs, n : 1..MaxResp]
  <2>1. cur \in Responses /\ r \in Reqs
    BY <1>1, ResponseType DEF Deliver, LoopTypeOK, Registered
  <2>2. x \in X
    BY <2>1, ResponseType
  <2>3. got' = [got EXCEPT ![r] = Append(@, x)]
    BY <1>1 DEF Deliver
  <2>4. Append(got[r], x) \in Seq(X)
    BY <2>1, <2>2, AppendProperties
  <2>5. got' \in [Reqs -> Seq(X)]
    BY <2>1, <2>3, <2>4
  <2>6. outcome' \in [Reqs -> {"open", "completed", "error"}]
    BY <1>1, <2>1 DEF Deliver
  <2>7. QED
    BY <2>5, <2>6
<1>2. CASE DrainOne
  <2>1. outgoing \in Chan(Reqs) /\ outgoing # <<>>
    BY <1>2 DEF DrainOne, QueueTypeOK
  <2>2. Head(outgoing) \in Reqs
    BY <2>1, ChanTake
  <2>3. outcome' = [outcome EXCEPT ![Head(outgoing)] = "error"] /\ got' = got
    BY <1>2 DEF DrainOne
  <2>4. QED
    BY <2>2, <2>3
<1>3. ASSUME NEW t \in Txns, FailOne(t) PROVE HistTypeOK'
  BY <1>3 DEF FailOne, LoopTypeOK
<1>4. CASE UNCHANGED <<got, outcome>>
  BY <1>4
<1>5. QED
  BY <1>1, <1>2, <1>3, <1>4
  DEF Next, LoopStep, ListenerStep, CallerStep, vars, connVars, envVars,
      histVars, TakeResponse, Retire, Release, TakeRequest, WriteRequest,
      WriteError, TakeExit, SetDisconnected, CloseSocket, DrainEnd, FailEnd,
      ListenerDecode, ListenerError, ListenerPush, Submit, Acquire,
      WaitForRoom, InflightTimeout, CallerClose, CheckConnected, Enqueue,
      StopWaiting, Close, Respond, PeerClose

LEMMA LoopTypeStep == TypeOK /\ [Next]_vars => LoopTypeOK'
<1> SUFFICES ASSUME TypeOK, [Next]_vars PROVE LoopTypeOK'
  OBVIOUS
<1> USE ConnAssumption DEF TypeOK, LoopTypeOK, Registered
<1>1. CASE TakeResponse
  BY <1>1, ResponseType, ChanTake DEF TakeResponse, QueueTypeOK
<1>2. CASE Deliver
  BY <1>2 DEF Deliver, Registered, NoResp
<1>3. CASE Retire
  BY <1>3 DEF Retire, NoResp
<1>4. CASE Release
  BY <1>4 DEF Release
<1>5. CASE TakeRequest
  BY <1>5, ChanTake DEF TakeRequest, QueueTypeOK
<1>6. CASE WriteRequest
  BY <1>6 DEF WriteRequest, NoResp
<1>7. CASE WriteError
  BY <1>7 DEF WriteError, NoResp
<1>8. CASE TakeExit
  BY <1>8 DEF TakeExit
<1>9. CASE SetDisconnected
  BY <1>9 DEF SetDisconnected
<1>10. CASE CloseSocket
  BY <1>10 DEF CloseSocket
<1>11. CASE DrainEnd
  BY <1>11 DEF DrainEnd
<1>12. ASSUME NEW t \in Txns, FailOne(t) PROVE LoopTypeOK'
  BY <1>12 DEF FailOne
<1>13. CASE FailEnd
  BY <1>13 DEF FailEnd
<1>14. ASSUME NEW r \in Reqs, Acquire(r) PROVE LoopTypeOK'
  BY <1>14 DEF Acquire
<1>15. CASE UNCHANGED <<connected, loop, cur, requests, inflight>>
  BY <1>15
<1>16. QED
  BY <1>1, <1>2, <1>3, <1>4, <1>5, <1>6, <1>7, <1>8, <1>9, <1>10, <1>11,
     <1>12, <1>13, <1>14, <1>15
  DEF Next, LoopStep, ListenerStep, CallerStep, vars, connVars, envVars,
      histVars, DrainOne, ListenerDecode, ListenerError, ListenerPush,
      Submit, WaitForRoom, InflightTimeout, CallerClose, CheckConnected,
      Enqueue, StopWaiting, Close, Respond, PeerClose

(* TypeOK holds of every connection, for every set of requests, ids and    *)
(* closing goroutines and every capacity of its channels.                  *)
THEOREM TypeCorrect == Spec => []TypeOK
<1>1. TypeOK /\ [Next]_vars => TypeOK'
  BY LoopTypeStep, QueueTypeStep, RoutineTypeStep, EnvTypeStep, HistTypeStep DEF TypeOK
<1>2. QED
  BY TypeInit, <1>1, PTL DEF Spec
-----------------------------------------------------------------------------
(* The tokens.  TokenInv counts sets, so its induction carries that they   *)
(* are finite: no step adds more than one element to either.               *)

CountsFinite == IsFiniteSet(Entering) /\ IsFiniteSet(Registered)
TokenIInv   == TokenInv /\ CountsFinite

(* The tokens in inflightChan that belong to no request, and the steps     *)
(* that leave one behind.                                                  *)
Surplus == inflight - (InFlight + Releasing)

Loses ==
  \/ ~connected
  \/ DrainOne \/ \E t \in Txns : FailOne(t)
  \/ TakeRequest /\ requests[TxnOf[Head(outgoing)]] # NoReq

LEMMA Counts ==
  ASSUME TypeOK, CountsFinite
  PROVE  /\ Cardinality(Entering) \in Nat
         /\ Cardinality(Registered) \in Nat
         /\ Len(outgoing) \in Nat
         /\ inflight \in Nat /\ MaxInFlight \in Nat
         /\ Releasing \in 0..1
  BY ConnAssumption, ChanType, FS_CardinalityType
  DEF CountsFinite, TypeOK, LoopTypeOK, QueueTypeOK, Releasing

(* What one step does to the two sets.                                     *)
LEMMA EnterOne ==
  ASSUME NEW r \in Reqs, RoutineTypeOK, caller[r] \notin {"check", "enqueue"},
         caller' = [caller EXCEPT ![r] = "check"], IsFiniteSet(Entering)
  PROVE  /\ IsFiniteSet(Entering')
         /\ Cardinality(Entering') = Cardinality(Entering) + 1
<1>1. Entering' = Entering \cup {r} /\ r \notin Entering
  BY DEF Entering, RoutineTypeOK
<1>2. QED
  BY <1>1, FS_AddElement

LEMMA LeaveOne ==
  ASSUME NEW r \in Reqs, RoutineTypeOK, caller[r] \in {"check", "enqueue"},
         NEW pc \in {"accepted", "refused"},
         caller' = [caller EXCEPT ![r] = pc], IsFiniteSet(Entering)
  PROVE  /\ IsFiniteSet(Entering')
         /\ Cardinality(Entering') = Cardinality(Entering) - 1
<1>1. Entering' = Entering \ {r} /\ r \in Entering
  BY DEF Entering, RoutineTypeOK
<1>2. QED
  BY <1>1, FS_RemoveElement

LEMMA RegisterOne ==
  ASSUME NEW t \in Txns, NEW r \in Reqs, LoopTypeOK,
         requests' = [requests EXCEPT ![t] = r], IsFiniteSet(Registered)
  PROVE  /\ IsFiniteSet(Registered')
         /\ Cardinality(Registered') =
              IF t \in Registered THEN Cardinality(Registered) ELSE Cardinality(Registered) + 1
<1>1. Registered' = Registered \cup {t}
  BY ConnAssumption DEF Registered, LoopTypeOK
<1>2. Cardinality(Registered) \in Nat
  BY FS_CardinalityType
<1>3. /\ IsFiniteSet(Registered \cup {t})
      /\ Cardinality(Registered \cup {t}) =
           IF t \in Registered THEN Cardinality(Registered) ELSE Cardinality(Registered) + 1
  BY FS_AddElement
<1>4. QED
  BY <1>1, <1>2, <1>3

LEMMA UnregisterOne ==
  ASSUME NEW t \in Registered, LoopTypeOK,
         requests' = [requests EXCEPT ![t] = NoReq], IsFiniteSet(Registered)
  PROVE  /\ IsFiniteSet(Registered')
         /\ Cardinality(Registered') = Cardinality(Registered) - 1
<1>1. Registered' = Registered \ {t}
  BY DEF Registered, LoopTypeOK
<1>2. QED
  BY <1>1, FS_RemoveElement

LEMMA TokenInit == Init => TokenIInv
<1> SUFFICES ASSUME Init PROVE TokenIInv
  OBVIOUS
<1>1. Entering = {} /\ Registered = {}
  BY DEF Init, Entering, Registered
<1>2. QED
  BY <1>1, FS_EmptySet DEF Init, TokenIInv, CountsFinite, TokenInv, InFlight, Releasing

(***************************************************************************)
(* A step gives a request on its way in a token, moves it with its token   *)
(* from one place to the next, or takes both: no token goes to two         *)
(* requests, and one is left without a request only by a refused caller,   *)
(* by cleanup, or by a request registered under an id that is in use.      *)
(***************************************************************************)
LEMMA TokenMove ==
  TypeOK /\ CountsFinite /\ [Next]_vars =>
    CountsFinite' /\ Surplus' >= Surplus /\ (Surplus' # Surplus => Loses)
<1> DEFINE Goal == CountsFinite' /\ Surplus' >= Surplus /\ (Surplus' # Surplus => Loses)
<1> SUFFICES ASSUME TypeOK, CountsFinite, [Next]_vars PROVE Goal
  OBVIOUS
<1>0. /\ Cardinality(Entering) \in Int /\ Cardinality(Registered) \in Int
      /\ Len(outgoing) \in Int /\ inflight \in Int /\ Releasing \in Int
      /\ IsFiniteSet(Entering) /\ IsFiniteSet(Registered)
      /\ LoopTypeOK /\ QueueTypeOK /\ RoutineTypeOK
  BY Counts DEF CountsFinite, TypeOK
<1> HIDE DEF TypeOK
<1> USE <1>0 DEF CountsFinite, Surplus, InFlight
<1>1. ASSUME NEW r \in Reqs, Acquire(r) PROVE Goal
  <2>1. /\ IsFiniteSet(Entering')
        /\ Cardinality(Entering') = Cardinality(Entering) + 1
    BY <1>1, EnterOne DEF Acquire, CallerAt
  <2>2. /\ inflight' = inflight + 1
        /\ Registered' = Registered /\ outgoing' = outgoing /\ Releasing' = Releasing
    BY <1>1 DEF Acquire, Registered, Releasing
  <2>3. QED
    BY <2>1, <2>2
<1>2. ASSUME NEW r \in Reqs, CheckConnected(r) PROVE Goal
  <2>1. /\ inflight' = inflight
        /\ Registered' = Registered /\ outgoing' = outgoing /\ Releasing' = Releasing
    BY <1>2 DEF CheckConnected, connVars, Registered, Releasing
  <2>2. CASE CallerAt(r, "check", "enqueue")
    <3>1. Entering' = Entering
      BY <2>2 DEF CallerAt, Entering, RoutineTypeOK
    <3>2. QED
      BY <2>1, <3>1
  <2>3. CASE CallerAt(r, "check", "refused")
    <3>1. /\ IsFiniteSet(Entering')
          /\ Cardinality(Entering') = Cardinality(Entering) - 1
      BY <2>3, LeaveOne DEF CallerAt
    <3>2. ~connected
      BY <1>2, <2>3 DEF CheckConnected, CallerAt, RoutineTypeOK
    <3>3. Loses
      BY <3>2 DEF Loses
    <3>4. QED
      BY <2>1, <3>1, <3>3
  <2>4. QED
    BY <1>2, <2>2, <2>3 DEF CheckConnected
<1>3. ASSUME NEW r \in Reqs, Enqueue(r) PROVE Goal
  <2>1. /\ IsFiniteSet(Entering')
        /\ Cardinality(Entering') = Cardinality(Entering) - 1
    BY <1>3, LeaveOne DEF Enqueue, CallerAt
  <2>2. outgoing \in Seq(Reqs) /\ outgoing' = Append(outgoing, r)
    BY <1>3, ChanType DEF Enqueue, QueueTypeOK
  <2>3. Len(outgoing') = Len(outgoing) + 1
    BY <2>2, AppendProperties
  <2>4. inflight' = inflight /\ Registered' = Registered /\ Releasing' = Releasing
    BY <1>3 DEF Enqueue, Registered, Releasing
  <2>5. CountsFinite' /\ Surplus' = Surplus /\ Surplus \in Int
    BY SMTT(30), <2>1, <2>3, <2>4
  <2>6. QED
    BY <2>5
<1>4. CASE Retire
  <2>1. /\ IsFiniteSet(Registered')
        /\ Cardinality(Registered') = Cardinality(Registered) - 1
    BY <1>4, UnregisterOne DEF Retire, LoopTypeOK
  <2>2. Releasing = 0 /\ Releasing' = 1
    BY <1>4 DEF Retire, Releasing
  <2>3. inflight' = inflight /\ outgoing' = outgoing /\ Entering' = Entering
    BY <1>4 DEF Retire, Entering
  <2>4. QED
    BY <2>1, <2>2, <2>3
<1>5. CASE Release
  <2>1. Releasing = 1 /\ Releasing' = 0 /\ inflight' = inflight - 1
    BY <1>5 DEF Release, Releasing
  <2>2. Registered' = Registered /\ outgoing' = outgoing /\ Entering' = Entering
    BY <1>5 DEF Release, Registered, Entering
  <2>3. QED
    BY <2>1, <2>2
<1>6. CASE TakeRequest
  <2>1. outgoing \in Seq(Reqs) /\ outgoing # <<>> /\ outgoing' = Tail(outgoing)
    BY <1>6, ChanType DEF TakeRequest, QueueTypeOK
  <2>2. Head(outgoing) \in Reqs /\ Len(outgoing') = Len(outgoing) - 1
    BY <2>1, HeadTailProperties
  <2>3. /\ IsFiniteSet(Registered')
        /\ Cardinality(Registered') =
             IF TxnOf[Head(outgoing)] \in Registered
             THEN Cardinality(Registered) ELSE Cardinality(Registered) + 1
        /\ Cardinality(Registered') \in Nat
    BY <1>6, <2>2, ConnAssumption, RegisterOne, FS_CardinalityType DEF TakeRequest
  <2>4. inflight' = inflight /\ Entering' = Entering /\ Releasing' = Releasing
    BY <1>6 DEF TakeRequest, Entering, Releasing
  <2>5. TxnOf[Head(outgoing)] \in Registered => Loses
    BY <1>6 DEF Loses, Registered
  <2>6. QED
    BY SMTT(30), <2>2, <2>3, <2>4, <2>5
<1>7. CASE DrainOne
  <2>1. outgoing \in Seq(Reqs) /\ outgoing # <<>> /\ outgoing' = Tail(outgoing)
    BY <1>7, ChanType DEF DrainOne, QueueTypeOK
  <2>2. Len(outgoing') = Len(outgoing) - 1
    BY <2>1, HeadTailProperties
  <2>3. /\ inflight' = inflight /\ Entering' = Entering
        /\ Registered' = Registered /\ Releasing' = Releasing
    BY <1>7 DEF DrainOne, Entering, Registered, Releasing
  <2>4. Loses
    BY <1>7 DEF Loses
  <2>5. QED
    BY <2>2, <2>3, <2>4
<1>8. ASSUME NEW t \in Txns, FailOne(t) PROVE Goal
  <2>1. /\ IsFiniteSet(Registered')
        /\ Cardinality(Registered') = Cardinality(Registered) - 1
    BY <1>8, UnregisterOne DEF FailOne, Registered
  <2>2. /\ inflight' = inflight /\ outgoing' = outgoing
        /\ Entering' = Entering /\ Releasing' = Releasing
    BY <1>8 DEF FailOne, Entering, Releasing
  <2>3. Loses
    BY <1>8 DEF Loses
  <2>4. QED
    BY <2>1, <2>2, <2>3
<1>9. ASSUME Entering' = Entering, Releasing' = Releasing,
             UNCHANGED <<requests, inflight, outgoing>>
      PROVE  Goal
  BY <1>9 DEF Registered
<1>10. ASSUME NEW r \in Reqs, NEW from, NEW to, CallerAt(r, from, to),
              from \notin {"check", "enqueue"}, to \notin {"check", "enqueue"}
       PROVE  Entering' = Entering
  BY <1>10 DEF CallerAt, Entering, RoutineTypeOK
<1>11. ASSUME NEW r \in Reqs,
              \/ Submit(r) \/ WaitForRoom(r) \/ InflightTimeout(r)
              \/ CallerClose(r) \/ StopWaiting(r)
       PROVE  Goal
  <2>1. Entering' = Entering
    BY <1>10, <1>11 DEF Submit, WaitForRoom, InflightTimeout, CallerClose, StopWaiting
  <2>2. Releasing' = Releasing /\ UNCHANGED <<requests, inflight, outgoing>>
    BY <1>11 DEF Submit, WaitForRoom, InflightTimeout, CallerClose, StopWaiting,
                 connVars, Releasing
  <2>3. QED
    BY <1>9, <2>1, <2>2
<1>12. CASE Deliver
  <2>1. caller' = caller \/ \E r \in Reqs : CallerAt(r, "accepted", "returned")
    BY <1>12 DEF Deliver, Receiving, CallerAt, LoopTypeOK, Registered
  <2>2. Entering' = Entering
    BY <2>1, <1>10 DEF Entering
  <2>3. Releasing' = Releasing /\ UNCHANGED <<requests, inflight, outgoing>>
    BY <1>12 DEF Deliver, Releasing
  <2>4. QED
    BY <1>9, <2>2, <2>3
<1>13. CASE TakeExit
  <2>1. caller' = caller \/ \E r \in Reqs : CallerAt(r, "sendExit", "refused")
    BY <1>13 DEF TakeExit
  <2>2. Entering' = Entering
    BY <2>1, <1>10 DEF Entering
  <2>3. Releasing' = Releasing /\ UNCHANGED <<requests, inflight, outgoing>>
    BY <1>13 DEF TakeExit, Releasing
  <2>4. QED
    BY <1>9, <2>2, <2>3
<1>14. ASSUME \/ TakeResponse \/ WriteRequest \/ WriteError \/ SetDisconnected
              \/ CloseSocket \/ DrainEnd \/ FailEnd \/ ListenerStep
              \/ \E r \in Reqs : Respond(r)
              \/ \E c \in Closers : Close(c)
              \/ PeerClose \/ UNCHANGED vars
       PROVE  Goal
  <2> USE DEF connVars, Releasing
  <2>1. /\ caller' = caller /\ Releasing' = Releasing
        /\ UNCHANGED <<requests, inflight, outgoing>>
    <3>1. CASE TakeResponse \/ WriteRequest \/ WriteError
      BY <3>1 DEF TakeResponse, WriteRequest, WriteError
    <3>2. CASE SetDisconnected \/ CloseSocket \/ DrainEnd \/ FailEnd
      BY <3>2 DEF SetDisconnected, CloseSocket, DrainEnd, FailEnd
    <3>3. CASE ListenerStep
      BY <3>3 DEF ListenerStep, ListenerDecode, ListenerError, ListenerPush
    <3>4. CASE \/ \E r \in Reqs : Respond(r)
               \/ \E c \in Closers : Close(c)
               \/ PeerClose \/ UNCHANGED vars
      BY <3>4 DEF Respond, Close, PeerClose, vars
    <3>5. QED
      BY <1>14, <3>1, <3>2, <3>3, <3>4
  <2>2. Entering' = Entering
    BY <2>1 DEF Entering
  <2>3. QED
    BY <1>9, <2>1, <2>2
<1>15. QED
  BY <1>1, <1>2, <1>3, <1>4, <1>5, <1>6, <1>7, <1>8, <1>11, <1>12, <1>13, <1>14
  DEF Next, LoopStep, CallerStep

LEMMA TokenStep == TypeOK /\ TypeOK' /\ TokenIInv /\ [Next]_vars => TokenIInv'
<1> SUFFICES ASSUME TypeOK, TypeOK', TokenIInv, [Next]_vars PROVE TokenIInv'
  OBVIOUS
<1>1. CountsFinite /\ CountsFinite' /\ Surplus' >= Surplus
  BY TokenMove DEF TokenIInv
<1>2. /\ Cardinality(Entering) \in Nat /\ Cardinality(Registered) \in Nat
      /\ Len(outgoing) \in Nat /\ inflight \in Nat /\ Releasing \in Nat
  BY <1>1, Counts
<1>3. Cardinality(Entering') \in Nat /\ Cardinality(Registered') \in Nat
  BY <1>1, FS_CardinalityType DEF CountsFinite
<1>4. Len(outgoing') \in Nat /\ inflight' \in Nat /\ Releasing' \in Nat
  BY ConnAssumption, ChanType DEF TypeOK, LoopTypeOK, QueueTypeOK, Releasing
<1>5. Surplus \in Int /\ Surplus >= 0
  BY <1>2 DEF TokenIInv, TokenInv, Surplus, InFlight
<1>6. InFlight' + Releasing' <= inflight'
  BY <1>1, <1>3, <1>4, <1>5 DEF Surplus, InFlight
<1>7. QED
  BY <1>1, <1>6 DEF TokenIInv, TokenInv

LEMMA TokenIInvCorrect == Spec => []TokenIInv
<1>1. TypeOK /\ TypeOK' /\ TokenIInv /\ [Next]_vars => TokenIInv'
  BY TokenStep
<1>2. QED
  BY TokenInit, <1>1, TypeCorrect, PTL DEF Spec

(* Every request on its way in, queued or registered has its own token in  *)
(* inflightChan, whatever ids the requests carry.                          *)
THEOREM TokenCorrect == Spec => []TokenInv
<1>1. TokenIInv => TokenInv
  BY DEF TokenIInv
<1>2. QED
  BY <1>1, TokenIInvCorrect, PTL

(* The window of sendRequest is never exceeded, and the loop's receive     *)
(* from inflightChan, after it deletes a completed request, never blocks.  *)
THEOREM WindowCorrect == Spec => [](WindowRespected /\ ReleaseNeverBlocks)
<1>1. TypeOK /\ TokenIInv => WindowRespected /\ ReleaseNeverBlocks
  <2> SUFFICES ASSUME TypeOK, TokenIInv PROVE WindowRespected /\ ReleaseNeverBlocks
    OBVIOUS
  <2>1. InFlight + Releasing <= inflight /\ inflight <= MaxInFlight
    BY ConnAssumption DEF TokenIInv, TokenInv, TypeOK, LoopTypeOK
  <2>2. QED
    BY <2>1, Counts DEF TokenIInv, InFlight, Releasing, WindowRespected, ReleaseNeverBlocks
<1>2. QED
  BY <1>1, TokenIInvCorrect, TypeCorrect, PTL
-----------------------------------------------------------------------------
(* Where a request can be once sendRequest has accepted it.                *)
Accepted(r) == caller[r] \in {"accepted", "returned"}
Queued(r)   == In(outgoing, r)
InMap(r)    == requests[TxnOf[r]] = r

(* The loop has delivered the last response of r, but not yet deleted it.  *)
Retiring(r) == loop = "retire" /\ cur.txn = TxnOf[r]

(* A request is accepted once, queued once, and registered under its own   *)
(* id after it has left the queue; until it has an outcome, or while it is *)
(* about to be deleted, nothing but these steps touch it.                  *)
QueueInv ==
  /\ Distinct(outgoing)
  /\ \A r \in Reqs : Queued(r) => Accepted(r) /\ ~InMap(r) /\ outcome[r] = "open"

MapInv ==
  \A t \in Txns : requests[t] # NoReq =>
    LET r == requests[t]
    IN  /\ TxnOf[r] = t
        /\ Accepted(r)
        /\ IF Retiring(r) THEN outcome[r] = "completed" ELSE outcome[r] = "open"

LinkInv == connected <=> loop \notin {"closeSocket", "drain", "failAll", "done"}

LifeInv ==
  /\ QueueInv /\ MapInv /\ LinkInv
  /\ \A r \in Reqs : ~Accepted(r) => outcome[r] = "open"

-----------------------------------------------------------------------------
(* A step that neither moves a request through the queue or the map nor    *)
(* gives it an outcome.                                                    *)
Quiet ==
  /\ UNCHANGED <<outgoing, requests, got, outcome>>
  /\ \A r \in Reqs : Accepted(r)' <=> Accepted(r)
  /\ loop' = "retire" <=> loop = "retire"
  /\ loop = "retire" => cur' = cur

Eventful ==
  \/ \E r \in Reqs : Enqueue(r)
  \/ TakeRequest \/ Deliver \/ Retire \/ DrainOne
  \/ \E t \in Txns : FailOne(t)

LEMMA CallerMoves ==
  ASSUME TypeOK, NEW r \in Reqs, NEW from, NEW to, CallerAt(r, from, to),
         from \in {"accepted", "returned"} <=> to \in {"accepted", "returned"}
  PROVE  \A q \in Reqs : Accepted(q)' <=> Accepted(q)
BY DEF CallerAt, Accepted, TypeOK, RoutineTypeOK

LEMMA StepKinds == TypeOK /\ [Next]_vars => Quiet \/ Eventful
<1> SUFFICES ASSUME TypeOK, [Next]_vars, ~Eventful PROVE Quiet
  OBVIOUS
<1>1. ASSUME NEW r \in Reqs,
             \/ Submit(r) \/ Acquire(r) \/ WaitForRoom(r) \/ InflightTimeout(r)
             \/ CallerClose(r) \/ CheckConnected(r) \/ StopWaiting(r)
      PROVE  Quiet
  <2>1. \A q \in Reqs : Accepted(q)' <=> Accepted(q)
    BY <1>1, CallerMoves
    DEF Submit, Acquire, WaitForRoom, InflightTimeout, CallerClose, CheckConnected, StopWaiting
  <2>2. UNCHANGED <<outgoing, requests, got, outcome, loop, cur>>
    BY <1>1 DEF Submit, Acquire, WaitForRoom, InflightTimeout, CallerClose,
                CheckConnected, StopWaiting, connVars, histVars
  <2>3. QED
    BY <2>1, <2>2 DEF Quiet
<1>2. CASE TakeExit
  <2>1. caller' = caller \/ \E r \in Reqs : CallerAt(r, "sendExit", "refused")
    BY <1>2 DEF TakeExit
  <2>2. \A q \in Reqs : Accepted(q)' <=> Accepted(q)
    BY <2>1, CallerMoves DEF Accepted
  <2>3. QED
    BY <1>2, <2>2 DEF TakeExit, Quiet, histVars
<1>3. ASSUME caller' = caller, UNCHANGED <<outgoing, requests, got, outcome>>,
             loop' = "retire" <=> loop = "retire", loop = "retire" => cur' = cur
      PROVE  Quiet
  BY <1>3 DEF Quiet, Accepted
<1>4. CASE TakeResponse \/ Release \/ WriteRequest \/ WriteError
  BY <1>3, <1>4 DEF TakeResponse, Release, WriteRequest, WriteError, histVars
<1>5. CASE SetDisconnected \/ CloseSocket \/ DrainEnd \/ FailEnd
  BY <1>3, <1>5 DEF SetDisconnected, CloseSocket, DrainEnd, FailEnd, histVars
<1>6. CASE ListenerStep
  BY <1>3, <1>6 DEF ListenerStep, ListenerDecode, ListenerError, ListenerPush, connVars, histVars
<1>7. CASE \/ \E r \in Reqs : Respond(r)
           \/ \E c \in Closers : Close(c)
           \/ PeerClose \/ UNCHANGED vars
  BY <1>3, <1>7 DEF Respond, Close, PeerClose, vars, connVars, histVars
<1>8. QED
  BY <1>1, <1>2, <1>4, <1>5, <1>6, <1>7 DEF Next, LoopStep, CallerStep, Eventful

(* What LifeInv says of the requests that one step touches.                *)
LEMMA DeliverFacts ==
  ASSUME TypeOK, LifeInv, Deliver
  PROVE  /\ requests[cur.txn] \in Reqs /\ cur \in Responses
         /\ Accepted(requests[cur.txn]) /\ outcome[requests[cur.txn]] = "open"
         /\ TxnOf[requests[cur.txn]] = cur.txn
         /\ \A q \in Reqs : Accepted(q)' <=> Accepted(q)
<1>1. cur \in Responses /\ cur.txn \in Registered
  BY DEF Deliver, TypeOK, LoopTypeOK
<1>2. cur.txn \in Txns /\ requests[cur.txn] \in Reqs
  BY <1>1 DEF TypeOK, LoopTypeOK, Registered
<1>3. loop = "deliver"
  BY DEF Deliver
<1>4. /\ Accepted(requests[cur.txn]) /\ outcome[requests[cur.txn]] = "open"
      /\ TxnOf[requests[cur.txn]] = cur.txn
  BY <1>2, <1>3, ConnAssumption DEF LifeInv, MapInv, Retiring
<1>5. caller' = caller \/ caller' = [caller EXCEPT ![requests[cur.txn]] = "returned"]
  BY DEF Deliver
<1>6. \A q \in Reqs : Accepted(q)' <=> Accepted(q)
  BY <1>4, <1>5, <1>2 DEF Accepted, TypeOK, RoutineTypeOK
<1>7. QED
  BY <1>1, <1>2, <1>4, <1>6

LEMMA OutgoingType == TypeOK => outgoing \in Seq(Reqs) /\ Len(outgoing) \in Nat
BY ChanType DEF TypeOK, QueueTypeOK

LEMMA EnqueueFacts ==
  ASSUME TypeOK, LifeInv, NEW r \in Reqs, Enqueue(r)
  PROVE  /\ ~Accepted(r) /\ ~Queued(r) /\ ~InMap(r) /\ outcome[r] = "open"
         /\ Accepted(r)' /\ \A q \in Reqs : q # r => (Accepted(q)' <=> Accepted(q))
         /\ \A q \in Reqs : Queued(q)' <=> q = r \/ Queued(q)
         /\ outgoing' = Append(outgoing, r)
         /\ UNCHANGED <<requests, got, outcome, loop, cur, connected>>
<1>1. /\ caller[r] = "enqueue" /\ caller' = [caller EXCEPT ![r] = "accepted"]
      /\ outgoing' = Append(outgoing, r)
      /\ UNCHANGED <<requests, got, outcome, loop, cur, connected>>
  BY DEF Enqueue, CallerAt, histVars
<1>2. ~Accepted(r) /\ Accepted(r)' /\ \A q \in Reqs : q # r => (Accepted(q)' <=> Accepted(q))
  BY <1>1 DEF Accepted, TypeOK, RoutineTypeOK
<1>3. ~Queued(r) /\ outcome[r] = "open"
  BY <1>2 DEF LifeInv, QueueInv
<1>4. ~InMap(r)
  BY <1>2, ConnAssumption DEF LifeInv, MapInv, InMap
<1>5. \A q \in Reqs : Queued(q)' <=> q = r \/ Queued(q)
  BY <1>1, OutgoingType, PutIn DEF Queued
<1>6. QED
  BY <1>1, <1>2, <1>3, <1>4, <1>5

LEMMA TakeRequestFacts ==
  ASSUME TypeOK, LifeInv, TakeRequest
  PROVE  /\ Head(outgoing) \in Reqs /\ Queued(Head(outgoing))
         /\ \A q \in Reqs : Queued(q)' <=> Queued(q) /\ q # Head(outgoing)
         /\ Distinct(outgoing')
         /\ requests' = [requests EXCEPT ![TxnOf[Head(outgoing)]] = Head(outgoing)]
         /\ loop = "select" /\ loop' = "write"
         /\ UNCHANGED <<caller, got, outcome, connected>>
<1>1. /\ outgoing \in Seq(Reqs) /\ outgoing # <<>> /\ outgoing' = Tail(outgoing)
      /\ requests' = [requests EXCEPT ![TxnOf[Head(outgoing)]] = Head(outgoing)]
      /\ loop = "select" /\ loop' = "write"
      /\ UNCHANGED <<caller, got, outcome, connected>>
  BY OutgoingType DEF TakeRequest, histVars
<1>2. Distinct(outgoing)
  BY DEF LifeInv, QueueInv
<1>3. QED
  BY <1>1, <1>2, TakeIn, TakeDistinct DEF Queued

LEMMA DrainFacts ==
  ASSUME TypeOK, LifeInv, DrainOne
  PROVE  /\ Head(outgoing) \in Reqs /\ Queued(Head(outgoing))
         /\ \A q \in Reqs : Queued(q)' <=> Queued(q) /\ q # Head(outgoing)
         /\ Distinct(outgoing')
         /\ outcome' = [outcome EXCEPT ![Head(outgoing)] = "error"]
         /\ loop = "drain"
         /\ UNCHANGED <<caller, requests, got, loop, cur, connected>>
<1>1. /\ outgoing \in Seq(Reqs) /\ outgoing # <<>> /\ outgoing' = Tail(outgoing)
      /\ outcome' = [outcome EXCEPT ![Head(outgoing)] = "error"]
      /\ loop = "drain"
      /\ UNCHANGED <<caller, requests, got, loop, cur, connected>>
  BY OutgoingType DEF DrainOne
<1>2. Distinct(outgoing)
  BY DEF LifeInv, QueueInv
<1>3. QED
  BY <1>1, <1>2, TakeIn, TakeDistinct DEF Queued

(***************************************************************************)
(* LifeInv is inductive: the queue holds a request once because a caller   *)
(* enqueues once; a request in the map has left the queue, and it leaves   *)
(* the map with its outcome or, under a shared id, without one.            *)
(***************************************************************************)
LEMMA LifeStep == TypeOK /\ TypeOK' /\ LifeInv /\ [Next]_vars => LifeInv'
<1> SUFFICES ASSUME TypeOK, TypeOK', LifeInv, [Next]_vars PROVE LifeInv'
  OBVIOUS
<1> USE ConnAssumption
<1> DEFINE RefusedOpen == \A r \in Reqs : ~Accepted(r) => outcome[r] = "open"
<1>0. LinkInv'
  <2>1. CASE UNCHANGED <<connected, loop>>
    BY <2>1 DEF LifeInv, LinkInv
  <2>2. CASE LoopStep
    BY <2>2 DEF LifeInv, LinkInv, LoopStep, TakeResponse, Deliver, Retire, Release, TakeRequest,
       WriteRequest, WriteError, TakeExit, SetDisconnected, CloseSocket, DrainOne, DrainEnd,
       FailOne, FailEnd
  <2>3. QED
    BY <2>1, <2>2
    DEF Next, ListenerStep, CallerStep, vars, connVars, ListenerDecode, ListenerError,
        ListenerPush, Submit, Acquire, WaitForRoom, InflightTimeout, CallerClose,
        CheckConnected, Enqueue, StopWaiting, Close, Respond, PeerClose
<1>1. CASE Quiet
  <2>1. QueueInv'
    BY <1>1 DEF Quiet, LifeInv, QueueInv, Queued, InMap, Distinct
  <2>2. MapInv'
    BY <1>1 DEF Quiet, LifeInv, MapInv, Retiring, TypeOK, LoopTypeOK
  <2>3. RefusedOpen'
    BY <1>1 DEF Quiet, LifeInv
  <2>4. QED
    BY <1>0, <2>1, <2>2, <2>3 DEF LifeInv
<1>2. ASSUME NEW r \in Reqs, Enqueue(r) PROVE LifeInv'
  <2> USE EnqueueFacts, <1>2
  <2>1. Distinct(outgoing')
    BY OutgoingType, PutDistinct DEF LifeInv, QueueInv, Queued
  <2>2. QueueInv'
    BY <2>1 DEF LifeInv, QueueInv, InMap
  <2>3. MapInv'
    BY DEF LifeInv, MapInv, Retiring, TypeOK, LoopTypeOK
  <2>4. RefusedOpen'
    BY DEF LifeInv
  <2>5. QED
    BY <1>0, <2>2, <2>3, <2>4 DEF LifeInv
<1>3. CASE TakeRequest
  <2> DEFINE h == Head(outgoing)
  <2>1. /\ h \in Reqs /\ Queued(h) /\ Accepted(h) /\ outcome[h] = "open" /\ ~InMap(h)
        /\ \A q \in Reqs : Accepted(q)' <=> Accepted(q)
    BY <1>3, TakeRequestFacts DEF LifeInv, QueueInv, Accepted
  <2>2. QueueInv'
    <3>1. \A q \in Reqs : Queued(q)' => ~InMap(q)'
      BY <1>3, <2>1, TakeRequestFacts DEF LifeInv, QueueInv, InMap, TypeOK, LoopTypeOK
    <3>2. QED
      BY <1>3, <2>1, <3>1, TakeRequestFacts DEF LifeInv, QueueInv
  <2>3. MapInv'
    BY <1>3, <2>1, TakeRequestFacts DEF LifeInv, MapInv, Retiring, TypeOK, LoopTypeOK
  <2>4. RefusedOpen'
    BY <1>3, <2>1, TakeRequestFacts DEF LifeInv
  <2>5. QED
    BY <1>0, <2>2, <2>3, <2>4 DEF LifeInv
<1>4. CASE Deliver
  <2> DEFINE r == requests[cur.txn]
  <2>1. /\ loop = "deliver" /\ UNCHANGED <<outgoing, requests, connected>>
        /\ IF cur.status = "completed"
           THEN outcome' = [outcome EXCEPT ![r] = "completed"] /\ loop' = "retire" /\ cur' = cur
           ELSE outcome' = outcome /\ loop' = "select"
    BY <1>4 DEF Deliver
  <2>2. /\ r \in Reqs /\ Accepted(r) /\ TxnOf[r] = cur.txn /\ InMap(r)
        /\ \A q \in Reqs : Accepted(q)' <=> Accepted(q)
    BY <1>4, DeliverFacts DEF InMap
  <2>3. \A q \in Reqs : q # r => outcome'[q] = outcome[q]
    BY <2>1, <2>2 DEF TypeOK, HistTypeOK
  <2>4. QueueInv'
    BY <2>1, <2>2, <2>3 DEF LifeInv, QueueInv, Queued, InMap, Distinct
  <2>5. MapInv'
    <3> SUFFICES ASSUME NEW t \in Txns, requests[t] # NoReq
                 PROVE  LET q == requests[t]
                        IN  /\ TxnOf[q] = t /\ Accepted(q)'
                            /\ IF Retiring(q)' THEN outcome'[q] = "completed"
                                               ELSE outcome'[q] = "open"
      BY <2>1 DEF MapInv
    <3>1. requests[t] \in Reqs /\ TxnOf[requests[t]] = t /\ Accepted(requests[t])
          /\ outcome[requests[t]] = "open"
      BY <2>1 DEF LifeInv, MapInv, Retiring, TypeOK, LoopTypeOK
    <3>2. requests[t] = r <=> t = cur.txn
      BY <3>1, <2>2
    <3>3. QED
      BY <2>1, <2>2, <2>3, <3>1, <3>2 DEF Retiring, TypeOK, HistTypeOK
  <2>6. RefusedOpen'
    BY <2>2, <2>3 DEF LifeInv
  <2>7. QED
    BY <1>0, <2>4, <2>5, <2>6 DEF LifeInv
<1>5. CASE Retire
  <2>1. /\ loop = "retire" /\ loop' = "release"
        /\ requests' = [requests EXCEPT ![cur.txn] = NoReq]
        /\ UNCHANGED <<outgoing, caller, got, outcome>>
    BY <1>5 DEF Retire, histVars
  <2>2. \A q \in Reqs : Accepted(q)' <=> Accepted(q)
    BY <2>1 DEF Accepted
  <2>3. \A t \in Txns : requests'[t] # NoReq => requests'[t] = requests[t] /\ t # cur.txn
    BY <2>1 DEF TypeOK, LoopTypeOK, Registered
  <2>4. \A q \in Reqs : InMap(q)' => InMap(q)
    BY <2>3 DEF InMap
  <2>5. QueueInv'
    BY <2>1, <2>2, <2>4 DEF LifeInv, QueueInv, Queued, Distinct
  <2>6. MapInv'
    <3>1. \A t \in Txns : requests'[t] # NoReq =>
            requests[t] \in Reqs /\ TxnOf[requests[t]] = t /\ ~Retiring(requests[t])
      BY <2>3 DEF LifeInv, MapInv, Retiring, TypeOK, LoopTypeOK
    <3>2. QED
      BY <2>1, <2>2, <2>3, <3>1 DEF LifeInv, MapInv, Retiring
  <2>7. RefusedOpen'
    BY <2>1, <2>2 DEF LifeInv
  <2>8. QED
    BY <1>0, <2>5, <2>6, <2>7 DEF LifeInv
<1>6. CASE DrainOne
  <2> DEFINE h == Head(outgoing)
  <2>1. /\ h \in Reqs /\ Accepted(h) /\ ~InMap(h)
        /\ \A q \in Reqs : Accepted(q)' <=> Accepted(q)
        /\ \A q \in Reqs : q # h => outcome'[q] = outcome[q]
    BY <1>6, DrainFacts DEF LifeInv, QueueInv, Accepted, TypeOK, HistTypeOK
  <2>2. QueueInv'
    BY <1>6, <2>1, DrainFacts DEF LifeInv, QueueInv, InMap
  <2>3. MapInv'
    <3>1. \A t \in Txns : requests[t] # NoReq => requests[t] \in Reqs /\ requests[t] # h
      BY <2>1 DEF LifeInv, MapInv, InMap, TypeOK, LoopTypeOK
    <3>2. QED
      BY <1>6, <2>1, <3>1, DrainFacts DEF LifeInv, MapInv, Retiring
  <2>4. RefusedOpen'
    BY <1>6, <2>1, DrainFacts DEF LifeInv
  <2>5. QED
    BY <1>0, <2>2, <2>3, <2>4 DEF LifeInv
<1>7. ASSUME NEW t \in Txns, FailOne(t) PROVE LifeInv'
  <2> DEFINE r == requests[t]
  <2>1. /\ loop = "failAll" /\ r # NoReq
        /\ outcome' = [outcome EXCEPT ![r] = "error"]
        /\ requests' = [requests EXCEPT ![t] = NoReq]
        /\ UNCHANGED <<outgoing, caller, got, loop, cur>>
    BY <1>7 DEF FailOne
  <2>2. r \in Reqs /\ Accepted(r) /\ TxnOf[r] = t /\ InMap(r)
    BY <2>1 DEF LifeInv, MapInv, InMap, TypeOK, LoopTypeOK
  <2>3. /\ \A q \in Reqs : Accepted(q)' <=> Accepted(q)
        /\ \A q \in Reqs : q # r => outcome'[q] = outcome[q]
        /\ \A u \in Txns : requests'[u] # NoReq => requests'[u] = requests[u] /\ u # t
    BY <2>1, <2>2 DEF Accepted, TypeOK, HistTypeOK, LoopTypeOK
  <2>4. QueueInv'
    BY <2>1, <2>2, <2>3 DEF LifeInv, QueueInv, Queued, InMap, Distinct
  <2>5. MapInv'
    <3>1. \A u \in Txns : requests'[u] # NoReq => requests[u] \in Reqs /\ requests[u] # r
      BY <2>2, <2>3 DEF LifeInv, MapInv, TypeOK, LoopTypeOK
    <3>2. QED
      BY <2>1, <2>3, <3>1 DEF LifeInv, MapInv, Retiring
  <2>6. RefusedOpen'
    BY <2>2, <2>3 DEF LifeInv
  <2>7. QED
    BY <1>0, <2>4, <2>5, <2>6 DEF LifeInv
<1>8. QED
  BY <1>1, <1>2, <1>3, <1>4, <1>5, <1>6, <1>7, StepKinds DEF Eventful

LEMMA LifeInit == Init => LifeInv
BY ConnAssumption
DEF Init, LifeInv, QueueInv, MapInv, LinkInv, Accepted, Queued, InMap, In, Distinct

LEMMA LifeInductive == Spec => []LifeInv
<1>1. TypeOK /\ TypeOK' /\ LifeInv /\ [Next]_vars => LifeInv'
  BY LifeStep
<1>2. QED
  BY LifeInit, <1>1, TypeCorrect, PTL DEF Spec
-----------------------------------------------------------------------------
(***************************************************************************)
(* The refinement.  Only the steps named here change the phase of a        *)
(* request, the number of its responses or the link; each is the step of   *)
(* TxnContract of the same meaning, and LifeInv says that the request was  *)
(* in the phase that the contract asks for.                                *)
(***************************************************************************)
Phases == [r \in Reqs |-> Phase(r)]

LEMMA PhaseOpen ==
  ASSUME NEW r \in Reqs
  PROVE  /\ Accepted(r) /\ outcome[r] = "open" => Phase(r) = "open"
         /\ ~Accepted(r) /\ outcome[r] = "open" =>
              Phase(r) = IF caller[r] = "refused" THEN "refused" ELSE "new"
         /\ outcome[r] = "completed" => Phase(r) = "completed"
         /\ outcome[r] = "error" => Phase(r) = "failed"
BY DEF Phase, Accepted

(* A request whose outcome and whose standing are the same has its phase.  *)
LEMMA PhaseSame ==
  ASSUME TypeOK, NEW r \in Reqs, outcome'[r] = outcome[r], Accepted(r)' <=> Accepted(r),
         (caller[r] = "refused")' <=> caller[r] = "refused"
  PROVE  Phase(r)' = Phase(r)
BY DEF Phase, Accepted

LEMMA MoveOne ==
  ASSUME NEW r \in Reqs, NEW from, NEW to, Phase(r) = from, Phase(r)' = to,
         \A q \in Reqs : q # r => Phase(q)' = Phase(q)
  PROVE  Contract!Move(r, from, to)
BY DEF Contract!Move

LEMMA Unmoved ==
  ASSUME \A q \in Reqs : Phase(q)' = Phase(q)
  PROVE  UNCHANGED Phases
BY DEF Phases

(* A caller that is refused: Refuse.                                       *)
LEMMA RefuseStep ==
  ASSUME TypeOK, LifeInv, NEW r \in Reqs, NEW from, CallerAt(r, from, "refused"),
         from \notin {"accepted", "returned", "refused"}, UNCHANGED <<got, outcome, connected>>
  PROVE  Contract!Next
<1>1. caller[r] = from /\ caller' = [caller EXCEPT ![r] = "refused"]
  BY DEF CallerAt
<1>2. ~Accepted(r) /\ caller[r] # "refused" /\ caller'[r] = "refused"
  BY <1>1 DEF Accepted, TypeOK, RoutineTypeOK
<1>3. \A q \in Reqs : q # r => caller'[q] = caller[q]
  BY <1>1 DEF TypeOK, RoutineTypeOK
<1>4. outcome[r] = "open" /\ outcome'[r] = "open" /\ ~Accepted(r)'
  BY <1>2 DEF LifeInv, Accepted
<1>5. Phase(r) = "new" /\ Phase(r)' = "refused"
  BY <1>2, <1>4, PhaseOpen DEF Phase, Accepted
<1>6. \A q \in Reqs : q # r => Phase(q)' = Phase(q)
  BY <1>3, PhaseSame DEF Accepted
<1>7. Contract!Move(r, "new", "refused")
  BY <1>5, <1>6, MoveOne
<1>8. QED
  BY <1>7 DEF Contract!Next, Contract!Refuse

(* A caller that moves on without being accepted or refused: nothing.      *)
LEMMA CallerStutters ==
  ASSUME TypeOK, NEW r \in Reqs, NEW from, NEW to, CallerAt(r, from, to),
         from \in {"accepted", "returned"} <=> to \in {"accepted", "returned"},
         "refused" \notin {from, to}, UNCHANGED <<got, outcome, connected>>
  PROVE  UNCHANGED Contract!vars
<1>1. \A q \in Reqs : (caller[q] = "refused")' <=> caller[q] = "refused"
  BY DEF CallerAt, TypeOK, RoutineTypeOK
<1>2. \A q \in Reqs : Phase(q)' = Phase(q)
  BY <1>1, CallerMoves, PhaseSame
<1>3. QED
  BY <1>2 DEF Contract!vars

LEMMA RefinesStep == TypeOK /\ TypeOK' /\ LifeInv /\ [Next]_vars => [Contract!Next]_(Contract!vars)
<1> SUFFICES ASSUME TypeOK, TypeOK', LifeInv, [Next]_vars
             PROVE  Contract!Next \/ UNCHANGED Contract!vars
  OBVIOUS
<1> USE ConnAssumption
<1>1. ASSUME NEW r \in Reqs, Enqueue(r) PROVE Contract!Next
  <2>1. caller[r] = "enqueue" /\ caller' = [caller EXCEPT ![r] = "accepted"]
    BY <1>1 DEF Enqueue, CallerAt
  <2>2. Phase(r) = "new" /\ Phase(r)' = "open"
    BY <1>1, <2>1, EnqueueFacts, PhaseOpen DEF Phase, Accepted
  <2>3. \A q \in Reqs : q # r => caller'[q] = caller[q]
    BY <2>1 DEF TypeOK, RoutineTypeOK
  <2>4. \A q \in Reqs : q # r => Phase(q)' = Phase(q)
    BY <1>1, <2>3, EnqueueFacts, PhaseSame
  <2>5. Contract!Move(r, "new", "open")
    BY <2>2, <2>4, MoveOne
  <2>6. QED
    BY <1>1, <2>5, EnqueueFacts DEF Contract!Next, Contract!Open
<1>2. CASE Deliver
  <2>0. PICK r \in Reqs : r = requests[cur.txn]
    BY <1>2, DeliverFacts
  <2> DEFINE x == [of |-> cur.of, n |-> cur.n]
             Lens == [q \in Reqs |-> Len(got[q])]
  <2>1. /\ r \in Reqs /\ Accepted(r) /\ outcome[r] = "open"
        /\ \A q \in Reqs : Accepted(q)' <=> Accepted(q)
    BY <1>2, <2>0, DeliverFacts
  <2>2. /\ got' = [got EXCEPT ![r] = Append(@, x)] /\ connected' = connected
        /\ loop = "deliver"
        /\ outcome' = outcome \/ outcome' = [outcome EXCEPT ![r] = "completed"]
        /\ caller' = caller \/ caller' = [caller EXCEPT ![r] = "returned"]
    BY <1>2, <2>0 DEF Deliver
  <2>3. connected
    BY <2>2 DEF LifeInv, LinkInv
  <2>4. x \in [of : Reqs, n : 1..MaxResp]
    BY <1>2, DeliverFacts, ResponseType
  <2>5. Len(got'[r]) = Len(got[r]) + 1
    BY <2>1, <2>2, <2>4, AppendProperties DEF TypeOK, HistTypeOK
  <2>6. \A q \in Reqs : q # r => Len(got'[q]) = Len(got[q])
    BY <2>2 DEF TypeOK, HistTypeOK
  <2>7. Lens' = [Lens EXCEPT ![r] = @ + 1]
    BY <2>1, <2>5, <2>6
  <2>8. \A q \in Reqs : q # r => outcome'[q] = outcome[q] /\ caller'[q] = caller[q]
    BY <2>1, <2>2 DEF TypeOK, HistTypeOK, RoutineTypeOK
  <2>9. \A q \in Reqs : q # r => Phase(q)' = Phase(q)
    BY <2>1, <2>8, PhaseSame
  <2>10. Phase(r) = "open" /\ Phase(r)' \in {"open", "completed"}
    <3>1. outcome'[r] \in {"open", "completed"} /\ Accepted(r)'
      BY <2>1, <2>2 DEF TypeOK, HistTypeOK
    <3>2. QED
      BY <2>1, <3>1, PhaseOpen DEF Phase, Accepted
  <2>11. Contract!Move(r, "open", "open") \/ Contract!Move(r, "open", "completed")
    BY <2>1, <2>9, <2>10, MoveOne
  <2>12. Contract!Respond(r)
    BY <2>2, <2>3, <2>7, <2>11 DEF Contract!Respond
  <2>13. QED
    BY <2>1, <2>12 DEF Contract!Next
<1>3. CASE DrainOne
  <2>0. PICK h \in Reqs : h = Head(outgoing)
    BY <1>3, DrainFacts
  <2>1. /\ h \in Reqs /\ Accepted(h) /\ outcome[h] = "open" /\ ~connected
        /\ outcome' = [outcome EXCEPT ![h] = "error"]
        /\ UNCHANGED <<caller, got, connected>>
    BY <1>3, <2>0, DrainFacts DEF LifeInv, QueueInv, LinkInv
  <2>2. outcome'[h] = "error" /\ \A q \in Reqs : q # h => outcome'[q] = outcome[q]
    BY <2>1 DEF TypeOK, HistTypeOK
  <2>3. \A q \in Reqs : q # h => Phase(q)' = Phase(q)
    BY <2>1, <2>2, PhaseSame DEF Accepted
  <2>4. Phase(h) = "open" /\ Phase(h)' = "failed"
    BY <2>1, <2>2, PhaseOpen DEF Phase
  <2>5. Contract!Move(h, "open", "failed")
    BY <2>1, <2>3, <2>4, MoveOne
  <2>6. QED
    BY <2>1, <2>5 DEF Contract!Next, Contract!Fail
<1>4. ASSUME NEW t \in Txns, FailOne(t) PROVE Contract!Next
  <2>0. PICK r \in Reqs : r = requests[t]
    BY <1>4 DEF FailOne, TypeOK, LoopTypeOK
  <2>1. /\ loop = "failAll" /\ r # NoReq
        /\ outcome' = [outcome EXCEPT ![r] = "error"]
        /\ UNCHANGED <<caller, got, connected>>
    BY <1>4, <2>0 DEF FailOne
  <2>2. /\ r \in Reqs /\ Accepted(r) /\ outcome[r] = "open" /\ ~connected
    BY <2>0, <2>1 DEF LifeInv, MapInv, LinkInv, Retiring, TypeOK, LoopTypeOK
  <2>3. outcome'[r] = "error" /\ \A q \in Reqs : q # r => outcome'[q] = outcome[q]
    BY <2>1, <2>2 DEF TypeOK, HistTypeOK
  <2>4. \A q \in Reqs : q # r => Phase(q)' = Phase(q)
    BY <2>1, <2>3, PhaseSame DEF Accepted
  <2>5. Phase(r) = "open" /\ Phase(r)' = "failed"
    BY <2>2, <2>3, PhaseOpen DEF Phase
  <2>6. Contract!Move(r, "open", "failed")
    BY <2>2, <2>4, <2>5, MoveOne
  <2>7. QED
    BY <2>1, <2>2, <2>6 DEF Contract!Next, Contract!Fail
<1>5. ASSUME UNCHANGED <<caller, got, outcome, connected>> PROVE UNCHANGED Contract!vars
  <2>1. \A q \in Reqs : Phase(q)' = Phase(q)
    BY <1>5 DEF Phase
  <2>2. QED
    BY <1>5, <2>1 DEF Contract!vars
<1>6. CASE SetDisconnected
  <2>1. connected /\ connected' = FALSE /\ UNCHANGED <<caller, got, outcome>>
    BY <1>6 DEF SetDisconnected, histVars, LifeInv, LinkInv
  <2>2. \A q \in Reqs : Phase(q)' = Phase(q)
    BY <2>1 DEF Phase
  <2>3. QED
    BY <2>1, <2>2 DEF Contract!Next, Contract!GoDown
<1>7. ASSUME NEW r \in Reqs, \/ Submit(r) \/ Acquire(r) \/ WaitForRoom(r)
                             \/ InflightTimeout(r) \/ StopWaiting(r)
      PROVE  UNCHANGED Contract!vars
  BY <1>7, CallerStutters
  DEF Submit, Acquire, WaitForRoom, InflightTimeout, StopWaiting, connVars, histVars
<1>8. ASSUME NEW r \in Reqs, CheckConnected(r) \/ CallerClose(r)
      PROVE  Contract!Next \/ UNCHANGED Contract!vars
  <2>1. UNCHANGED <<got, outcome, connected>>
    BY <1>8 DEF CheckConnected, CallerClose, connVars, histVars
  <2>2. \/ CallerAt(r, "check", "enqueue") \/ CallerAt(r, "close", "sendExit")
        \/ CallerAt(r, "check", "refused") \/ CallerAt(r, "close", "refused")
    BY <1>8 DEF CheckConnected, CallerClose
  <2>3. QED
    BY <2>1, <2>2, CallerStutters, RefuseStep
<1>9. CASE TakeExit
  <2>1. UNCHANGED <<got, outcome, connected>>
    BY <1>9 DEF TakeExit, histVars
  <2>2. caller' = caller \/ \E r \in Reqs : CallerAt(r, "sendExit", "refused")
    BY <1>9 DEF TakeExit
  <2>3. QED
    BY <1>5, <2>1, <2>2, RefuseStep
<1>10. CASE TakeResponse \/ Retire \/ Release \/ TakeRequest \/ WriteRequest \/ WriteError
  BY <1>5, <1>10 DEF TakeResponse, Retire, Release, TakeRequest, WriteRequest, WriteError, histVars
<1>11. CASE CloseSocket \/ DrainEnd \/ FailEnd \/ ListenerStep
  BY <1>5, <1>11
  DEF CloseSocket, DrainEnd, FailEnd, ListenerStep, ListenerDecode, ListenerError,
      ListenerPush, connVars, histVars
<1>12. CASE \/ \E r \in Reqs : Respond(r)
            \/ \E c \in Closers : Close(c)
            \/ PeerClose \/ UNCHANGED vars
  BY <1>5, <1>12 DEF Respond, Close, PeerClose, vars, connVars, histVars
<1>13. QED
  BY <1>1, <1>2, <1>3, <1>4, <1>6, <1>7, <1>8, <1>9, <1>10, <1>11, <1>12
  DEF Next, LoopStep, CallerStep

LEMMA RefinesInit == Init => Contract!Init
BY DEF Init, Phase, Contract!Init

(* The connection implements the contract of a transaction, whatever the   *)
(* ids: a request is refused or opened, receives responses until one       *)
(* completes it, fails only after the connection is down, and nothing      *)
(* happens to it after that (ContractSpec).                                *)
THEOREM ImplementsContract == Spec => ContractSpec
<1>1. TypeOK /\ TypeOK' /\ LifeInv /\ [Next]_vars => [Contract!Next]_(Contract!vars)
  BY RefinesStep
<1>2. QED
  BY RefinesInit, <1>1, TypeCorrect, LifeInductive, PTL DEF Spec, ContractSpec, Contract!Spec
-----------------------------------------------------------------------------
(***************************************************************************)
(* From here on the ids of the requests of one connection are unique, as   *)
(* NewTxnId makes them: a request is registered under an id that is free,  *)
(* and nothing but its own end removes it from the map.                    *)
(***************************************************************************)
UniqueTxns == \A r, s \in Reqs : TxnOf[r] = TxnOf[s] => r = s

LEMMA IdIsFree ==
  ASSUME UniqueTxns, TypeOK, LifeInv, TakeRequest
  PROVE  requests[TxnOf[Head(outgoing)]] = NoReq
<1> DEFINE h == Head(outgoing)
<1>1. h \in Reqs /\ ~InMap(h)
  BY TakeRequestFacts DEF LifeInv, QueueInv
<1>2. TxnOf[h] \in Txns
  BY <1>1, ConnAssumption
<1>3. CASE requests[TxnOf[h]] # NoReq
  <2>1. requests[TxnOf[h]] \in Reqs /\ TxnOf[requests[TxnOf[h]]] = TxnOf[h]
    BY <1>2, <1>3 DEF LifeInv, MapInv, TypeOK, LoopTypeOK
  <2>2. requests[TxnOf[h]] = h
    BY <1>1, <2>1 DEF UniqueTxns
  <2>3. QED
    BY <1>1, <2>2 DEF InMap
<1>4. QED
  BY <1>3

LEMMA LinkFalls == [Next]_vars => (connected' => connected)
<1> SUFFICES ASSUME [Next]_vars PROVE connected' => connected
  OBVIOUS
<1>1. CASE SetDisconnected
  BY <1>1 DEF SetDisconnected
<1>2. CASE UNCHANGED connected
  BY <1>2
<1>3. QED
  BY <1>1, <1>2
  DEF Next, LoopStep, ListenerStep, CallerStep, vars, connVars, TakeResponse, Deliver,
      Retire, Release, TakeRequest, WriteRequest, WriteError, TakeExit, CloseSocket,
      DrainOne, DrainEnd, FailOne, FailEnd, ListenerDecode, ListenerError, ListenerPush,
      Submit, Acquire, WaitForRoom, InflightTimeout, CallerClose, CheckConnected, Enqueue,
      StopWaiting, Close, Respond, PeerClose

(* While the connection lives no token is lost: every token in             *)
(* inflightChan belongs to a request, so the window never shrinks          *)
(* (NoTokenLeak).                                                          *)
THEOREM NoLeakCorrect == ASSUME UniqueTxns PROVE Spec => []NoTokenLeak
<1> DEFINE NoSurplus == connected => Surplus = 0
<1>1. Init => NoSurplus
  <2> SUFFICES ASSUME Init PROVE Surplus = 0
    OBVIOUS
  <2>1. Entering = {} /\ Registered = {} /\ outgoing = <<>> /\ inflight = 0 /\ Releasing = 0
    BY DEF Init, Entering, Registered, Releasing
  <2>2. QED
    BY <2>1, FS_EmptySet DEF Surplus, InFlight
<1>2. TypeOK /\ CountsFinite /\ LifeInv /\ NoSurplus /\ [Next]_vars => NoSurplus'
  <2> SUFFICES ASSUME TypeOK, CountsFinite, LifeInv, NoSurplus, [Next]_vars, connected'
               PROVE  Surplus' = 0
    OBVIOUS
  <2>1. connected
    BY LinkFalls
  <2>2. ~Loses
    <3>1. loop \notin {"drain", "failAll"}
      BY <2>1 DEF LifeInv, LinkInv
    <3>2. ~DrainOne /\ ~\E t \in Txns : FailOne(t)
      BY <3>1 DEF DrainOne, FailOne
    <3>3. TakeRequest => requests[TxnOf[Head(outgoing)]] = NoReq
      BY IdIsFree
    <3>4. QED
      BY <2>1, <3>2, <3>3 DEF Loses
  <2>3. QED
    BY <2>1, <2>2, TokenMove
<1>3. TypeOK /\ CountsFinite /\ NoSurplus => NoTokenLeak
  BY Counts DEF Surplus, InFlight, NoTokenLeak
<1>4. TokenIInv => CountsFinite
  BY DEF TokenIInv
<1>5. QED
  BY <1>1, <1>2, <1>3, <1>4, TypeCorrect, TokenIInvCorrect, LifeInductive, PTL DEF Spec

(* Until it has an outcome, an accepted request is queued or registered.   *)
TrackInv == \A r \in Reqs : Accepted(r) /\ outcome[r] = "open" => Queued(r) \/ InMap(r)

LEMMA TrackStep ==
  ASSUME UniqueTxns
  PROVE  TypeOK /\ TypeOK' /\ LifeInv /\ TrackInv /\ [Next]_vars => TrackInv'
<1> SUFFICES ASSUME TypeOK, TypeOK', LifeInv, TrackInv, [Next]_vars PROVE TrackInv'
  OBVIOUS
<1> USE ConnAssumption
<1>1. CASE Quiet
  BY <1>1 DEF Quiet, TrackInv, Queued, InMap
<1>2. ASSUME NEW r \in Reqs, Enqueue(r) PROVE TrackInv'
  BY <1>2, EnqueueFacts DEF TrackInv, InMap
<1>3. CASE TakeRequest
  <2>0. PICK h \in Reqs : h = Head(outgoing)
    BY <1>3, TakeRequestFacts
  <2>1. /\ requests' = [requests EXCEPT ![TxnOf[h]] = h] /\ requests[TxnOf[h]] = NoReq
        /\ UNCHANGED <<caller, outcome>>
        /\ \A q \in Reqs : Queued(q)' <=> Queued(q) /\ q # h
    BY <1>3, <2>0, TakeRequestFacts, IdIsFree
  <2>2. InMap(h)' /\ \A q \in Reqs : InMap(q) => InMap(q)'
    BY <2>1 DEF InMap, TypeOK, LoopTypeOK
  <2>3. QED
    BY <2>1, <2>2 DEF TrackInv, Accepted
<1>4. CASE Deliver
  <2>0. PICK r \in Reqs : r = requests[cur.txn]
    BY <1>4, DeliverFacts
  <2>1. /\ UNCHANGED <<outgoing, requests>>
        /\ outcome' = outcome \/ outcome' = [outcome EXCEPT ![r] = "completed"]
        /\ \A q \in Reqs : Accepted(q)' <=> Accepted(q)
    BY <1>4, <2>0, DeliverFacts DEF Deliver
  <2>2. \A q \in Reqs : outcome'[q] = "open" => outcome[q] = "open"
    BY <2>1 DEF TypeOK, HistTypeOK
  <2>3. QED
    BY <2>1, <2>2 DEF TrackInv, Queued, InMap
<1>5. CASE Retire
  <2>1. /\ loop = "retire" /\ requests' = [requests EXCEPT ![cur.txn] = NoReq]
        /\ UNCHANGED <<outgoing, caller, outcome>>
    BY <1>5 DEF Retire, histVars
  <2>2. ASSUME NEW q \in Reqs, InMap(q), outcome[q] = "open" PROVE InMap(q)'
    <3>1. TxnOf[q] \in Txns /\ requests[TxnOf[q]] = q
      BY <2>2 DEF InMap
    <3>2. TxnOf[q] # cur.txn
      BY <2>1, <2>2, <3>1 DEF LifeInv, MapInv, Retiring
    <3>3. QED
      BY <2>1, <3>1, <3>2 DEF InMap, TypeOK, LoopTypeOK
  <2>3. QED
    BY <2>1, <2>2 DEF TrackInv, Queued, Accepted
<1>6. CASE DrainOne
  <2>0. PICK h \in Reqs : h = Head(outgoing)
    BY <1>6, DrainFacts
  <2>1. /\ outcome' = [outcome EXCEPT ![h] = "error"] /\ UNCHANGED <<caller, requests>>
        /\ \A q \in Reqs : Queued(q)' <=> Queued(q) /\ q # h
    BY <1>6, <2>0, DrainFacts
  <2>2. QED
    BY <2>1 DEF TrackInv, InMap, Accepted, TypeOK, HistTypeOK
<1>7. ASSUME NEW t \in Txns, FailOne(t) PROVE TrackInv'
  <2>0. PICK r \in Reqs : r = requests[t]
    BY <1>7 DEF FailOne, TypeOK, LoopTypeOK
  <2>1. /\ outcome' = [outcome EXCEPT ![r] = "error"] /\ UNCHANGED <<caller, outgoing>>
        /\ requests' = [requests EXCEPT ![t] = NoReq]
    BY <1>7, <2>0 DEF FailOne
  <2>2. ASSUME NEW q \in Reqs, InMap(q), q # r PROVE InMap(q)'
    <3>1. TxnOf[q] \in Txns /\ TxnOf[q] # t
      BY <2>0, <2>2 DEF InMap
    <3>2. QED
      BY <2>1, <2>2, <3>1 DEF InMap, TypeOK, LoopTypeOK
  <2>3. QED
    BY <2>1, <2>2 DEF TrackInv, Queued, Accepted, TypeOK, HistTypeOK
<1>8. QED
  BY <1>1, <1>2, <1>3, <1>4, <1>5, <1>6, <1>7, StepKinds DEF Eventful

(* cleanup reaches every request that the connection has accepted: when    *)
(* the loop has ended, one without an outcome was put in outgoingChan      *)
(* after cleanup had emptied it (CleanupMissesNone).                       *)
THEOREM CleanupCorrect == ASSUME UniqueTxns PROVE Spec => []CleanupMissesNone
<1> DEFINE MapEmpty == loop = "done" => Registered = {}
<1>1. Init => TrackInv /\ MapEmpty
  BY DEF Init, TrackInv, Accepted
<1>2. TypeOK /\ TypeOK' /\ LifeInv /\ TrackInv /\ [Next]_vars => TrackInv'
  BY TrackStep
<1>3. MapEmpty /\ [Next]_vars => MapEmpty'
  <2> SUFFICES ASSUME MapEmpty, [Next]_vars, loop' = "done" PROVE Registered' = {}
    OBVIOUS
  <2>1. CASE FailEnd
    BY <2>1 DEF FailEnd, Registered
  <2>2. CASE UNCHANGED <<loop, requests>>
    BY <2>2 DEF Registered
  <2>3. QED
    BY <2>1, <2>2
    DEF Next, LoopStep, ListenerStep, CallerStep, vars, connVars, TakeResponse, Deliver,
        Retire, Release, TakeRequest, WriteRequest, WriteError, TakeExit, SetDisconnected,
        CloseSocket, DrainOne, DrainEnd, FailOne, ListenerDecode, ListenerError,
        ListenerPush, Submit, Acquire, WaitForRoom, InflightTimeout, CallerClose,
        CheckConnected, Enqueue, StopWaiting, Close, Respond, PeerClose
<1>4. TrackInv /\ MapEmpty => CleanupMissesNone
  BY ConnAssumption
  DEF TrackInv, CleanupMissesNone, Accepted, Queued, In, InMap, Registered
<1>5. QED
  BY <1>1, <1>2, <1>3, <1>4, TypeCorrect, LifeInductive, PTL DEF Spec
-----------------------------------------------------------------------------
(***************************************************************************)
(* The responses on their way to the loop, in the order in which it will   *)
(* meet them: what it holds, incomingChan, what the listener holds, and    *)
(* the socket.                                                             *)
(***************************************************************************)
Held     == IF loop = "deliver" THEN <<cur>> ELSE <<>>
Listened == IF listener.at = "push" THEN <<listener.res>> ELSE <<>>
Pipe     == (Held \o incoming) \o (Listened \o toClient)

LEMMA PipeType ==
  ASSUME TypeOK
  PROVE  /\ Held \in Seq(Responses) /\ incoming \in Seq(Responses)
         /\ Listened \in Seq(Responses) /\ toClient \in Seq(Responses)
         /\ Held \o incoming \in Seq(Responses) /\ Listened \o toClient \in Seq(Responses)
         /\ Pipe \in Seq(Responses)
<1>1. /\ Held \in Seq(Responses) /\ Listened \in Seq(Responses)
      /\ incoming \in Seq(Responses) /\ toClient \in Seq(Responses)
  BY ChanType DEF TypeOK, LoopTypeOK, RoutineTypeOK, QueueTypeOK, Held, Listened
<1>2. Held \o incoming \in Seq(Responses) /\ Listened \o toClient \in Seq(Responses)
  BY <1>1, ConcatProperties
<1>3. QED
  BY <1>1, <1>2, ConcatProperties DEF Pipe

(* A response moves from one stage of the pipe to the next.                *)
LEMMA DecodeKeeps == ASSUME TypeOK, TypeOK', ListenerDecode PROVE Pipe' = Pipe
<1>1. /\ toClient \in Seq(Responses) /\ toClient # <<>>
      /\ Listened = <<>> /\ Listened' = <<Head(toClient)>> /\ toClient' = Tail(toClient)
      /\ Held' = Held /\ incoming' = incoming
  BY PipeType DEF ListenerDecode, Listened, Held, connVars
<1>2. Listened' \o toClient' = Listened \o toClient
  BY <1>1, HeadApart, ConcatEmptySeq
<1>3. QED
  BY <1>1, <1>2 DEF Pipe

LEMMA PushKeeps == ASSUME TypeOK, TypeOK', ListenerPush PROVE Pipe' = Pipe
<1>1. /\ Listened = <<listener.res>> /\ listener.res \in Responses
      /\ Listened' = <<>> /\ toClient' = toClient
      /\ Held' = Held /\ incoming' = Append(incoming, listener.res)
  BY DEF ListenerPush, Listened, Held, envVars, TypeOK, RoutineTypeOK
<1>2. PICK x \in Responses : x = listener.res
  BY <1>1
<1>3. /\ Held \in Seq(Responses) /\ incoming \in Seq(Responses) /\ toClient \in Seq(Responses)
      /\ <<x>> \in Seq(Responses)
  BY PipeType, <1>2
<1>4. incoming' = incoming \o <<x>>
  BY <1>1, <1>2, <1>3, AppendIsConcat
<1>5. Held \o (incoming \o <<x>>) = (Held \o incoming) \o <<x>>
  BY <1>3, ConcatAssociative
<1>6. Held \o incoming \in Seq(Responses)
  BY <1>3, ConcatProperties
<1>7. ((Held \o incoming) \o <<x>>) \o toClient = (Held \o incoming) \o (<<x>> \o toClient)
  BY <1>3, <1>6, ConcatAssociative
<1>8. Listened' \o toClient' = toClient
  BY <1>1, <1>3, ConcatEmptySeq
<1>9. QED
  BY <1>1, <1>2, <1>4, <1>5, <1>7, <1>8 DEF Pipe

(* The loop takes the first: to deliver it, or to drop it when the map has *)
(* no request for it.                                                      *)
LEMMA TakeMoves ==
  ASSUME TypeOK, TypeOK', TakeResponse
  PROVE  \/ Pipe' = Pipe
         \/ Pipe # <<>> /\ requests[Head(Pipe).txn] = NoReq /\ Pipe' = Tail(Pipe)
<1>1. PICK q \in Seq(Responses) : q = Listened \o toClient
  BY PipeType
<1>2. /\ incoming \in Seq(Responses) /\ incoming # <<>> /\ incoming' = Tail(incoming)
      /\ Held = <<>> /\ Listened' \o toClient' = q
  BY <1>1, PipeType DEF TakeResponse, Held, Listened, envVars
<1>3. Pipe = incoming \o q
  BY <1>1, <1>2, ConcatEmptySeq DEF Pipe
<1>4. CASE requests[Head(incoming).txn] = NoReq
  <2>1. Held' = <<>>
    BY <1>4 DEF TakeResponse, Held
  <2>2. Tail(incoming) \in Seq(Responses)
    BY <1>2, TakeIn
  <2>3. Pipe' = Tail(incoming) \o q
    BY <1>2, <2>1, <2>2, ConcatEmptySeq DEF Pipe
  <2>4. QED
    BY <1>2, <1>3, <1>4, <2>3, JoinTake
<1>5. CASE requests[Head(incoming).txn] # NoReq
  <2>1. Held' = <<Head(incoming)>>
    BY <1>5 DEF TakeResponse, Held
  <2>2. Held' \o incoming' = incoming
    BY <1>2, <2>1, HeadApart
  <2>3. QED
    BY <1>2, <1>3, <2>2 DEF Pipe
<1>6. QED
  BY <1>4, <1>5

LEMMA DeliverTakes ==
  ASSUME TypeOK, TypeOK', Deliver
  PROVE  Pipe # <<>> /\ Head(Pipe) = cur /\ Pipe' = Tail(Pipe)
<1>1. PICK q \in Seq(Responses) : q = Listened \o toClient
  BY PipeType
<1>2. /\ incoming \in Seq(Responses) /\ incoming' = incoming /\ cur \in Responses
      /\ Held = <<cur>> /\ Held' = <<>> /\ Listened' \o toClient' = q
  BY <1>1, PipeType DEF Deliver, Held, Listened, envVars, TypeOK, LoopTypeOK
<1>3. PICK x \in Responses : x = cur
  BY <1>2
<1>4. /\ <<x>> \in Seq(Responses) /\ <<x>> # <<>> /\ Head(<<x>>) = x /\ Tail(<<x>>) = <<>>
  OBVIOUS
<1>5. PICK h \in Seq(Responses) : h = <<x>> \o incoming
  BY <1>2, <1>4, ConcatProperties
<1>6. h # <<>> /\ Head(h) = x /\ Tail(h) = incoming
  BY <1>2, <1>4, <1>5, JoinTake, ConcatEmptySeq
<1>7. Pipe = h \o q /\ Pipe' = incoming \o q
  BY <1>1, <1>2, <1>3, <1>5, ConcatEmptySeq DEF Pipe
<1>8. QED
  BY <1>3, <1>6, <1>7, JoinTake

(* An error of the socket loses what it had not delivered.                 *)
LEMMA ErrorCuts ==
  ASSUME TypeOK, TypeOK', ListenerError
  PROVE  /\ Pipe' \in Seq(Responses) /\ Len(Pipe') <= Len(Pipe)
         /\ \A i \in 1..Len(Pipe') : Pipe'[i] = Pipe[i]
<1>1. PICK h \in Seq(Responses) : h = Held \o incoming
  BY PipeType
<1>2. PICK q \in Seq(Responses) : q = Listened \o toClient
  BY PipeType
<1>3. Held' \o incoming' = h /\ Listened' \o toClient' = <<>>
  BY <1>1, ConcatEmptySeq, PipeType DEF ListenerError, Held, Listened, connVars
<1>4. Pipe = h \o q /\ Pipe' = h
  BY <1>1, <1>2, <1>3, ConcatEmptySeq DEF Pipe
<1>5. /\ Len(h \o q) = Len(h) + Len(q) /\ Len(h) \in Nat /\ Len(q) \in Nat
      /\ \A i \in 1..Len(h) + Len(q) : (h \o q)[i] = IF i <= Len(h) THEN h[i] ELSE q[i - Len(h)]
  BY ConcatProperties, LenProperties
<1>6. QED
  BY <1>4, <1>5

LEMMA RespondPuts ==
  ASSUME TypeOK, TypeOK', NEW r \in Reqs, Respond(r)
  PROVE  \E e \in Responses : /\ e.of = r /\ e.txn = TxnOf[r] /\ e.n = sent[r] + 1
                              /\ Pipe' = Append(Pipe, e)
<1>1. /\ r \in served /\ sent[r] < MaxResp /\ sent[r] \in Nat
      /\ Held' = Held /\ incoming' = incoming /\ Listened' = Listened
      /\ \E s \in Statuses :
           toClient' = Append(toClient, [txn |-> TxnOf[r], of |-> r,
                                         n |-> sent[r] + 1, status |-> s])
  BY DEF Respond, Held, Listened, connVars, TypeOK, EnvTypeOK
<1>2. PICK s \in Statuses :
        toClient' = Append(toClient, [txn |-> TxnOf[r], of |-> r,
                                      n |-> sent[r] + 1, status |-> s])
  BY <1>1
<1>3. PICK e \in Responses : e = [txn |-> TxnOf[r], of |-> r, n |-> sent[r] + 1, status |-> s]
  <2>1. sent[r] + 1 \in 1..MaxResp /\ TxnOf[r] \in Txns
    BY <1>1, ConnAssumption
  <2>2. [txn |-> TxnOf[r], of |-> r, n |-> sent[r] + 1, status |-> s] \in Responses
    BY <1>2, <2>1 DEF Responses
  <2>3. QED
    BY <2>2
<1>4. PICK h \in Seq(Responses) : h = Held \o incoming
  BY PipeType
<1>5. /\ Listened \in Seq(Responses) /\ toClient \in Seq(Responses)
      /\ Listened \o toClient \in Seq(Responses)
  BY PipeType
<1>6. Pipe' = h \o (Listened \o Append(toClient, e))
  BY <1>1, <1>2, <1>3, <1>4 DEF Pipe
<1>7. Listened \o Append(toClient, e) = Append(Listened \o toClient, e)
  BY <1>5, JoinPut
<1>8. h \o Append(Listened \o toClient, e) = Append(h \o (Listened \o toClient), e)
  BY <1>5, JoinPut
<1>9. Pipe' = Append(Pipe, e)
  BY <1>4, <1>6, <1>7, <1>8 DEF Pipe
<1>10. QED
  BY <1>3, <1>9
-----------------------------------------------------------------------------
(* In a queue of responses those of r are in order and without a gap: they *)
(* are its responses from number k + 1 on.  A finite queue of them ends    *)
(* with number m.                                                          *)
Line(p, r, k) ==
  /\ \A i \in 1..Len(p) : p[i].of = r =>
       /\ p[i].n > k
       /\ p[i].n = k + 1 \/ \E j \in 1..(i - 1) : p[j].of = r /\ p[j].n = p[i].n - 1
  /\ \A i, j \in 1..Len(p) : p[i].of = r /\ p[j].of = r /\ p[i].n = p[j].n => i = j

EndsWith(p, r, k, m) == m = k \/ \E i \in 1..Len(p) : p[i].of = r /\ p[i].n = m

LEMMA NumberType == ASSUME NEW p \in Seq(Responses) PROVE \A i \in 1..Len(p) : p[i].n \in Nat
<1>1. \A e \in Responses : e.n \in 1..MaxResp
  BY DEF Responses
<1>2. \A i \in 1..Len(p) : p[i] \in Responses
  BY ElementOfSeq
<1>3. QED
  BY <1>1, <1>2, ConnAssumption

LEMMA LineTakesOther ==
  ASSUME NEW p \in Seq(Responses), p # <<>>, NEW r \in Reqs, NEW k \in Nat, NEW m \in Nat,
         Line(p, r, k), Head(p).of # r
  PROVE  Line(Tail(p), r, k) /\ (EndsWith(p, r, k, m) => EndsWith(Tail(p), r, k, m))
<1>1. PICK t \in Seq(Responses) : t = Tail(p) /\ Len(t) = Len(p) - 1
  BY HeadTailProperties
<1>2. /\ \A i \in 1..Len(t) : t[i] = p[i + 1]
      /\ Len(p) \in Nat \ {0} /\ p[1].of # r
  BY <1>1, HeadTailProperties, EmptySeq
<1>3. ASSUME NEW i \in 1..Len(t), t[i].of = r
      PROVE  /\ t[i].n > k
             /\ t[i].n = k + 1 \/ \E j \in 1..(i - 1) : t[j].of = r /\ t[j].n = t[i].n - 1
  <2>1. i + 1 \in 1..Len(p) /\ t[i] = p[i + 1]
    BY <1>1, <1>2
  <2>2. p[i + 1].n > k
    BY <1>3, <2>1 DEF Line
  <2>3. CASE \E j \in 1..i : p[j].of = r /\ p[j].n = p[i + 1].n - 1
    <3>1. PICK j \in 1..i : p[j].of = r /\ p[j].n = p[i + 1].n - 1
      BY <2>3
    <3>2. j # 1
      BY <1>2, <3>1
    <3>3. j - 1 \in 1..(i - 1) /\ t[j - 1] = p[j]
      BY <1>1, <1>2, <3>1, <3>2
    <3>4. QED
      BY <2>1, <2>2, <3>1, <3>3
  <2>4. p[i + 1].n = k + 1 \/ \E j \in 1..i : p[j].of = r /\ p[j].n = p[i + 1].n - 1
    <3>1. (i + 1) - 1 = i
      OBVIOUS
    <3>2. QED
      BY <1>3, <2>1, <3>1 DEF Line
  <2>5. QED
    BY <2>1, <2>2, <2>3, <2>4
<1>4. ASSUME NEW i \in 1..Len(t), NEW j \in 1..Len(t), t[i].of = r, t[j].of = r, t[i].n = t[j].n
      PROVE  i = j
  <2>1. i + 1 \in 1..Len(p) /\ j + 1 \in 1..Len(p) /\ t[i] = p[i + 1] /\ t[j] = p[j + 1]
    BY <1>1, <1>2
  <2>2. i + 1 = j + 1
    BY <1>4, <2>1 DEF Line
  <2>3. QED
    BY <2>2
<1>5. ASSUME EndsWith(p, r, k, m) PROVE EndsWith(t, r, k, m)
  <2>1. CASE m = k
    BY <2>1 DEF EndsWith
  <2>2. CASE m # k
    <3>1. PICK i \in 1..Len(p) : p[i].of = r /\ p[i].n = m
      BY <1>5, <2>2 DEF EndsWith
    <3>2. i - 1 \in 1..Len(t) /\ t[i - 1] = p[i]
      BY <1>1, <1>2, <3>1
    <3>3. QED
      BY <3>1, <3>2 DEF EndsWith
  <2>3. QED
    BY <2>1, <2>2
<1>6. QED
  BY <1>1, <1>3, <1>4, <1>5 DEF Line

LEMMA LineTakesOwn ==
  ASSUME NEW p \in Seq(Responses), p # <<>>, NEW r \in Reqs, NEW k \in Nat, NEW m \in Nat,
         Line(p, r, k), Head(p).of = r, Head(p).n <= m
  PROVE  /\ Head(p).n = k + 1
         /\ Line(Tail(p), r, k + 1)
         /\ EndsWith(p, r, k, m) => EndsWith(Tail(p), r, k + 1, m)
<1>1. PICK t \in Seq(Responses) : t = Tail(p) /\ Len(t) = Len(p) - 1
  BY HeadTailProperties
<1>2. /\ \A i \in 1..Len(t) : t[i] = p[i + 1]
      /\ Len(p) \in Nat \ {0} /\ p[1].of = r /\ Head(p) = p[1]
      /\ \A i \in 1..Len(p) : p[i].n \in Nat
  BY <1>1, HeadTailProperties, EmptySeq, NumberType
<1>3. p[1].n = k + 1
  <2>1. 1 \in 1..Len(p) /\ 1..(1 - 1) = {}
    BY <1>2
  <2>2. QED
    BY <1>2, <2>1 DEF Line
<1>4. ASSUME NEW i \in 1..Len(t), t[i].of = r
      PROVE  /\ t[i].n > k + 1
             /\ t[i].n = (k + 1) + 1 \/ \E j \in 1..(i - 1) : t[j].of = r /\ t[j].n = t[i].n - 1
  <2>1. i + 1 \in 1..Len(p) /\ 1 \in 1..Len(p) /\ t[i] = p[i + 1] /\ i + 1 # 1
    BY <1>1, <1>2
  <2>2. p[i + 1].n > k /\ p[i + 1].n # p[1].n
    BY <1>2, <1>4, <2>1 DEF Line
  <2>3. p[i + 1].n > k + 1
    BY <1>2, <1>3, <2>1, <2>2
  <2>4. PICK j \in 1..i : p[j].of = r /\ p[j].n = p[i + 1].n - 1
    <3>1. (i + 1) - 1 = i
      OBVIOUS
    <3>2. QED
      BY <1>2, <1>3, <1>4, <2>1, <2>2, <3>1 DEF Line
  <2>5. CASE j = 1
    BY <1>2, <1>3, <2>1, <2>3, <2>4, <2>5
  <2>6. CASE j # 1
    <3>1. j - 1 \in 1..(i - 1) /\ t[j - 1] = p[j]
      BY <1>1, <1>2, <2>4, <2>6
    <3>2. QED
      BY <2>1, <2>3, <2>4, <3>1
  <2>7. QED
    BY <2>5, <2>6
<1>5. ASSUME NEW i \in 1..Len(t), NEW j \in 1..Len(t), t[i].of = r, t[j].of = r, t[i].n = t[j].n
      PROVE  i = j
  <2>1. i + 1 \in 1..Len(p) /\ j + 1 \in 1..Len(p) /\ t[i] = p[i + 1] /\ t[j] = p[j + 1]
    BY <1>1, <1>2
  <2>2. i + 1 = j + 1
    BY <1>5, <2>1 DEF Line
  <2>3. QED
    BY <2>2
<1>6. ASSUME EndsWith(p, r, k, m) PROVE EndsWith(t, r, k + 1, m)
  <2>1. m # k
    BY <1>2, <1>3
  <2>2. PICK i \in 1..Len(p) : p[i].of = r /\ p[i].n = m
    BY <1>6, <2>1 DEF EndsWith
  <2>3. CASE i = 1
    BY <1>3, <2>2, <2>3 DEF EndsWith
  <2>4. CASE i # 1
    <3>1. i - 1 \in 1..Len(t) /\ t[i - 1] = p[i]
      BY <1>1, <1>2, <2>4
    <3>2. QED
      BY <2>2, <3>1 DEF EndsWith
  <2>5. QED
    BY <2>3, <2>4
<1>7. QED
  BY <1>1, <1>2, <1>3, <1>4, <1>5, <1>6 DEF Line

LEMMA LinePuts ==
  ASSUME NEW p \in Seq(Responses), NEW e \in Responses, NEW r \in Reqs,
         NEW k \in Nat, NEW m \in Nat, Line(p, r, k),
         e.of = r => EndsWith(p, r, k, m) /\ e.n = m + 1,
         \A i \in 1..Len(p) : p[i].of = r => p[i].n <= m
  PROVE  /\ Line(Append(p, e), r, k)
         /\ e.of = r => EndsWith(Append(p, e), r, k, m + 1)
         /\ EndsWith(p, r, k, m) => EndsWith(Append(p, e), r, k, m)
<1>1. PICK t \in Seq(Responses) : t = Append(p, e)
  BY AppendProperties
<1>2. /\ Len(t) = Len(p) + 1 /\ Len(p) \in Nat /\ t[Len(p) + 1] = e
      /\ \A i \in 1..Len(p) : t[i] = p[i]
  BY <1>1, AppendProperties, LenProperties
<1>3. \A i \in 1..Len(t) : i \in 1..Len(p) \/ (i = Len(p) + 1 /\ t[i] = e)
  BY <1>2
<1>4. \A i \in 1..Len(p) : i \in 1..Len(t) /\ p[i].n \in Nat
  BY <1>2, NumberType
<1>5. EndsWith(p, r, k, m) => EndsWith(t, r, k, m)
  BY <1>2, <1>4 DEF EndsWith
<1>6. e.of = r => EndsWith(t, r, k, m + 1)
  BY <1>2 DEF EndsWith
<1>7. ASSUME NEW i \in 1..Len(p), t[i].of = r
      PROVE  /\ t[i].n > k
             /\ t[i].n = k + 1 \/ \E j \in 1..(i - 1) : t[j].of = r /\ t[j].n = t[i].n - 1
  <2>1. p[i].n > k /\ (p[i].n = k + 1 \/ \E j \in 1..(i - 1) : p[j].of = r /\ p[j].n = p[i].n - 1)
    BY <1>2, <1>7 DEF Line
  <2>2. \A j \in 1..(i - 1) : j \in 1..Len(p) /\ t[j] = p[j]
    BY <1>2
  <2>3. QED
    BY <1>2, <2>1, <2>2
<1>8. ASSUME e.of = r
      PROVE  e.n > k /\ (e.n = k + 1 \/ \E j \in 1..Len(p) : t[j].of = r /\ t[j].n = e.n - 1)
  <2>1. CASE m = k
    BY <1>8, <2>1
  <2>2. CASE m # k
    <3>1. PICK i \in 1..Len(p) : p[i].of = r /\ p[i].n = m
      BY <1>8, <2>2 DEF EndsWith
    <3>2. m > k
      BY <3>1 DEF Line
    <3>3. t[i].of = r /\ t[i].n = e.n - 1
      BY <1>2, <1>8, <3>1
    <3>4. e.n > k
      BY <1>8, <3>2
    <3>5. QED
      BY <3>3, <3>4
  <2>3. QED
    BY <2>1, <2>2
<1>9. ASSUME NEW i \in 1..Len(t), t[i].of = r
      PROVE  /\ t[i].n > k
             /\ t[i].n = k + 1 \/ \E j \in 1..(i - 1) : t[j].of = r /\ t[j].n = t[i].n - 1
  <2>1. CASE i \in 1..Len(p)
    BY <1>7, <1>9, <2>1
  <2>2. CASE i = Len(p) + 1 /\ t[i] = e
    <3>1. i - 1 = Len(p)
      BY <1>2, <2>2
    <3>2. QED
      BY <1>8, <1>9, <2>2, <3>1
  <2>3. QED
    BY <1>3, <2>1, <2>2
<1>10. ASSUME NEW i \in 1..Len(t), NEW j \in 1..Len(t), t[i].of = r, t[j].of = r, t[i].n = t[j].n
       PROVE  i = j
  <2>1. CASE i \in 1..Len(p) /\ j \in 1..Len(p)
    BY <1>2, <1>10, <2>1 DEF Line
  <2>2. ASSUME NEW q \in 1..Len(p), t[q].of = r, e.of = r PROVE t[q].n # e.n
    BY <1>2, <1>4, <2>2
  <2>3. QED
    BY <1>2, <1>3, <1>10, <2>1, <2>2
<1>11. QED
  BY <1>1, <1>5, <1>6, <1>9, <1>10 DEF Line

LEMMA LineCut ==
  ASSUME NEW p \in Seq(Responses), NEW q \in Seq(Responses), NEW r \in Reqs, NEW k \in Nat,
         Line(p, r, k), Len(q) <= Len(p), \A i \in 1..Len(q) : q[i] = p[i]
  PROVE  Line(q, r, k)
<1>1. Len(p) \in Nat /\ Len(q) \in Nat
  BY LenProperties
<1>2. \A i \in 1..Len(q) : i \in 1..Len(p) /\ \A j \in 1..(i - 1) : q[j] = p[j]
  BY <1>1
<1>3. QED
  BY <1>2 DEF Line
-----------------------------------------------------------------------------
(***************************************************************************)
(* The pipe carries answers to requests that were written, and, for a      *)
(* request that may still be given a response, exactly those that it has   *)
(* not been given, in order; as long as the server can answer, they end    *)
(* with the last one that it sent.                                         *)
(***************************************************************************)
Streaming == sock \in {"up", "torn"}
Live(r)   == InMap(r) /\ ~Retiring(r)

ServedInv ==
  /\ \A r \in served : Accepted(r) /\ ~Queued(r)
  /\ \A r \in Reqs : sent[r] > 0 => r \in served
  /\ \A r \in Reqs : r \notin served => got[r] = <<>>

PipedInv ==
  \A x \in Responses : In(Pipe, x) =>
    x.of \in served /\ x.txn = TxnOf[x.of] /\ x.n <= sent[x.of]

Continues(r) ==
  /\ Line(Pipe, r, Len(got[r]))
  /\ Streaming => EndsWith(Pipe, r, Len(got[r]), sent[r])

PipeInv ==
  /\ ServedInv /\ PipedInv /\ GotOwnInOrder
  /\ \A r \in Reqs : Live(r) => Continues(r)

Flows == Pipe' = Pipe /\ UNCHANGED <<sent, served>> /\ (Streaming' => Streaming)

LEMMA FlowStep ==
  ASSUME TypeOK, TypeOK', [Next]_vars
  PROVE  \/ Flows
         \/ Deliver \/ TakeResponse \/ WriteRequest \/ ListenerError
         \/ \E r \in Reqs : Respond(r)
<1>1. ASSUME UNCHANGED <<incoming, toClient, sent, served>>, Held' = Held,
             Listened' = Listened, Streaming' => Streaming
      PROVE  Flows
  BY <1>1 DEF Flows, Pipe
<1>2. ASSUME UNCHANGED <<loop, cur>> PROVE Held' = Held
  BY <1>2 DEF Held
<1>3. ASSUME UNCHANGED listener PROVE Listened' = Listened
  BY <1>3 DEF Listened
<1>4. ASSUME UNCHANGED sock PROVE Streaming' => Streaming
  BY <1>4 DEF Streaming
<1>5. CASE ListenerDecode
  BY <1>4, <1>5, DecodeKeeps DEF ListenerDecode, Flows
<1>6. CASE ListenerPush
  BY <1>4, <1>6, PushKeeps DEF ListenerPush, Flows, envVars
<1>7. ASSUME NEW r \in Reqs, Submit(r) \/ CallerStep(r) PROVE Flows
  <2>1. UNCHANGED <<incoming, toClient, sent, served, sock, loop, cur, listener>>
    BY <1>7 DEF CallerStep, Submit, Acquire, WaitForRoom, InflightTimeout, CallerClose,
                CheckConnected, Enqueue, StopWaiting, connVars, envVars
  <2>2. QED
    BY <1>1, <1>2, <1>3, <1>4, <2>1
<1>8. CASE (\E c \in Closers : Close(c)) \/ PeerClose \/ UNCHANGED vars
  <2>1. /\ UNCHANGED <<incoming, toClient, sent, served, loop, cur, listener>>
        /\ Streaming' => Streaming
    BY <1>8 DEF Close, PeerClose, vars, connVars, envVars, Streaming
  <2>2. QED
    BY <1>1, <1>2, <1>3, <2>1
<1>9. CASE \/ Retire \/ Release \/ TakeRequest \/ WriteError \/ SetDisconnected
           \/ CloseSocket \/ DrainOne \/ DrainEnd \/ FailEnd \/ \E t \in Txns : FailOne(t)
  <2>1. /\ UNCHANGED <<incoming, toClient, sent, served, listener>>
        /\ loop # "deliver" /\ loop' # "deliver"
    BY <1>9 DEF Retire, Release, TakeRequest, WriteError, SetDisconnected, CloseSocket,
                DrainOne, DrainEnd, FailEnd, FailOne, envVars
  <2>2. Held' = Held
    BY <2>1 DEF Held
  <2>3. Streaming' => Streaming
    BY <1>9 DEF Retire, Release, TakeRequest, WriteError, SetDisconnected, CloseSocket,
                DrainOne, DrainEnd, FailEnd, FailOne, envVars, Streaming
  <2>4. QED
    BY <1>1, <1>3, <2>1, <2>2, <2>3
<1>10. CASE TakeExit
  <2>1. UNCHANGED <<incoming, toClient, sent, served, sock, cur>>
        /\ loop # "deliver" /\ loop' # "deliver"
    BY <1>10 DEF TakeExit, envVars
  <2>2. Listened' = Listened /\ Held' = Held
    BY <1>10, <2>1 DEF TakeExit, Listened, Held
  <2>3. QED
    BY <1>1, <1>4, <2>1, <2>2
<1>11. QED
  BY <1>5, <1>6, <1>7, <1>8, <1>9, <1>10 DEF Next, LoopStep, ListenerStep

(* Most steps neither register a request nor give it anything.             *)
Calm ==
  /\ UNCHANGED got
  /\ \A r \in Reqs : Live(r)' => Live(r)
  /\ \A r \in served : Accepted(r) /\ ~Queued(r) => Accepted(r)' /\ ~Queued(r)'

LEMMA QuietIsCalm == TypeOK /\ Quiet => Calm
  BY DEF Quiet, Calm, Live, InMap, Retiring, Queued, TypeOK, EnvTypeOK

LEMMA CalmStep ==
  ASSUME TypeOK, TypeOK', LifeInv, ServedInv, [Next]_vars
  PROVE  Calm \/ TakeRequest \/ Deliver
<1>1. CASE Quiet
  BY <1>1, QuietIsCalm
<1>2. ASSUME NEW r \in Reqs, Enqueue(r) PROVE Calm
  BY <1>2, EnqueueFacts DEF Calm, Live, InMap, Retiring, ServedInv, TypeOK, EnvTypeOK
<1>3. CASE Retire
  <2>1. /\ loop = "retire" /\ loop' = "release"
        /\ requests' = [requests EXCEPT ![cur.txn] = NoReq]
        /\ UNCHANGED <<outgoing, caller, got>>
    BY <1>3 DEF Retire, histVars
  <2>2. \A r \in Reqs : InMap(r)' => InMap(r) /\ TxnOf[r] # cur.txn
    BY <2>1, ConnAssumption DEF InMap, TypeOK, LoopTypeOK, Registered
  <2>3. QED
    BY <2>1, <2>2 DEF Calm, Live, Retiring, Accepted, Queued, TypeOK, EnvTypeOK
<1>4. CASE DrainOne
  BY <1>4, DrainFacts DEF Calm, Live, InMap, Retiring, Accepted, TypeOK, EnvTypeOK
<1>5. ASSUME NEW t \in Txns, FailOne(t) PROVE Calm
  <2>1. /\ requests' = [requests EXCEPT ![t] = NoReq]
        /\ UNCHANGED <<outgoing, caller, got, loop, cur>>
    BY <1>5 DEF FailOne
  <2>2. \A r \in Reqs : InMap(r)' => InMap(r)
    BY <2>1, ConnAssumption DEF InMap, TypeOK, LoopTypeOK
  <2>3. QED
    BY <2>1, <2>2 DEF Calm, Live, Retiring, Accepted, Queued, TypeOK, EnvTypeOK
<1>6. QED
  BY <1>1, <1>2, <1>3, <1>4, <1>5, StepKinds DEF Eventful

LEMMA ServesQuietly ==
  ASSUME TakeResponse \/ WriteRequest \/ ListenerError \/ \E r \in Reqs : Respond(r)
  PROVE  Quiet
<1>1. /\ UNCHANGED <<outgoing, requests, got, outcome, caller>>
      /\ loop' = "retire" <=> loop = "retire"
      /\ loop = "retire" => cur' = cur
  BY DEF TakeResponse, WriteRequest, ListenerError, Respond, connVars, histVars
<1>2. QED
  BY <1>1 DEF Quiet, Accepted

(* The four parts of PipeInv, for the steps that change what they speak of.*)
LEMMA CalmServed ==
  ASSUME TypeOK, ServedInv, Calm, UNCHANGED <<served, sent>>
  PROVE  ServedInv'
  BY DEF ServedInv, Calm

LEMMA WhenFlowing ==
  ASSUME TypeOK, PipeInv, Calm, Flows
  PROVE  PipeInv'
<1>1. ServedInv'
  BY CalmServed DEF PipeInv, Flows
<1>2. PipedInv'
  BY DEF PipeInv, PipedInv, Flows
<1>3. GotOwnInOrder'
  BY DEF PipeInv, GotOwnInOrder, Calm
<1>4. \A r \in Reqs : Live(r)' => Continues(r)'
  BY DEF PipeInv, Continues, Calm, Flows
<1>5. QED
  BY <1>1, <1>2, <1>3, <1>4 DEF PipeInv

(* What a request has been given so far is a queue.                        *)
LEMMA GotType == TypeOK => \A r \in Reqs : Len(got[r]) \in Nat /\ sent[r] \in Nat
  BY LenProperties, ConnAssumption DEF TypeOK, HistTypeOK, EnvTypeOK

LEMMA WhenRegistered ==
  ASSUME TypeOK, TypeOK', LifeInv, PipeInv, TakeRequest, Flows
  PROVE  PipeInv'
<1>1. PICK h \in Reqs : h = Head(outgoing)
  BY TakeRequestFacts
<1>2. /\ Queued(h) /\ \A q \in Reqs : Queued(q)' <=> Queued(q) /\ q # h
      /\ requests' = [requests EXCEPT ![TxnOf[h]] = h]
      /\ loop = "select" /\ loop' = "write" /\ UNCHANGED <<caller, got>>
  BY <1>1, TakeRequestFacts
<1>3. ServedInv'
  BY <1>2 DEF PipeInv, ServedInv, Flows, Accepted, TypeOK, EnvTypeOK
<1>4. PipedInv' /\ GotOwnInOrder'
  BY <1>2 DEF PipeInv, PipedInv, Flows, GotOwnInOrder
<1>5. ASSUME NEW r \in Reqs, Live(r)', r # h PROVE Continues(r)'
  <2>1. TxnOf[r] \in Txns /\ TxnOf[h] \in Txns
    BY ConnAssumption
  <2>2. Live(r)
    BY <1>2, <1>5, <2>1 DEF Live, InMap, Retiring, TypeOK, LoopTypeOK
  <2>3. QED
    BY <1>2, <2>2 DEF PipeInv, Continues, Flows
<1>6. Continues(h)'
  <2>0. Len(<<>>) = 0
    OBVIOUS
  <2>1. h \notin served /\ sent[h] = 0 /\ got[h] = <<>> /\ Len(got[h]) = 0
    BY <1>2, <2>0, GotType DEF PipeInv, ServedInv
  <2>2. \A i \in 1..Len(Pipe) : Pipe[i].of # h
    BY <2>1, PipeType, ElementOfSeq DEF PipeInv, PipedInv, In
  <2>3. QED
    BY <1>2, <2>1, <2>2 DEF Continues, Line, EndsWith, Flows
<1>7. QED
  BY <1>3, <1>4, <1>5, <1>6 DEF PipeInv

LEMMA WhenWritten ==
  ASSUME TypeOK, TypeOK', LifeInv, PipeInv, WriteRequest
  PROVE  PipeInv'
<1>1. Calm
  BY ServesQuietly, QuietIsCalm
<1>2. PICK r \in Reqs : r = requests[cur.txn] /\ InMap(r) /\ Accepted(r) /\ ~Queued(r)
  <2>1. cur.txn \in Txns /\ requests[cur.txn] \in Reqs
    BY DEF WriteRequest, TypeOK, LoopTypeOK, Registered
  <2>2. InMap(requests[cur.txn]) /\ Accepted(requests[cur.txn])
    BY <2>1, ConnAssumption DEF LifeInv, MapInv, InMap
  <2>3. ~Queued(requests[cur.txn])
    BY <2>1, <2>2 DEF LifeInv, QueueInv
  <2>4. QED
    BY <2>1, <2>2, <2>3
<1>3. /\ served' = served \/ served' = served \cup {r}
      /\ UNCHANGED <<sent, got, caller, outgoing, sock, Listened, incoming, toClient>>
      /\ Held' = Held
  BY <1>2 DEF WriteRequest, histVars, Held, Listened
<1>4. Pipe' = Pipe
  BY <1>3 DEF Pipe
<1>5. ServedInv'
  BY <1>2, <1>3 DEF PipeInv, ServedInv, Accepted, Queued
<1>6. PipedInv' /\ GotOwnInOrder'
  BY <1>3, <1>4 DEF PipeInv, PipedInv, GotOwnInOrder
<1>7. \A q \in Reqs : Live(q)' => Continues(q)'
  BY <1>1, <1>3, <1>4 DEF PipeInv, Continues, Calm, Streaming
<1>8. QED
  BY <1>5, <1>6, <1>7 DEF PipeInv

LEMMA WhenCut ==
  ASSUME TypeOK, TypeOK', PipeInv, ListenerError
  PROVE  PipeInv'
<1>1. Calm /\ UNCHANGED <<served, sent, got>> /\ ~Streaming'
  BY ServesQuietly, QuietIsCalm DEF ListenerError, Streaming, histVars
<1>2. Len(Pipe') <= Len(Pipe) /\ \A i \in 1..Len(Pipe') : Pipe'[i] = Pipe[i]
  BY ErrorCuts
<1>3. PICK p, q \in Seq(Responses) : p = Pipe /\ q = Pipe'
  BY PipeType, ErrorCuts
<1>4. ServedInv' /\ GotOwnInOrder'
  BY <1>1, CalmServed DEF PipeInv, GotOwnInOrder
<1>5. \A x : In(q, x) => In(p, x)
  <2>1. Len(p) \in Nat /\ Len(q) \in Nat
    BY LenProperties
  <2>2. QED
    BY <1>2, <1>3, <2>1 DEF In
<1>6. PipedInv'
  BY <1>1, <1>3, <1>5 DEF PipeInv, PipedInv
<1>7. ASSUME NEW r \in Reqs, Live(r)' PROVE Continues(r)'
  <2>1. Line(p, r, Len(got[r])) /\ Len(got[r]) \in Nat
    BY <1>1, <1>3, <1>7, GotType DEF PipeInv, Continues, Calm
  <2>2. Line(q, r, Len(got[r]))
    BY <1>2, <1>3, <2>1, LineCut
  <2>3. QED
    BY <1>1, <1>3, <2>2 DEF Continues
<1>8. QED
  BY <1>4, <1>6, <1>7 DEF PipeInv

LEMMA WhenSent ==
  ASSUME TypeOK, TypeOK', PipeInv, NEW r \in Reqs, Respond(r)
  PROVE  PipeInv'
<1>1. /\ Calm /\ UNCHANGED <<served, got, sock>> /\ r \in served
      /\ sent' = [sent EXCEPT ![r] = @ + 1] /\ Streaming
  BY ServesQuietly, QuietIsCalm DEF Respond, Streaming, histVars
<1>2. PICK e \in Responses : /\ e.of = r /\ e.txn = TxnOf[r] /\ e.n = sent[r] + 1
                             /\ Pipe' = Append(Pipe, e)
  BY RespondPuts
<1>3. PICK p \in Seq(Responses) : p = Pipe
  BY PipeType
<1>4. /\ \A s \in Reqs : sent'[s] = IF s = r THEN sent[r] + 1 ELSE sent[s]
      /\ \A s \in Reqs : sent[s] \in Nat /\ Len(got[s]) \in Nat
  BY <1>1, GotType DEF TypeOK, EnvTypeOK
<1>5. ServedInv'
  BY <1>1, <1>4 DEF PipeInv, ServedInv, Calm
<1>6. PipedInv'
  <2>1. \A x : In(Append(p, e), x) <=> x = e \/ In(p, x)
    BY PutIn
  <2>2. \A x \in Responses : x.of \in Reqs /\ x.n \in Nat
    BY ConnAssumption DEF Responses
  <2>3. QED
    BY <1>1, <1>2, <1>3, <1>4, <2>1, <2>2 DEF PipeInv, PipedInv
<1>7. ASSUME NEW s \in Reqs, Live(s)' PROVE Continues(s)'
  <2>1. PICK k, m \in Nat : k = Len(got[s]) /\ m = sent[s]
    BY <1>4
  <2>2. Line(p, s, k) /\ EndsWith(p, s, k, m)
    BY <1>1, <1>3, <1>7, <2>1 DEF PipeInv, Continues, Calm
  <2>3. \A i \in 1..Len(p) : p[i].of = s => p[i].n <= m
    BY <1>3, <2>1, ElementOfSeq DEF PipeInv, PipedInv, In
  <2>4. e.of = s => e.n = m + 1
    BY <1>2, <2>1
  <2>5. /\ Line(Append(p, e), s, k)
        /\ e.of = s => EndsWith(Append(p, e), s, k, m + 1)
        /\ EndsWith(Append(p, e), s, k, m)
    BY <2>2, <2>3, <2>4, LinePuts
  <2>6. EndsWith(Append(p, e), s, k, sent'[s])
    BY <1>2, <1>4, <2>1, <2>5
  <2>7. QED
    BY <1>1, <1>2, <1>3, <2>1, <2>5, <2>6 DEF Continues
<1>8. QED
  BY <1>1, <1>5, <1>6, <1>7 DEF PipeInv, GotOwnInOrder

LEMMA WhenTaken ==
  ASSUME UniqueTxns, TypeOK, TypeOK', PipeInv, TakeResponse
  PROVE  PipeInv'
<1>1. /\ Calm /\ UNCHANGED <<served, sent, got, sock, requests>>
  BY ServesQuietly, QuietIsCalm DEF TakeResponse, envVars, histVars
<1>2. CASE Pipe' = Pipe
  BY <1>1, <1>2, WhenFlowing DEF Flows, Streaming
<1>3. CASE Pipe # <<>> /\ requests[Head(Pipe).txn] = NoReq /\ Pipe' = Tail(Pipe)
  <2>1. PICK p \in Seq(Responses) : p = Pipe
    BY PipeType
  <2>2. /\ Head(p) \in Responses /\ In(p, Head(p))
        /\ \A x : In(p, x) <=> x = Head(p) \/ In(Tail(p), x)
    BY <1>3, <2>1, TakeIn
  <2>3. Head(p).txn = TxnOf[Head(p).of]
    BY <2>1, <2>2 DEF PipeInv, PipedInv
  <2>4. ServedInv' /\ GotOwnInOrder'
    BY <1>1, CalmServed DEF PipeInv, GotOwnInOrder
  <2>5. PipedInv'
    BY <1>1, <1>3, <2>1, <2>2 DEF PipeInv, PipedInv
  <2>6. ASSUME NEW r \in Reqs, Live(r)' PROVE Continues(r)'
    <3>1. Live(r)
      BY <1>1, <2>6 DEF Calm
    <3>2. Head(p).of # r
      BY <1>3, <2>1, <2>3, <3>1, ConnAssumption DEF Live, InMap
    <3>3. PICK k, m \in Nat : k = Len(got[r]) /\ m = sent[r]
      BY GotType
    <3>4. Line(p, r, k) /\ (Streaming => EndsWith(p, r, k, m))
      BY <2>1, <3>1, <3>3 DEF PipeInv, Continues
    <3>5. Line(Tail(p), r, k) /\ (EndsWith(p, r, k, m) => EndsWith(Tail(p), r, k, m))
      BY <1>3, <2>1, <3>2, <3>4, LineTakesOther
    <3>6. QED
      BY <1>1, <1>3, <2>1, <3>3, <3>4, <3>5 DEF Continues, Streaming
  <2>7. QED
    BY <2>4, <2>5, <2>6 DEF PipeInv
<1>4. QED
  BY <1>2, <1>3, TakeMoves

LEMMA WhenDelivered ==
  ASSUME UniqueTxns, TypeOK, TypeOK', LifeInv, PipeInv, Deliver
  PROVE  PipeInv'
<1>1. PICK p \in Seq(Responses) : p = Pipe /\ p # <<>> /\ Head(p) = cur /\ Pipe' = Tail(p)
  BY PipeType, DeliverTakes
<1>2. PICK x \in Responses : x = cur
  BY DeliverFacts
<1>3. /\ In(p, x) /\ x.of \in Reqs /\ \A y : In(p, y) <=> y = x \/ In(Tail(p), y)
  BY <1>1, <1>2, TakeIn DEF Responses
<1>4. x.of \in served /\ x.txn = TxnOf[x.of] /\ x.n <= sent[x.of]
  BY <1>1, <1>3 DEF PipeInv, PipedInv
<1>5. requests[cur.txn] = x.of /\ InMap(x.of)
  BY <1>2, <1>3, <1>4, DeliverFacts DEF UniqueTxns, InMap
<1>6. PICK r \in Reqs : r = x.of
  BY <1>3
<1>7. /\ UNCHANGED <<served, sent, sock, requests, outgoing>> /\ loop = "deliver"
      /\ got' = [got EXCEPT ![r] = Append(@, [of |-> x.of, n |-> x.n])]
      /\ \A q \in Reqs : Accepted(q)' <=> Accepted(q)
      /\ Live(r)
  BY <1>2, <1>5, <1>6, DeliverFacts DEF Deliver, envVars, Live, Retiring
<1>8. PICK k, m \in Nat : k = Len(got[r]) /\ m = sent[r]
  BY GotType
<1>9. Line(p, r, k) /\ (Streaming => EndsWith(p, r, k, m))
  BY <1>1, <1>6, <1>7, <1>8 DEF PipeInv, Continues
<1>10. /\ x.n = k + 1 /\ Line(Tail(p), r, k + 1)
       /\ EndsWith(p, r, k, m) => EndsWith(Tail(p), r, k + 1, m)
  BY <1>1, <1>2, <1>4, <1>6, <1>8, <1>9, LineTakesOwn
<1>11. PICK g, e : g = got[r] /\ e = [of |-> r, n |-> k + 1]
  OBVIOUS
<1>12. /\ got'[r] = Append(g, e) /\ \A q \in Reqs : q # r => got'[q] = got[q]
       /\ g \in Seq([of : Reqs, n : 1..MaxResp]) /\ e \in [of : Reqs, n : 1..MaxResp]
  <2>1. x.n \in 1..MaxResp
    BY DEF Responses
  <2>2. QED
    BY <1>6, <1>7, <1>10, <1>11, <2>1 DEF TypeOK, HistTypeOK
<1>13. /\ Len(got'[r]) = k + 1 /\ got'[r][k + 1] = e
       /\ \A i \in 1..k : got'[r][i] = got[r][i]
  BY <1>8, <1>11, <1>12, AppendProperties
<1>14. ServedInv'
  <2>1. \A q \in served : Accepted(q)' /\ ~Queued(q)'
    BY <1>7 DEF PipeInv, ServedInv, Queued, TypeOK, EnvTypeOK
  <2>2. \A q \in Reqs : q \notin served => got'[q] = <<>>
    BY <1>4, <1>6, <1>12 DEF PipeInv, ServedInv
  <2>3. QED
    BY <1>7, <2>1, <2>2 DEF PipeInv, ServedInv
<1>15. PipedInv'
  BY <1>1, <1>3, <1>7 DEF PipeInv, PipedInv
<1>16. GotOwnInOrder'
  <2> SUFFICES ASSUME NEW q \in Reqs, NEW i \in 1..Len(got'[q])
               PROVE  got'[q][i] = [of |-> q, n |-> i]
    BY DEF GotOwnInOrder
  <2>1. CASE q # r
    BY SMTT(30), <1>12, <2>1 DEF PipeInv, GotOwnInOrder
  <2>2. CASE q = r /\ i = k + 1
    BY <1>11, <1>13, <2>2
  <2>3. CASE q = r /\ i # k + 1
    <3>1. i \in 1..k
      BY <1>13, <2>3
    <3>2. QED
      BY <1>8, <1>13, <2>3, <3>1 DEF PipeInv, GotOwnInOrder
  <2>4. QED
    BY <2>1, <2>2, <2>3
<1>17. ASSUME NEW q \in Reqs, Live(q)' PROVE Continues(q)'
  <2>1. CASE q = r
    BY <1>1, <1>7, <1>8, <1>9, <1>10, <1>13, <2>1 DEF Continues, Streaming
  <2>2. CASE q # r
    <3>1. Live(q)
      BY <1>7, <1>17 DEF Live, InMap, Retiring
    <3>2. PICK l, n \in Nat : l = Len(got[q]) /\ n = sent[q]
      BY GotType
    <3>3. Line(p, q, l) /\ (Streaming => EndsWith(p, q, l, n))
      BY <1>1, <3>1, <3>2 DEF PipeInv, Continues
    <3>4. Line(Tail(p), q, l) /\ (EndsWith(p, q, l, n) => EndsWith(Tail(p), q, l, n))
      BY <1>1, <1>2, <1>6, <2>2, <3>3, LineTakesOther
    <3>5. QED
      BY <1>1, <1>7, <1>12, <2>2, <3>2, <3>3, <3>4 DEF Continues, Streaming
  <2>3. QED
    BY <2>1, <2>2
<1>18. QED
  BY <1>14, <1>15, <1>16, <1>17 DEF PipeInv

LEMMA PipeStep ==
  ASSUME UniqueTxns
  PROVE  TypeOK /\ TypeOK' /\ LifeInv /\ PipeInv /\ [Next]_vars => PipeInv'
<1> SUFFICES ASSUME TypeOK, TypeOK', LifeInv, PipeInv, [Next]_vars PROVE PipeInv'
  OBVIOUS
<1>1. ServedInv
  BY DEF PipeInv
<1>2. CASE Flows
  BY <1>1, <1>2, CalmStep, WhenFlowing, WhenRegistered, WhenDelivered
<1>3. QED
  BY <1>2, FlowStep, WhenDelivered, WhenTaken, WhenWritten, WhenCut, WhenSent

(* A request is given its own responses, in the order in which the server  *)
(* sent them and without a gap, through three queues and two goroutines    *)
(* (GotOwnInOrder).                                                        *)
THEOREM OrderCorrect == ASSUME UniqueTxns PROVE Spec => []GotOwnInOrder
<1>1. Init => PipeInv
  <2> SUFFICES ASSUME Init PROVE PipeInv
    OBVIOUS
  <2>1. Held = <<>> /\ Listened = <<>> /\ incoming = <<>> /\ toClient = <<>>
    BY DEF Init, Held, Listened
  <2>2. Pipe = <<>>
    BY <2>1, ConcatEmptySeq DEF Pipe
  <2>3. Len(Pipe) = 0 /\ \A x : ~In(Pipe, x)
    BY <2>2 DEF In
  <2>4. ServedInv /\ PipedInv
    BY <2>3, ConnAssumption DEF Init, ServedInv, PipedInv
  <2>5. GotOwnInOrder
    BY DEF Init, GotOwnInOrder
  <2>6. \A r \in Reqs : ~Live(r)
    BY ConnAssumption DEF Init, Live, InMap
  <2>7. QED
    BY <2>4, <2>5, <2>6 DEF PipeInv
<1>2. TypeOK /\ TypeOK' /\ LifeInv /\ PipeInv /\ [Next]_vars => PipeInv'
  BY PipeStep
<1>3. PipeInv => GotOwnInOrder
  BY DEF PipeInv
<1>4. QED
  BY <1>1, <1>2, <1>3, TypeCorrect, LifeInductive, PTL DEF Spec
=============================================================================
