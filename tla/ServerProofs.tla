---------------------------- MODULE ServerProofs ----------------------------
(***************************************************************************)
(* The server's end of a connection, and the calls of its JSON listener,   *)
(* for every value of the constants.  Of ServerConn: the types, the        *)
(* exclusive use of the lock, the wholeness of the responses on the        *)
(* stream, and that it implements ServerContract.  Of WebApi: each call is *)
(* given the responses that its own handler wrote, in order and unchanged, *)
(* and ends when its handler has completed it; and its handler is given    *)
(* the params that the application put into the request.                   *)
(***************************************************************************)
EXTENDS ServerConn, WebApi, QueueLemmas, FiniteSetTheorems

(* How many responses the goroutine of a request may try to write: the     *)
(* not-found controller adds one to those of the filters.                  *)
Quota(r) == IF phase[r] = "answered" THEN MaxResp + 1 ELSE MaxResp

Counted ==
  /\ written \in [Reqs -> Nat]
  /\ \A r \in Reqs : /\ written[r] <= Quota(r)
                     /\ handler[r] = "lock" /\ sock = "open" => written[r] < Quota(r)

(* The lock's holder is where its bookkeeping says, and no one else is.    *)
LockInv == TypeOK /\ Counted /\ LockExclusive

(***************************************************************************)
(* TypeCorrect and LockCorrect: by one inductive invariant.  The bound on  *)
(* "written" needs Counted: a goroutine that waits for the lock has not    *)
(* used up its quota.                                                      *)
(***************************************************************************)
LEMMA LockInductive == Spec => []LockInv
<1> USE ServerAssumption
<1>1. Init => LockInv
  BY DEF Init, LockInv, TypeOK, Counted, LockExclusive, Quota
<1>2. LockInv /\ [Next]_vars => LockInv'
  <2> SUFFICES ASSUME LockInv, [Next]_vars PROVE LockInv'
    OBVIOUS
  <2> USE DEF LockInv, TypeOK, Counted, LockExclusive, Quota, netVars
  <2>1. CASE Decode
    <3>1. Head(wire) \in Reqs /\ Tail(wire) \in Seq(Reqs)
      BY <2>1 DEF Decode
    <3>2. QED
      BY <2>1, <3>1 DEF Decode, Goto
  <2>2. CASE CloseSocket
    BY <2>2 DEF CloseSocket
  <2>3. CASE DecodeError
    BY <2>3 DEF DecodeError
  <2>4. CASE ClientReads
    BY <2>4 DEF ClientReads
  <2>5. ASSUME NEW r \in Reqs, ClientSends(r) PROVE LockInv'
    BY <2>5 DEF ClientSends
  <2>6. ASSUME NEW r \in Reqs, FiltersPass(r) PROVE LockInv'
    BY <2>6 DEF FiltersPass, Goto
  <2>7. ASSUME NEW r \in Reqs, FiltersStop(r) PROVE LockInv'
    BY <2>7 DEF FiltersStop, Goto
  <2>8. ASSUME NEW r \in Reqs, ControllerReturns(r) PROVE LockInv'
    BY <2>8 DEF ControllerReturns, Goto
  <2>9. ASSUME NEW r \in Reqs, StartWrite(r) PROVE LockInv'
    <3>1. CASE AppWrites(r)
      BY <2>9, <3>1 DEF StartWrite, AppWrites, Goto
    <3>2. CASE NotFoundWrites(r)
      <4>1. /\ handler' = [handler EXCEPT ![r] = "lock"]
            /\ phase' = [phase EXCEPT ![r] = "answered"]
            /\ handler[r] = "run" /\ phase[r] = "controller"
            /\ UNCHANGED <<wire, unsent, unread, reader, sock, lock, part, written, served>>
        BY <2>9, <3>2 DEF StartWrite, NotFoundWrites, Goto
      <4>2. TypeOK' /\ LockExclusive'
        BY <4>1
      <4>3. written[r] < MaxResp + 1
        <5> HIDE DEF TypeOK, LockExclusive
        <5>1. written[r] \in Nat /\ written[r] <= Quota(r)
          OBVIOUS
        <5>2. Quota(r) = MaxResp
          BY <4>1
        <5>3. QED
          BY <5>1, <5>2
      <4>4. Counted'
        BY <4>1, <4>3
      <4>5. QED
        BY <4>2, <4>4
    <3>3. QED
      BY <2>9, <3>1, <3>2 DEF StartWrite
  <2>10. ASSUME NEW r \in Reqs, Lock(r) PROVE LockInv'
    <3>1. TypeOK' /\ LockExclusive'
      <4>1. CASE sock = "open"
        <5>1. written[r] + 1 \in 0..MaxResp + 1
          <6>1. written[r] \in Nat /\ written[r] < Quota(r)
            BY <2>10, <4>1 DEF Lock, Goto
          <6>2. Quota(r) \in Nat /\ Quota(r) <= MaxResp + 1
            OBVIOUS
          <6> HIDE DEF Quota
          <6>3. QED
            BY <6>1, <6>2
        <5>2. QED
          BY <2>10, <4>1, <5>1 DEF Lock, Goto
      <4>2. CASE sock = "closed"
        BY <2>10, <4>2 DEF Lock, Goto
      <4>3. QED
        BY <4>1, <4>2
    <3>2. Counted'
      <4>1. CASE sock = "open"
        BY <2>10, <4>1 DEF Lock, Goto
      <4>2. CASE sock = "closed"
        BY <2>10, <4>2 DEF Lock, Goto
      <4>3. QED
        BY <4>1, <4>2
    <3>3. QED
      BY <3>1, <3>2
  <2>11. ASSUME NEW r \in Reqs, WritePart(r) PROVE LockInv'
    BY <2>11 DEF WritePart, Encodable
  <2>12. ASSUME NEW r \in Reqs, Unlock(r) PROVE LockInv'
    BY <2>12 DEF Unlock, Goto
  <2>13. CASE UNCHANGED vars
    BY <2>13 DEF vars
  <2>14. QED
    BY <2>1, <2>2, <2>3, <2>4, <2>5, <2>6, <2>7, <2>8, <2>9, <2>10, <2>11,
       <2>12, <2>13 DEF Next, ReaderStep, HandlerStep
<1>3. QED
  BY <1>1, <1>2, PTL DEF Spec

(* The types of the server's end of a connection (TypeOK).                 *)
THEOREM TypeCorrect == Spec => []TypeOK
BY LockInductive, PTL DEF LockInv

(* A goroutine holds writerLock exactly while it is inside Writer.Write,   *)
(* however many requests are handled at once (LockExclusive).              *)
THEOREM LockCorrect == Spec => []LockExclusive
BY LockInductive, PTL DEF LockInv
-----------------------------------------------------------------------------
(* The end of the stream agrees with the lock's holder: its last piece is  *)
(* the one the holder wrote last, or it is the end of a response if the    *)
(* holder has not written yet or nobody holds the lock.                    *)
LastPiece == pieces[Len(pieces)]

EndOfStream ==
  IF lock # NoReq /\ part[lock] > 0
  THEN pieces # <<>> /\ LastPiece = [of |-> lock, n |-> written[lock], part |-> part[lock]]
  ELSE pieces # <<>> => LastPiece.part = Encodable(LastPiece.of)

PartBounded == lock # NoReq => part[lock] <= Encodable(lock)

PiecesType == pieces \in Seq([of : Reqs, n : Nat, part : 1..Parts])

StreamInv ==
  PiecesType /\ PartBounded /\ FramesWhole /\ (sock = "open" => EndOfStream)

LEMMA EncodableType == \A r \in Reqs : Encodable(r) \in 0..Parts
BY ServerAssumption DEF Encodable

(***************************************************************************)
(* FramesCorrect: FramesWhole speaks of neighbours on the stream; what a   *)
(* step must know about its end is EndOfStream, which only holds while the *)
(* socket is open: a writer whose socket is closed gives the lock up in    *)
(* the middle of a response, and nobody writes after it.                   *)
(***************************************************************************)
LEMMA StreamInductive == Spec => []StreamInv
<1> USE ServerAssumption
<1>1. Init => StreamInv
  BY DEF Init, StreamInv, PiecesType, PartBounded, FramesWhole, EndOfStream
<1>2. LockInv /\ LockInv' /\ StreamInv /\ [Next]_vars => StreamInv'
  <2> SUFFICES ASSUME LockInv, LockInv', StreamInv, [Next]_vars PROVE StreamInv'
    OBVIOUS
  <2> USE DEF StreamInv
  <2>1. CASE UNCHANGED <<pieces, lock, part, written>> /\ (sock' = "open" => sock = "open")
    BY <2>1 DEF PiecesType, PartBounded, FramesWhole, EndOfStream, LastPiece, Encodable
  <2>2. ASSUME NEW r \in Reqs, Lock(r) PROVE StreamInv'
    <3>1. lock = NoReq /\ lock' = r /\ part'[r] = 0 /\ UNCHANGED <<pieces, sock>>
      BY <2>2 DEF Lock, LockInv, TypeOK
    <3>2. QED
      BY <3>1, EncodableType
         DEF PiecesType, PartBounded, FramesWhole, EndOfStream, LastPiece, Encodable
  <2>3. ASSUME NEW r \in Reqs, Unlock(r) PROVE StreamInv'
    <3>1. /\ lock = r /\ lock' = NoReq /\ UNCHANGED <<pieces, sock, part>>
          /\ part[r] = Encodable(r) \/ sock = "closed"
      BY <2>3 DEF Unlock, Goto, LockInv, LockExclusive
    <3>2. PiecesType' /\ PartBounded' /\ FramesWhole'
      BY <3>1 DEF PiecesType, PartBounded, FramesWhole, Encodable
    <3>3. ASSUME sock' = "open" PROVE EndOfStream'
      BY <3>1, <3>3 DEF EndOfStream, LastPiece, Encodable
    <3>4. QED
      BY <3>2, <3>3
  <2>4. ASSUME NEW r \in Reqs, WritePart(r) PROVE StreamInv'
    <3> DEFINE n == Len(pieces)
    <3>1. /\ lock = r /\ lock' = r /\ UNCHANGED <<sock, written>> /\ sock = "open"
          /\ pieces' = Append(pieces, Piece(r))
          /\ part[r] < Encodable(r) /\ part'[r] = part[r] + 1
          /\ part[r] \in Nat /\ r # NoReq
      BY <2>4 DEF WritePart, LockInv, TypeOK, LockExclusive
    <3>2. Piece(r) \in [of : Reqs, n : Nat, part : 1..Parts]
      BY <3>1, EncodableType DEF Piece, LockInv, Counted
    <3>3. PiecesType'
      BY <3>1, <3>2 DEF PiecesType
    <3>4. PartBounded'
      BY <3>1, EncodableType DEF PartBounded, Encodable
    <3>5. /\ n \in Nat /\ Len(pieces') = n + 1 /\ pieces'[n + 1] = Piece(r)
          /\ \A i \in 1..n : pieces'[i] = pieces[i]
      BY <3>1, <3>2 DEF PiecesType
    <3>6. EndOfStream'
      BY <3>1, <3>5 DEF EndOfStream, LastPiece, Piece
    <3>7. FramesWhole'
      <4>1. Piece(r).part = 1 =>
              n + 1 = 1 \/ pieces[n].part = Encodable(pieces[n].of)
        BY <3>1, <3>5 DEF EndOfStream, LastPiece, Piece
      <4>2. Piece(r).part # 1 =>
              n + 1 > 1 /\ pieces[n] = [Piece(r) EXCEPT !.part = @ - 1]
        BY <3>1, <3>5 DEF EndOfStream, LastPiece, Piece
      <4>3. \A i \in 1..n : i > 1 => i - 1 \in 1..n
        BY <3>5
      <4>4. ASSUME NEW i \in 1..Len(pieces')
            PROVE  IF pieces'[i].part = 1
                   THEN i = 1 \/ pieces'[i - 1].part = Encodable(pieces'[i - 1].of)
                   ELSE i > 1 /\ pieces'[i - 1] = [pieces'[i] EXCEPT !.part = @ - 1]
        <5>1. CASE i \in 1..n
          BY <5>1, <3>5, <4>3 DEF FramesWhole
        <5>2. CASE i = n + 1
          <6>1. pieces'[i] = Piece(r)
            BY <5>2, <3>5
          <6>2. i > 1 => pieces'[i - 1] = pieces[n]
            BY <5>2, <3>5
          <6>3. QED
            BY <5>2, <6>1, <6>2, <3>5, <4>1, <4>2
        <5>3. QED
          BY <5>1, <5>2, <3>5
      <4>5. QED
        BY <4>4 DEF FramesWhole, Encodable
    <3>8. QED
      BY <3>3, <3>4, <3>6, <3>7
  <2>5. QED
    BY <2>1, <2>2, <2>3, <2>4
    DEF Next, ReaderStep, HandlerStep, vars, netVars, Decode, CloseSocket, DecodeError,
        ClientSends, ClientReads, FiltersPass, FiltersStop, ControllerReturns, StartWrite
<1>3. QED
  BY <1>1, <1>2, LockInductive, PTL DEF Spec

(* Responses are whole and next to each other on the stream, and another   *)
(* begins only where one has ended (FramesWhole).                          *)
THEOREM FramesCorrect == Spec => []FramesWhole
BY StreamInductive, PTL DEF StreamInv

(* While the connection is open, an unfinished response at the end of the  *)
(* stream belongs to the holder of the lock (UnfinishedIsLocked).          *)
THEOREM UnfinishedCorrect == Spec => []UnfinishedIsLocked
<1>1. LockInv /\ StreamInv => UnfinishedIsLocked
  <2> SUFFICES ASSUME LockInv, StreamInv, sock = "open", pieces # <<>>,
                      LastPiece.part < Encodable(LastPiece.of)
               PROVE  lock = LastPiece.of
    BY DEF UnfinishedIsLocked, LastPiece
  <2>1. LastPiece.of \in Reqs
    <3>1. Len(pieces) \in 1..Len(pieces)
      BY DEF StreamInv, PiecesType
    <3>2. LastPiece \in [of : Reqs, n : Nat, part : 1..Parts]
      BY <3>1, ElementOfSeq DEF StreamInv, PiecesType, LastPiece
    <3>3. QED
      BY <3>2
  <2>2. LastPiece.part # Encodable(LastPiece.of)
    BY <2>1, EncodableType
  <2>3. QED
    BY <2>2 DEF StreamInv, EndOfStream
<1>2. QED
  BY <1>1, LockInductive, StreamInductive, PTL
-----------------------------------------------------------------------------
(***************************************************************************)
(* The refinement of ServerContract.  Its frames are the last pieces of    *)
(* whole responses, and a response has the next number of its request      *)
(* because the count of the goroutine (written) agrees with the frames,    *)
(* as long as the connection is open: but for the response it is writing,  *)
(* all that it counted went out whole, unless the codec cuts them short.   *)
(***************************************************************************)
Whole  == [of : Reqs, n : Nat, part : {Parts}]
Frames == [i \in 1..Len(Complete) |-> <<Complete[i].of, Complete[i].n>>]
Sent(r) == Keep(Frames, {r} \X Nat)

CountsAgree ==
  sock = "open" =>
    \A r \in Reqs \ Malformed :
      Len(Sent(r)) = IF handler[r] = "write" /\ part[r] < Parts
                     THEN written[r] - 1 ELSE written[r]

ServedInv ==
  /\ \A r \in Reqs : handler[r] # "none" => r \in served
  /\ reader # "done" => sock = "open"

AnswerInv == LockInv /\ StreamInv /\ ServedInv /\ CountsAgree

LEMMA FramesType ==
  ASSUME StreamInv
  PROVE  Complete \in Seq([of : Reqs, n : Nat, part : 1..Parts]) /\ Frames \in Seq(Reqs \X Nat)
<1>1. Complete \in Seq([of : Reqs, n : Nat, part : 1..Parts])
  BY KeepIn DEF StreamInv, PiecesType, Complete
<1>2. /\ Len(Complete) \in Nat
      /\ \A i \in 1..Len(Complete) : Complete[i] \in [of : Reqs, n : Nat, part : 1..Parts]
  BY <1>1, LenProperties, ElementOfSeq
<1>3. \A i \in 1..Len(Complete) : <<Complete[i].of, Complete[i].n>> \in Reqs \X Nat
  BY <1>2
<1>4. QED
  BY <1>1, <1>2, <1>3, IsASeq DEF Frames

(* A piece that goes out is a frame of its own when it is the last one of  *)
(* its response, and none otherwise.                                       *)
LEMMA FrameSent ==
  ASSUME LockInv, StreamInv, NEW r \in Reqs, WritePart(r)
  PROVE  /\ part[r] + 1 = Parts =>
              /\ Frames' = Append(Frames, <<r, written[r]>>)
              /\ Sent(r)' = Append(Sent(r), <<r, written[r]>>)
              /\ \A s \in Reqs : s # r => Sent(s)' = Sent(s)
         /\ part[r] + 1 # Parts => Frames' = Frames /\ \A s \in Reqs : Sent(s)' = Sent(s)
<1> DEFINE P == [of : Reqs, n : Nat, part : 1..Parts]
<1>1. /\ pieces \in Seq(P) /\ pieces' = Append(pieces, Piece(r))
      /\ written[r] \in Nat /\ part[r] \in Nat /\ part[r] < Encodable(r)
  BY DEF WritePart, StreamInv, PiecesType, LockInv, TypeOK, Counted
<1>2. Piece(r) \in P
  BY <1>1, EncodableType, ServerAssumption DEF Piece
<1>3. Piece(r) \in Whole <=> part[r] + 1 = Parts
  BY <1>1 DEF Piece, Whole
<1>4. Complete' = IF Piece(r) \in Whole THEN Append(Complete, Piece(r)) ELSE Complete
  <2> HIDE DEF P
  <2>1. /\ Piece(r) \in Whole => Keep(Append(pieces, Piece(r)), Whole) =
                                   Append(Keep(pieces, Whole), Piece(r))
        /\ Piece(r) \notin Whole => Keep(Append(pieces, Piece(r)), Whole) = Keep(pieces, Whole)
    BY <1>1, <1>2, KeepPut
  <2>2. QED
    BY <1>1, <2>1 DEF Complete, Whole
<1>5. CASE part[r] + 1 # Parts
  BY <1>3, <1>4, <1>5 DEF Frames, Sent
<1>6. CASE part[r] + 1 = Parts
  <2> DEFINE f == <<r, written[r]>>
  <2>1. Complete' = Append(Complete, Piece(r))
    BY <1>3, <1>4, <1>6
  <2>2. /\ Complete \in Seq(P) /\ Frames \in Seq(Reqs \X Nat)
        /\ Len(Complete) \in Nat
    BY FramesType, LenProperties
  <2>3. /\ Len(Complete') = Len(Complete) + 1 /\ Complete'[Len(Complete) + 1] = Piece(r)
        /\ \A i \in 1..Len(Complete) : Complete'[i] = Complete[i]
    BY <1>2, <2>1, <2>2, AppendProperties
  <2>4. f \in Reqs \X Nat /\ Piece(r).of = r /\ Piece(r).n = written[r]
    BY <1>1 DEF Piece
  <2>5. Frames' = Append(Frames, f)
    <3>1. Frames' = [i \in 1..(Len(Complete) + 1) |-> <<Complete'[i].of, Complete'[i].n>>]
      BY <2>3 DEF Frames
    <3>2. Len(Frames) = Len(Complete)
      BY <2>2 DEF Frames
    <3>3. Append(Frames, f) = [i \in 1..(Len(Complete) + 1) |->
                                 IF i = Len(Complete) + 1 THEN f ELSE Frames[i]]
      BY SMTT(30), <2>2, <2>4, <3>2
    <3>4. ASSUME NEW i \in 1..(Len(Complete) + 1)
          PROVE  <<Complete'[i].of, Complete'[i].n>> =
                   IF i = Len(Complete) + 1 THEN f ELSE Frames[i]
      BY SMTT(30), <2>2, <2>3, <2>4 DEF Frames
    <3>5. QED
      BY <3>1, <3>3, <3>4
  <2>6. \A s \in Reqs : f \in {s} \X Nat <=> s = r
    BY <1>1
  <2>7. \A s \in Reqs : Keep(Append(Frames, f), {s} \X Nat) =
                          IF s = r THEN Append(Sent(s), f) ELSE Sent(s)
    <3> TAKE s \in Reqs
    <3>1. /\ f \in {s} \X Nat => Keep(Append(Frames, f), {s} \X Nat) =
                                   Append(Keep(Frames, {s} \X Nat), f)
          /\ f \notin {s} \X Nat => Keep(Append(Frames, f), {s} \X Nat) =
                                      Keep(Frames, {s} \X Nat)
      <4> HIDE DEF f
      <4>1. PICK K, T : K = {s} \X Nat /\ T = Reqs \X Nat
        OBVIOUS
      <4>2. f \in T /\ Frames \in Seq(T)
        BY <2>2, <2>4, <4>1
      <4>3. /\ f \in K => Keep(Append(Frames, f), K) = Append(Keep(Frames, K), f)
            /\ f \notin K => Keep(Append(Frames, f), K) = Keep(Frames, K)
        BY <4>2, KeepPut
      <4>4. QED
        BY <4>1, <4>3
    <3>2. QED
      BY <2>6, <3>1 DEF Sent
  <2>8. QED
    BY <1>6, <2>5, <2>7 DEF Sent
<1>7. QED
  BY <1>5, <1>6

LEMMA AnswerStep == ASSUME AnswerInv, [Next]_vars PROVE ServedInv' /\ CountsAgree'
<1> USE DEF AnswerInv
<1>1. /\ handler \in [Reqs -> {"none", "run", "lock", "write", "done"}]
      /\ part \in [Reqs -> 0..Parts] /\ written \in [Reqs -> Nat]
      /\ Frames \in Seq(Reqs \X Nat)
  BY FramesType DEF LockInv, TypeOK, Counted
<1>2. ASSUME UNCHANGED pieces
      PROVE  \A r \in Reqs : Sent(r)' = Sent(r)
  BY <1>2 DEF Sent, Frames, Complete
<1>3. ASSUME UNCHANGED <<pieces, part, written>>, sock' = sock \/ sock' = "closed",
             \A r \in Reqs : (handler'[r] = "write") = (handler[r] = "write")
      PROVE  CountsAgree'
  BY <1>2, <1>3 DEF CountsAgree
<1>4. CASE Decode
  <2>1. Head(wire) \in Reqs
    BY <1>4 DEF Decode, LockInv, TypeOK
  <2>2. ServedInv'
    BY <1>1, <1>4, <2>1 DEF Decode, Goto, ServedInv
  <2>3. CountsAgree'
    BY <1>1, <1>3, <1>4, <2>1 DEF Decode, Goto
  <2>4. QED
    BY <2>2, <2>3
<1>5. CASE DecodeError \/ CloseSocket \/ ClientReads
  <2>1. ServedInv'
    BY <1>5 DEF DecodeError, CloseSocket, ClientReads, ServedInv
  <2>2. CountsAgree'
    BY <1>3, <1>5 DEF DecodeError, CloseSocket, ClientReads, netVars
  <2>3. QED
    BY <2>1, <2>2
<1>6. ASSUME NEW r \in Reqs,
             FiltersPass(r) \/ FiltersStop(r) \/ ControllerReturns(r) \/ StartWrite(r)
      PROVE  ServedInv' /\ CountsAgree'
  <2>1. /\ handler[r] = "run"
        /\ \E to \in {"run", "done", "lock"} : handler' = [handler EXCEPT ![r] = to]
        /\ UNCHANGED <<pieces, part, written, sock, reader, served>>
    BY <1>6 DEF FiltersPass, FiltersStop, ControllerReturns, StartWrite, Goto
  <2>2. ServedInv'
    BY <1>1, <2>1 DEF ServedInv
  <2>3. CountsAgree'
    BY <1>1, <1>3, <2>1
  <2>4. QED
    BY <2>2, <2>3
<1>7. ASSUME NEW r \in Reqs, ClientSends(r) PROVE ServedInv' /\ CountsAgree'
  BY <1>3, <1>7 DEF ClientSends, ServedInv
<1>8. ASSUME NEW r \in Reqs, Lock(r) PROVE ServedInv' /\ CountsAgree'
  <2>1. /\ handler[r] = "lock" /\ handler' = [handler EXCEPT ![r] = "write"]
        /\ part' = [part EXCEPT ![r] = 0]
        /\ sock = "open" => written' = [written EXCEPT ![r] = @ + 1]
        /\ UNCHANGED <<pieces, sock, reader, served>>
    BY <1>8 DEF Lock, Goto, netVars
  <2>2. ServedInv'
    BY <1>1, <2>1 DEF ServedInv
  <2>3. CountsAgree'
    BY <1>1, <1>2, <2>1, ServerAssumption DEF CountsAgree
  <2>4. QED
    BY <2>2, <2>3
<1>9. ASSUME NEW r \in Reqs, Unlock(r) PROVE ServedInv' /\ CountsAgree'
  <2>1. /\ handler[r] = "write" /\ handler' = [handler EXCEPT ![r] = "run"]
        /\ UNCHANGED <<pieces, sock, reader, served, part, written>>
        /\ sock = "open" => part[r] = Encodable(r)
    BY <1>9 DEF Unlock, Goto, netVars, TypeOK, LockInv
  <2>2. ServedInv'
    BY <1>1, <2>1 DEF ServedInv
  <2>3. sock = "open" /\ r \notin Malformed => part[r] = Parts
    BY <2>1 DEF Encodable
  <2>4. CountsAgree'
    BY <1>1, <1>2, <2>1, <2>3 DEF CountsAgree
  <2>5. QED
    BY <2>2, <2>4
<1>10. ASSUME NEW r \in Reqs, WritePart(r) PROVE ServedInv' /\ CountsAgree'
  <2>1. /\ handler[r] = "write" /\ part[r] < Encodable(r) /\ sock = "open"
        /\ part' = [part EXCEPT ![r] = @ + 1]
        /\ UNCHANGED <<handler, sock, reader, served, written>>
    BY <1>10 DEF WritePart
  <2>2. ServedInv'
    BY <2>1 DEF ServedInv
  <2>3. /\ part[r] + 1 = Parts => /\ Len(Sent(r)') = Len(Sent(r)) + 1
                                  /\ \A s \in Reqs : s # r => Sent(s)' = Sent(s)
        /\ part[r] + 1 # Parts => \A s \in Reqs : Sent(s)' = Sent(s)
    <3>1. Sent(r) \in Seq(Reqs \X Nat) /\ <<r, written[r]>> \in Reqs \X Nat
      BY <1>1, KeepIn DEF Sent
    <3>2. Len(Append(Sent(r), <<r, written[r]>>)) = Len(Sent(r)) + 1
      BY <3>1, AppendProperties
    <3>3. QED
      BY <1>10, <3>2, FrameSent
  <2>4. part[r] < Parts
    BY <1>1, <2>1, EncodableType, ServerAssumption DEF Encodable
  <2>5. CountsAgree'
    <3>1. ASSUME NEW s \in Reqs \ Malformed, s # r
          PROVE  Len(Sent(s)') = IF handler'[s] = "write" /\ part'[s] < Parts
                                 THEN written'[s] - 1 ELSE written'[s]
      BY <1>1, <2>1, <2>3, <3>1 DEF CountsAgree
    <3>2. ASSUME r \notin Malformed
          PROVE  Len(Sent(r)') = IF handler'[r] = "write" /\ part'[r] < Parts
                                 THEN written'[r] - 1 ELSE written'[r]
      <4>1. Len(Sent(r)) = written[r] - 1 /\ written[r] \in Nat /\ part'[r] = part[r] + 1
        BY <1>1, <2>1, <2>4, <3>2 DEF CountsAgree
      <4>2. QED
        BY <1>1, <2>1, <2>3, <2>4, <4>1, ServerAssumption
    <3>3. QED
      BY <3>1, <3>2 DEF CountsAgree
  <2>6. QED
    BY <2>2, <2>5
<1>11. CASE UNCHANGED vars
  BY <1>3, <1>11 DEF vars, netVars, ServedInv
<1>12. QED
  BY <1>4, <1>5, <1>6, <1>7, <1>8, <1>9, <1>10, <1>11 DEF Next, ReaderStep, HandlerStep

LEMMA AnswerInductive == Spec => []AnswerInv
<1>1. Init => ServedInv /\ CountsAgree
  <2> SUFFICES ASSUME Init PROVE ServedInv /\ CountsAgree
    OBVIOUS
  <2>1. pieces = <<>> /\ pieces \in Seq(Whole)
    BY DEF Init
  <2>2. Complete = <<>>
    <3>1. Complete = Keep(pieces, Whole) /\ Len(pieces) = 0
      BY <2>1 DEF Complete, Whole
    <3>2. Complete \in Seq(Whole) /\ Len(Complete) <= 0
      BY <2>1, <3>1, KeepIn
    <3>3. QED
      BY <3>2, EmptySeq, LenProperties
  <2>3. Frames = <<>> /\ Frames \in Seq(Reqs \X Nat)
    BY <2>2 DEF Frames
  <2>4. \A r \in Reqs : Len(Sent(r)) = 0
    <3> TAKE r \in Reqs
    <3>1. Sent(r) \in Seq(Reqs \X Nat) /\ Len(Sent(r)) <= Len(Frames) /\ Len(Frames) = 0
      BY <2>3, KeepIn DEF Sent
    <3>2. QED
      BY <3>1, LenProperties
  <2>5. QED
    BY <2>4 DEF Init, ServedInv, CountsAgree
<1>2. QED
  BY <1>1, LockInductive, StreamInductive, AnswerStep, PTL DEF Spec, AnswerInv

LEMMA ServerSent == \A r : Server!Answers(r) = Sent(r)
BY DEF Server!Answers, Server!Keep, Keep, Sent, Frames

LEMMA ServerInitRefines == ASSUME Init, StreamInv PROVE Server!Init
<1>1. pieces = <<>> /\ pieces \in Seq(Whole)
  BY DEF Init
<1>2. Complete = Keep(pieces, Whole) /\ Len(pieces) = 0
  BY <1>1 DEF Complete, Whole
<1>3. Complete = <<>>
  <2>1. Complete \in Seq(Whole) /\ Len(Complete) <= 0
    BY <1>1, <1>2, KeepIn
  <2>2. QED
    BY <2>1, EmptySeq, LenProperties
<1>4. QED
  BY <1>3 DEF Init, Server!Init

LEMMA ServerStepRefines ==
  ASSUME AnswerInv, [Next]_vars
  PROVE  Server!Next \/ UNCHANGED <<served, Frames, sock>>
<1> USE DEF AnswerInv
<1>1. ASSUME UNCHANGED <<served, pieces, sock>>
      PROVE  UNCHANGED <<served, Frames, sock>>
  BY <1>1 DEF Frames, Complete
<1>2. CASE Decode
  <2>1. Head(wire) \in Reqs /\ sock = "open" /\ served' = served \cup {Head(wire)}
    BY <1>2 DEF Decode, ServedInv, LockInv, TypeOK
  <2>2. UNCHANGED <<Frames, sock>>
    BY <1>2 DEF Decode, Frames, Complete
  <2>3. Server!Serve(Head(wire))
    BY <2>1, <2>2 DEF Server!Serve, Frames
  <2>4. QED
    BY <2>1, <2>3 DEF Server!Next
<1>3. CASE CloseSocket
  <2>1. sock = "open" /\ sock' = "closed" /\ UNCHANGED <<served, Frames>>
    BY <1>3 DEF CloseSocket, ServedInv, Frames, Complete
  <2>2. Server!Down
    BY <2>1 DEF Server!Down, Frames
  <2>3. QED
    BY <2>2 DEF Server!Next
<1>4. ASSUME NEW r \in Reqs, WritePart(r)
      PROVE  Server!Next \/ UNCHANGED <<served, Frames, sock>>
  <2>1. /\ UNCHANGED <<served, sock>>
        /\ sock = "open" /\ handler[r] = "write" /\ part[r] < Encodable(r)
    BY <1>4 DEF WritePart
  <2>2. r \in served
    BY <2>1 DEF ServedInv
  <2>3. CASE part[r] + 1 # Parts
    BY <1>4, <2>1, <2>3, FrameSent
  <2>4. CASE part[r] + 1 = Parts
    <3>1. r \notin Malformed /\ part[r] < Parts /\ written[r] \in Nat
      BY <2>1, <2>4, ServerAssumption DEF Encodable, LockInv, TypeOK, Counted
    <3>2. written[r] = Len(Server!Answers(r)) + 1
      BY <2>1, <3>1, ServerSent DEF CountsAgree
    <3>3. Frames' = Append(Frames, <<r, written[r]>>)
      BY <1>4, <2>4, FrameSent
    <3>4. Server!Respond(r)
      BY <2>1, <2>2, <3>2, <3>3 DEF Server!Respond, Frames
    <3>5. QED
      BY <3>4 DEF Server!Next
  <2>5. QED
    BY <2>3, <2>4
<1>5. QED
  BY <1>1, <1>2, <1>3, <1>4
  DEF Next, ReaderStep, HandlerStep, vars, netVars, DecodeError, ClientSends, ClientReads,
      FiltersPass, FiltersStop, ControllerReturns, StartWrite, Lock, Unlock

(* The server's end of a connection keeps the contract that a client may   *)
(* rely on: it answers only what it has decoded, each answer whole and     *)
(* with the next number of its request, and nothing once it is closed      *)
(* (ContractSpec).                                                         *)
THEOREM ImplementsServerContract == Spec => ContractSpec
<1>1. AnswerInv /\ [Next]_vars => [Server!Next]_(Server!vars)
  BY ServerStepRefines DEF Server!vars, Frames
<1>2. Init /\ StreamInv => Server!Init
  BY ServerInitRefines
<1>3. QED
  BY <1>1, <1>2, AnswerInductive, StreamInductive, PTL DEF Spec, ContractSpec, Server!Spec
-----------------------------------------------------------------------------
(* Packets and WebApi.  A response read from what MarshalResponse makes of *)
(* it is the response, where the handler's own keys do not hide it.        *)
(* The names of entries, those of the envelope among them, and keys, which *)
(* go through sub maps.                                                    *)
Names ==
  Seq(STRING) \cup {<<"strest">>, <<"status">>, <<"txn">>, <<"id">>, <<"code">>,
                    <<"txn", "id">>, <<"txn", "status">>}
Keys == Seq(Names) \ {<<>>}

(* The key of a sub map's entry in the map that has the sub map.           *)
LEMMA KeyAt ==
  ASSUME NEW S, NEW w \in S, NEW q \in Seq(S), q # <<>>
  PROVE  /\ <<w>> \o q \in Seq(S) /\ <<w>> \o q # <<>> /\ Len(<<w>> \o q) = 1 + Len(q)
         /\ (<<w>> \o q)[1] = w
         /\ \A i \in 1..Len(q) : (<<w>> \o q)[1 + i] = q[i]
         /\ Under(<<w>>, <<w>> \o q)
         /\ SubSeq(<<w>> \o q, 2, Len(<<w>> \o q)) = q
<1>0. <<w>> \in Seq(S) /\ Len(<<w>>) = 1 /\ <<w>>[1] = w
  OBVIOUS
<1>1. PICK k \in Seq(S) : k = <<w>>
  BY <1>0
<1>1a. Len(k) = 1 /\ k[1] = w
  BY <1>0, <1>1
<1>2. Len(q) \in Nat \ {0}
  BY EmptySeq, LenProperties
<1>3. PICK kq \in Seq(S) : kq = k \o q
  BY ConcatProperties
<1>4a. Len(k \o q) = Len(k) + Len(q)
  BY ConcatProperties
<1>4b. \A i \in 1..Len(k) + Len(q) : (k \o q)[i] = IF i <= Len(k) THEN k[i] ELSE q[i - Len(k)]
  BY ConcatProperties
<1>4. /\ Len(kq) = 1 + Len(q)
      /\ \A i \in 1..1 + Len(q) : kq[i] = IF i <= 1 THEN k[i] ELSE q[i - 1]
  BY <1>1a, <1>3, <1>4a, <1>4b
<1>5a. ASSUME NEW i \in 1..Len(q) PROVE kq[1 + i] = q[i]
  <2>1. 1 + i \in 1..1 + Len(q) /\ ~(1 + i <= 1) /\ (1 + i) - 1 = i
    BY <1>2
  <2> QED
    BY <1>4, <2>1
<1>5. kq[1] = w
  <2>1. 1 \in 1..1 + Len(q)
    BY <1>2
  <2> QED
    BY <1>1a, <1>4, <2>1
<1>e. \A i \in 1..Len(kq) : kq[i] \in S
  BY ElementOfSeq
<1>6. SubSeq(kq, 2, Len(kq)) = q
  <2>1. \A i \in 2..Len(kq) : kq[i] \in S
    BY <1>e, <1>4, <1>2
  <2>0. Len(kq) \in Int /\ 2 \in Int /\ 2 <= Len(kq) /\ Len(kq) - 2 + 1 = Len(q)
    BY <1>4, <1>2
  <2>2. PICK t \in Seq(S) : t = SubSeq(kq, 2, Len(kq))
    BY <2>0, <2>1, SubSeqProperties
  <2>3. Len(SubSeq(kq, 2, Len(kq))) = Len(q)
    BY <2>0, <2>1, SubSeqProperties
  <2>4. \A i \in 1..Len(kq) - 2 + 1 : SubSeq(kq, 2, Len(kq))[i] = kq[2 + i - 1]
    BY <2>0, <2>1, SubSeqProperties
  <2>5. ASSUME NEW i \in 1..Len(q) PROVE t[i] = q[i]
    <3>1. 2 + i - 1 = 1 + i
      OBVIOUS
    <3> QED
      BY <1>5a, <2>0, <2>2, <2>4, <3>1
  <2> QED
    BY <2>2, <2>3, <2>5, SeqEqual
<1>7. Under(k, kq)
  <2>1. \A i \in 1..1 : kq[i] \in S
    BY <1>e, <1>2, <1>4
  <2>0. SubSeq(kq, 1, 1) \in Seq(S)
    BY <2>1, SubSeqProperties
  <2>2. PICK t \in Seq(S) : t = SubSeq(kq, 1, 1)
    BY <2>0
  <2>3. Len(t) = 1
    BY <2>1, <2>2, SubSeqProperties
  <2>4. t[1] = w
    <3>1. \A i \in 1..1 - 1 + 1 : SubSeq(kq, 1, 1)[i] = kq[1 + i - 1]
      BY <2>1, SubSeqProperties
    <3>2. 1 \in 1..1 - 1 + 1 /\ 1 + 1 - 1 = 1
      OBVIOUS
    <3> QED
      BY <1>5, <2>2, <3>1, <3>2
  <2>5. \A i \in 1..Len(t) : t[i] = k[i]
    BY <1>1a, <2>3, <2>4
  <2>6. t = k
    BY <1>1a, <2>3, <2>5, SeqEqual
  <2>7. SubSeq(k, 1, 1) = k
    BY <1>1a, SubSeqFull
  <2>8. k # kq /\ Len(k) <= Len(kq)
    BY <1>1a, <1>2, <1>4
  <2> QED
    BY <1>1a, <2>2, <2>6, <2>7, <2>8 DEF Under, IsStrictPrefix, IsPrefix
<1>8. kq # <<>>
  BY <1>2, <1>4, EmptySeq
<1> QED
  BY <1>1, <1>3, <1>4, <1>5, <1>5a, <1>6, <1>7, <1>8

(* A key that lies in a sub map is the key of one of its entries.          *)
LEMMA KeyUnder ==
  ASSUME NEW S, NEW w \in S, NEW p \in Seq(S), p # <<>>, Under(<<w>>, p)
  PROVE  /\ p[1] = w
         /\ SubSeq(p, 2, Len(p)) \in Seq(S) /\ SubSeq(p, 2, Len(p)) # <<>>
         /\ p = <<w>> \o SubSeq(p, 2, Len(p))
<1>0. <<w>> \in Seq(S) /\ Len(<<w>>) = 1 /\ <<w>>[1] = w
  OBVIOUS
<1>1. PICK k \in Seq(S) : k = <<w>>
  BY <1>0
<1>1a. Len(k) = 1 /\ k[1] = w
  BY <1>0, <1>1
<1>2. Len(p) \in Nat \ {0}
  BY EmptySeq, LenProperties
<1>3. \A i \in 1..Len(p) : p[i] \in S
  BY ElementOfSeq
<1>4. SubSeq(k, 1, 1) = SubSeq(p, 1, 1) /\ k # p
  BY <1>1, <1>1a DEF Under, IsStrictPrefix, IsPrefix
<1>5. p[1] = w
  <2>1. \A i \in 1..1 : p[i] \in S
    BY <1>2, <1>3
  <2>2. \A i \in 1..1 - 1 + 1 : SubSeq(p, 1, 1)[i] = p[1 + i - 1]
    BY <2>1, SubSeqProperties
  <2>3. 1 \in 1..1 - 1 + 1 /\ 1 + 1 - 1 = 1
    OBVIOUS
  <2>4. SubSeq(k, 1, 1) = k
    BY <1>1a, SubSeqFull
  <2> QED
    BY <1>1a, <1>4, <2>2, <2>3, <2>4
<1>6. Len(p) > 1
  <2>1. Len(p) # 1
    <3> SUFFICES ASSUME Len(p) = 1 PROVE FALSE
      OBVIOUS
    <3>1. \A i \in 1..Len(p) : p[i] = k[i]
      BY <1>1a, <1>5
    <3>2. p = k
      BY <1>1a, <3>1, SeqEqual
    <3> QED
      BY <3>2, <1>4
  <2> QED
    BY <2>1, <1>2
<1>6a. \A i \in 2..Len(p) : p[i] \in S
  BY <1>2, <1>3
<1>7. PICK q \in Seq(S) : q = SubSeq(p, 2, Len(p))
  <2>1. Len(p) \in Int /\ 2 \in Int
    BY <1>2
  <2> QED
    BY <2>1, <1>6a, SubSeqProperties
<1>8. q # <<>>
  <2>1. Len(p) \in Int /\ 2 \in Int /\ 2 <= Len(p)
    BY <1>2, <1>6
  <2>2. Len(SubSeq(p, 2, Len(p))) = Len(p) - 2 + 1
    BY <1>6a, <2>1, SubSeqProperties
  <2>3. Len(q) # 0
    BY <1>7, <2>1, <2>2
  <2> QED
    BY <2>3, EmptySeq
<1>9. p = k \o q
  <2>0. 1 \in 1..Len(p) /\ Len(p) \in 1..Len(p) /\ 1 + 1 = 2
    BY <1>2
  <2>1. SubSeq(p, 1, Len(p)) = <<p[1]>> \o SubSeq(p, 1 + 1, Len(p))
    BY <2>0, SubSeqRecursiveFirst
  <2>2. SubSeq(p, 1, Len(p)) = p
    BY SubSeqFull
  <2> QED
    BY <1>1, <1>5, <1>7, <2>0, <2>1, <2>2
<1> QED
  BY <1>1, <1>5, <1>7, <1>8, <1>9

(* The map that a key's sub map holds, entry by entry.                     *)
LEMMA SubMapAt ==
  ASSUME NEW m, DOMAIN m \subseteq Keys, NEW word, <<word>> \in Names, NEW q \in Keys
  PROVE  /\ q \in DOMAIN SubMap(m, Top(word)) <=> Top(word) \o q \in DOMAIN m
         /\ q \in DOMAIN SubMap(m, Top(word)) => SubMap(m, Top(word))[q] = m[Top(word) \o q]
<1>1. PICK S : S = Names
  OBVIOUS
<1>2. PICK w \in S : w = <<word>>
  BY <1>1
<1>3. Keys = Seq(S) \ {<<>>} /\ Top(word) = <<w>>
  BY <1>1, <1>2 DEF Keys, Top
<1>4. Len(<<w>>) + 1 = 2
  OBVIOUS
<1>5. PICK ps : ps = {p \in DOMAIN m : Under(<<w>>, p)}
  OBVIOUS
<1>6. SubMap(m, Top(word)) = [r \in {SubSeq(p, 2, Len(p)) : p \in ps} |-> m[<<w>> \o r]]
  BY <1>3, <1>4, <1>5 DEF SubMap
<1>7. q \in Seq(S) /\ q # <<>>
  BY <1>3
<1>8. ASSUME <<w>> \o q \in DOMAIN m PROVE q \in {SubSeq(p, 2, Len(p)) : p \in ps}
  <2>1. Under(<<w>>, <<w>> \o q) /\ SubSeq(<<w>> \o q, 2, Len(<<w>> \o q)) = q
    BY <1>7, KeyAt
  <2> QED
    BY <1>5, <1>8, <2>1
<1>9. ASSUME NEW p \in ps, q = SubSeq(p, 2, Len(p)) PROVE <<w>> \o q \in DOMAIN m
  <2>1. p \in DOMAIN m /\ p \in Seq(S) /\ p # <<>> /\ Under(<<w>>, p)
    BY <1>3, <1>5, <1>9
  <2>2. p = <<w>> \o SubSeq(p, 2, Len(p))
    BY <2>1, KeyUnder
  <2> QED
    BY <1>9, <2>1, <2>2
<1> QED
  BY <1>3, <1>6, <1>8, <1>9

(* The names that the keys of the envelope are made of.                    *)
LEMMA NamesApart ==
  /\ <<"strest">> \in Names /\ <<"status">> \in Names /\ <<"txn">> \in Names
  /\ <<"id">> \in Names /\ <<"code">> \in Names
  /\ <<"txn", "id">> \in Names /\ <<"txn", "status">> \in Names
  /\ <<"strest">> # <<"status">> /\ <<"id">> # <<"status">>
<1>1. \A x, y : <<x>> = <<y>> => x = y
  OBVIOUS
<1>2. "strest" # "status" /\ "id" # "status"
  OBVIOUS
<1> QED
  BY <1>1, <1>2 DEF Names

(* What the keys of an envelope are, and that no two are the same.         *)
LEMMA EnvelopeKeys ==
  /\ {IdKey, StatusKey, CodeKey} \subseteq Keys
  /\ Len(IdKey) = 3 /\ Len(StatusKey) = 3 /\ Len(CodeKey) = 2
  /\ IdKey # StatusKey /\ IdKey # CodeKey /\ StatusKey # CodeKey
  /\ IdKey[1] = <<"strest">> /\ StatusKey[1] = <<"strest">> /\ CodeKey[1] = <<"status">>
<1>1. PICK st \in Names, ss \in Names, tx \in Names, id \in Names, co \in Names :
         /\ st = <<"strest">> /\ ss = <<"status">> /\ tx = <<"txn">> /\ id = <<"id">>
         /\ co = <<"code">> /\ st # ss /\ id # ss
  BY NamesApart
<1>2. IdKey = <<st>> \o <<tx, id>> /\ StatusKey = <<st>> \o <<tx, ss>> /\ CodeKey = <<ss>> \o <<co>>
  BY <1>1 DEF IdKey, StatusKey, CodeKey, Top
<1>3. PICK S : S = Names
  OBVIOUS
<1>4. /\ <<tx, id>> \in Seq(S) /\ <<tx, ss>> \in Seq(S) /\ <<co>> \in Seq(S)
      /\ <<tx, id>> # <<>> /\ <<tx, ss>> # <<>> /\ <<co>> # <<>>
      /\ Len(<<tx, id>>) = 2 /\ Len(<<tx, ss>>) = 2 /\ Len(<<co>>) = 1
      /\ <<tx, id>>[2] = id /\ <<tx, ss>>[2] = ss
  BY <1>3
<1>5. /\ IdKey \in Seq(S) /\ IdKey # <<>> /\ Len(IdKey) = 1 + 2 /\ IdKey[1] = st
      /\ \A i \in 1..2 : IdKey[1 + i] = <<tx, id>>[i]
  BY <1>2, <1>3, <1>4, KeyAt
<1>6. /\ StatusKey \in Seq(S) /\ StatusKey # <<>> /\ Len(StatusKey) = 1 + 2 /\ StatusKey[1] = st
      /\ \A i \in 1..2 : StatusKey[1 + i] = <<tx, ss>>[i]
  BY <1>2, <1>3, <1>4, KeyAt
<1>7. CodeKey \in Seq(S) /\ CodeKey # <<>> /\ Len(CodeKey) = 1 + 1 /\ CodeKey[1] = ss
  BY <1>2, <1>3, <1>4, KeyAt
<1>8. IdKey[1 + 2] = id /\ StatusKey[1 + 2] = ss
  BY <1>4, <1>5, <1>6
<1>9. Keys = Seq(S) \ {<<>>}
  BY <1>3 DEF Keys
<1> QED
  BY <1>1, <1>5, <1>6, <1>7, <1>8, <1>9

(* What an envelope says of the call, under each of its keys.              *)
LEMMA EnvelopeIs ==
  ASSUME NEW id, NEW r
  PROVE  /\ DOMAIN Envelope(id, r) = {IdKey, StatusKey, CodeKey}
         /\ Envelope(id, r)[IdKey] = Text(<<id>>)
         /\ Envelope(id, r)[StatusKey] = Text(<<r.status>>)
         /\ Envelope(id, r)[CodeKey] = Text(r.code)
  BY EnvelopeKeys DEF Envelope

(* The keys of a controller are names, and it puts values there.           *)
OwnKeys(r) == DOMAIN r.own \subseteq Keys /\ r.own = [p \in DOMAIN r.own |-> r.own[p]]

HidesName(word, r) == \E p \in DOMAIN r.own : p[1] = <<word>>

(* What is on the wire has the envelope unless a key of the controller     *)
(* hides it, and the controller's keys.                                    *)
LEMMA MarshalIs ==
  ASSUME NEW id, NEW r, OwnKeys(r), ~HidesName("strest", r), NEW m, m = MarshalResponse(id, r)
  PROVE  /\ DOMAIN m \subseteq Keys
         /\ IdKey \in DOMAIN m /\ m[IdKey] = Text(<<id>>)
         /\ StatusKey \in DOMAIN m /\ m[StatusKey] = Text(<<r.status>>)
         /\ CodeKey \notin DOMAIN r.own => (CodeKey \in DOMAIN m <=> ~HidesName("status", r))
         /\ ~HidesName("status", r) => m[CodeKey] = Text(r.code)
         /\ \A p \in DOMAIN m : p \in DOMAIN r.own \/ p \in {IdKey, StatusKey, CodeKey}
         /\ \A p \in DOMAIN r.own : p \in DOMAIN m /\ m[p] = r.own[p]
<1>1. PICK e : e = Envelope(id, r)
  OBVIOUS
<1>2. PICK own : own = r.own
  OBVIOUS
<1>3. PICK kept : kept = {p \in DOMAIN e : \A q \in DOMAIN own : p[1] # q[1]}
  OBVIOUS
<1>4. m = [p \in kept \cup DOMAIN own |-> IF p \in DOMAIN own THEN own[p] ELSE e[p]]
  BY <1>1, <1>2, <1>3 DEF MarshalResponse, UnmarshalInto
<1>5. /\ DOMAIN e = {IdKey, StatusKey, CodeKey} /\ e[IdKey] = Text(<<id>>)
      /\ e[StatusKey] = Text(<<r.status>>) /\ e[CodeKey] = Text(r.code)
  BY <1>1, EnvelopeIs
<1>6. DOMAIN own \subseteq Keys /\ \A q \in DOMAIN own : q[1] # <<"strest">>
  BY <1>2 DEF OwnKeys, HidesName
<1>7. HidesName("status", r) <=> \E q \in DOMAIN own : q[1] = <<"status">>
  BY <1>2 DEF HidesName
<1>8. {IdKey, StatusKey} \subseteq kept /\ {IdKey, StatusKey} \cap DOMAIN own = {}
  BY <1>3, <1>5, <1>6, EnvelopeKeys
<1>9. CodeKey \in kept <=> ~HidesName("status", r)
  BY <1>3, <1>5, <1>7, EnvelopeKeys
<1>10. CodeKey \in DOMAIN own => HidesName("status", r)
  BY <1>7, EnvelopeKeys
<1>11. kept \subseteq {IdKey, StatusKey, CodeKey}
  BY <1>3, <1>5
<1> QED
  BY <1>2, <1>4, <1>5, <1>6, <1>8, <1>9, <1>10, <1>11, EnvelopeKeys

(* A response read is the response written: its id and status always, its  *)
(* code unless the controller's keys hide it.                              *)
LEMMA ResponseRead ==
  ASSUME NEW id, NEW r, OwnKeys(r), ~HidesName("strest", r),
         NEW m, m = MarshalResponse(id, r)
  PROVE  /\ NewResponseDynMap(m).id = id
         /\ NewResponseDynMap(m).status = r.status
         /\ NewResponseDynMap(m).code = IF HidesName("status", r) THEN NewResponseDynMap(r.own).code
                                        ELSE r.code
         /\ ~HidesName("status", r) => NewResponseDynMap(m).own = r.own
<1>1. /\ DOMAIN m \subseteq Keys /\ DOMAIN r.own \subseteq Keys
      /\ IdKey \in DOMAIN m /\ m[IdKey] = Text(<<id>>)
      /\ StatusKey \in DOMAIN m /\ m[StatusKey] = Text(<<r.status>>)
      /\ \A p \in DOMAIN m : p \in DOMAIN r.own \/ p \in {IdKey, StatusKey, CodeKey}
      /\ \A p \in DOMAIN r.own : p \in DOMAIN m /\ m[p] = r.own[p]
      /\ CodeKey \notin DOMAIN r.own => (CodeKey \in DOMAIN m <=> ~HidesName("status", r))
      /\ ~HidesName("status", r) => m[CodeKey] = Text(r.code)
  BY MarshalIs DEF OwnKeys
<1>2. PICK st \in Names, ss \in Names, tx \in Names, i \in Names, co \in Names,
           ti \in Names, ts \in Names :
         /\ st = <<"strest">> /\ ss = <<"status">> /\ tx = <<"txn">> /\ i = <<"id">>
         /\ co = <<"code">> /\ ti = <<"txn", "id">> /\ ts = <<"txn", "status">>
         /\ st # ss /\ i # ss
  BY NamesApart
<1>3. \A p \in DOMAIN r.own : p[1] # st
  BY <1>2 DEF HidesName
<1>4. PICK strest : strest = SubMap(m, Top("strest"))
  OBVIOUS
<1>5. /\ <<tx, i>> \in Keys /\ <<tx, ss>> \in Keys /\ <<ti>> \in Keys /\ <<ts>> \in Keys
      /\ <<co>> \in Keys
  BY DEF Keys
<1>6. IdKey = Top("strest") \o <<tx, i>> /\ StatusKey = Top("strest") \o <<tx, ss>>
      /\ CodeKey = Top("status") \o <<co>> /\ Top("strest") = <<st>>
  BY <1>2 DEF IdKey, StatusKey, CodeKey, Top
<1>7. <<"strest">> \in Names /\ <<"status">> \in Names
  BY NamesApart
<1>8. <<tx, i>> \in DOMAIN strest /\ strest[<<tx, i>>] = Text(<<id>>)
  <2>1. PICK k \in Keys : k = <<tx, i>> /\ IdKey = Top("strest") \o k
    BY <1>5, <1>6
  <2>2. /\ k \in DOMAIN strest <=> IdKey \in DOMAIN m
        /\ k \in DOMAIN strest => strest[k] = m[IdKey]
    BY <1>1, <1>4, <1>7, <2>1, SubMapAt
  <2> QED
    BY <1>1, <2>1, <2>2
<1>9. <<tx, ss>> \in DOMAIN strest /\ strest[<<tx, ss>>] = Text(<<r.status>>)
  <2>1. PICK k \in Keys : k = <<tx, ss>> /\ StatusKey = Top("strest") \o k
    BY <1>5, <1>6
  <2>2. /\ k \in DOMAIN strest <=> StatusKey \in DOMAIN m
        /\ k \in DOMAIN strest => strest[k] = m[StatusKey]
    BY <1>1, <1>4, <1>7, <2>1, SubMapAt
  <2> QED
    BY <1>1, <2>1, <2>2
<1>10. ASSUME NEW n \in Names PROVE <<n>> \notin DOMAIN strest
  <2>1. <<n>> \in Keys /\ <<n>> \in Seq(Names) /\ <<n>> # <<>> /\ Len(<<n>>) = 1
    BY DEF Keys
  <2>2. PICK k : k = <<st>> \o <<n>>
    OBVIOUS
  <2>3. k[1] = st /\ Len(k) = 1 + 1
    BY <2>1, <2>2, KeyAt
  <2>4. k \notin {IdKey, StatusKey, CodeKey}
    BY <1>2, <2>3, EnvelopeKeys
  <2>5. k \notin DOMAIN m
    BY <1>1, <1>3, <2>3, <2>4
  <2> QED
    BY <1>1, <1>4, <1>6, <1>7, <2>1, <2>2, <2>5, SubMapAt
<1>11. Dotted(<<"txn", "id">>) = <<tx, i>> /\ Dotted(<<"txn", "status">>) = <<tx, ss>>
  BY <1>2 DEF Dotted
<1>12. <<<<"txn", "id">>>> = <<ti>> /\ <<<<"txn", "status">>>> = <<ts>> /\ <<<<"code">>>> = <<co>>
  BY <1>2
<1>13. MustText(strest, <<"txn", "id">>, Text(<<"">>)) = Text(<<id>>)
  <2>1. <<<<"txn", "id">>>> \notin DOMAIN strest
    BY <1>10, <1>12
  <2> QED
    BY <1>8, <1>11, <2>1 DEF MustText, MustInt64
<1>14. MustText(strest, <<"txn", "status">>, Text(<<OK.status>>)) = Text(<<r.status>>)
  <2>1. <<<<"txn", "status">>>> \notin DOMAIN strest
    BY <1>10, <1>12
  <2> QED
    BY <1>9, <1>11, <2>1 DEF MustText, MustInt64
<1>15. NewResponseDynMap(m).id = id /\ NewResponseDynMap(m).status = r.status
  <2>1. \A x : Text(<<x>>).of[1][1] = x
    BY DEF Text
  <2> QED
    BY <1>4, <1>13, <1>14, <2>1 DEF NewResponseDynMap
<1>16. CASE ~HidesName("status", r)
  <2>1. \A p \in DOMAIN r.own : p[1] # ss
    BY <1>2, <1>16 DEF HidesName
  <2>2. CodeKey \notin DOMAIN r.own
    BY <1>2, <2>1, EnvelopeKeys
  <2>3. CodeKey \in DOMAIN m /\ m[CodeKey] = Text(r.code)
    BY <1>1, <1>16, <2>2
  <2>4. PICK status : status = SubMap(m, Top("status"))
    OBVIOUS
  <2>5. <<co>> \in DOMAIN status /\ status[<<co>>] = Text(r.code)
    <3>1. PICK k \in Keys : k = <<co>> /\ CodeKey = Top("status") \o k
      BY <1>5, <1>6
    <3>2. DOMAIN m \subseteq Keys
      BY <1>1
    <3>3. /\ k \in DOMAIN status <=> CodeKey \in DOMAIN m
          /\ k \in DOMAIN status => status[k] = m[CodeKey]
      BY <1>7, <2>4, <3>1, <3>2, SubMapAt
    <3> QED
      BY <2>3, <3>1, <3>3
  <2>6. MustText(status, <<"code">>, Text(OK.code)) = Text(r.code)
    BY <1>12, <2>5 DEF MustText
  <2>7. NewResponseDynMap(m).code = r.code
    <3>1. Text(r.code).of[1] = r.code
      BY DEF Text
    <3> QED
      BY <2>4, <2>6, <3>1 DEF NewResponseDynMap
  <2>8. NewResponseDynMap(m).own = r.own
    <3>1. PICK n : n = RemoveName(m, "strest")
      OBVIOUS
    <3>2. n = [p \in {q \in DOMAIN m : q[1] # st} |-> m[p]]
      BY <1>2, <3>1 DEF RemoveName
    <3>3. PICK w : w = RemoveName(n, "status")
      OBVIOUS
    <3>4. w = [p \in {q \in DOMAIN n : q[1] # ss} |-> n[p]]
      BY <1>2, <3>3 DEF RemoveName
    <3>5. \A p : p \in DOMAIN w <=> p \in DOMAIN r.own
      BY <1>1, <1>2, <1>3, <2>1, <3>2, <3>4, EnvelopeKeys
    <3>6. \A p \in DOMAIN r.own : w[p] = r.own[p]
      BY <1>1, <1>3, <2>1, <3>2, <3>4, <3>5
    <3>7. w = [p \in DOMAIN w |-> w[p]] /\ r.own = [p \in DOMAIN r.own |-> r.own[p]]
      BY <3>4 DEF OwnKeys
    <3>8. DOMAIN w = DOMAIN r.own
      BY <3>5
    <3>9. w = r.own
      BY <3>6, <3>7, <3>8
    <3> QED
      BY <3>1, <3>3, <3>9 DEF NewResponseDynMap
  <2> QED
    BY <1>15, <1>16, <2>7, <2>8
<1>17. CASE HidesName("status", r)
  <2>1. CodeKey \in DOMAIN m => CodeKey \in DOMAIN r.own
    BY <1>1, <1>17
  <2>2. PICK k : k = Top("status")
    OBVIOUS
  <2>3. \A p : p \in DOMAIN m /\ Under(k, p) <=> p \in DOMAIN r.own /\ Under(k, p)
    <3>1. ~Under(k, IdKey) /\ ~Under(k, StatusKey)
      <4>1. k = <<ss>>
        BY <1>2, <2>2 DEF Top
      <4>2. PICK S : S = Names /\ Keys = Seq(S) \ {<<>>}
        BY DEF Keys
      <4>3. ASSUME NEW p \in Keys, Under(k, p) PROVE p[1] = ss
        BY <4>1, <4>2, <4>3, KeyUnder
      <4> QED
        BY <1>2, <4>3, EnvelopeKeys
    <3> QED
      BY <1>1, <2>1, <3>1
  <2>4. SubMap(m, k) = SubMap(r.own, k)
    <3>1. PICK ps : ps = {p \in DOMAIN m : Under(k, p)}
      OBVIOUS
    <3>2. ps = {p \in DOMAIN r.own : Under(k, p)}
      BY <2>3, <3>1
    <3>3. PICK Q : Q = {SubSeq(p, Len(k) + 1, Len(p)) : p \in ps}
      OBVIOUS
    <3>4. SubMap(m, k) = [q \in Q |-> m[k \o q]] /\ SubMap(r.own, k) = [q \in Q |-> r.own[k \o q]]
      BY <3>1, <3>2, <3>3 DEF SubMap
    <3>5. ASSUME NEW q \in Q PROVE m[k \o q] = r.own[k \o q]
      <4>1. PICK p \in ps : q = SubSeq(p, Len(k) + 1, Len(p))
        BY <3>3
      <4>2. k = <<ss>> /\ Len(k) + 1 = 2
        BY <1>2, <2>2 DEF Top
      <4>3. PICK S : S = Names /\ Keys = Seq(S) \ {<<>>}
        BY DEF Keys
      <4>4. p \in DOMAIN r.own /\ p \in Seq(S) /\ p # <<>> /\ Under(<<ss>>, p)
        BY <1>1, <3>2, <4>2, <4>3
      <4>5. p = k \o q
        BY <4>1, <4>2, <4>3, <4>4, KeyUnder
      <4> QED
        BY <1>1, <4>4, <4>5
    <3> QED
      BY <3>4, <3>5
  <2>5. NewResponseDynMap(m).code = NewResponseDynMap(r.own).code
    BY <2>2, <2>4 DEF NewResponseDynMap
  <2> QED
    BY <1>15, <1>17, <2>5
<1> QED
  BY <1>16, <1>17
-----------------------------------------------------------------------------
Said     == Says \cup {Error(<<"404">>), Error(<<"400">>)}
Messages == UNION {{MarshalResponse(id, r) : r \in Said} : id \in Calls \cup {""}}

(* What a call is given of a response.                                     *)
ReadOf(m) ==
  LET r == NewResponseDynMap(m) IN [code |-> r.code, status |-> r.status, own |-> r.own]

(* The txn id of a call: its object has it as long as the object is used.  *)
IdOf(c) == packet[api[c].object].id

WebTypes ==
  /\ DOMAIN packet = Objects /\ \A o \in Objects : packet[o].id \in Calls \cup {""}
  /\ api \in [Calls -> [at : {"idle", "waiting", "answered", "failed", "timedOut"},
                        object : Objects \cup {"none"}, via : {"none", "http", "json"}]]
  /\ DOMAIN onWire = Calls /\ DOMAIN received = Calls
  /\ running \in [Calls -> {"none", "runs", "returned"}]
  /\ said \in [Calls -> Seq(Said)]
  /\ jsonDown \in Seq(Messages)
  /\ heard \in [Calls -> Seq({ReadOf(m) : m \in Messages})]
  /\ sync \subseteq Calls /\ stuck \in BOOLEAN

(* A call goes one way, and what is under way of it has its id.            *)
OneWay(c) ==
  /\ c \in sync => api[c].via = "json"
  /\ api[c].at = "timedOut" => c \in sync
  /\ api[c].at = "idle" => /\ api[c].via = "none" /\ onWire[c].kind = "none"
                           /\ running[c] = "none" /\ heard[c] = <<>>
  /\ api[c].at # "idle" => api[c].object \in Objects /\ api[c].via \in {"http", "json"}
  /\ onWire[c].kind # "none" => onWire[c].kind = api[c].via /\ running[c] = "none"
  /\ running[c] = "none" => said[c] = <<>>
  /\ onWire[c].kind = "json" => onWire[c].id = IdOf(c)
  /\ running[c] # "none" => received[c].id = IF api[c].via = "json" THEN IdOf(c) ELSE ""
  /\ api[c].via = "json" => api[c].at # "failed" /\ IdOf(c) # ""

(* Over http the answer comes when the handler is through; a synchronous  *)
(* call is given one response at most.                                     *)
OneAnswer(c) ==
  /\ api[c].via = "http" =>
       IF api[c].at = "answered"
       THEN /\ running[c] = "returned" /\ Len(said[c]) = 1 /\ Len(heard[c]) = 1
            /\ heard[c][1] = ReadOf(MarshalResponse(received[c].id, said[c][1]))
       ELSE heard[c] = <<>>
  /\ c \in sync => IF api[c].at = "answered" THEN Len(heard[c]) = 1 ELSE heard[c] = <<>>

(* Objects have ids of their own, and one call at a time.                  *)
IdsApart ==
  /\ \A o \in Objects : packet[o].id # "" =>
       /\ packet[o].id \in Calls /\ api[packet[o].id].at # "idle"
       /\ api[packet[o].id].object = o
  /\ \A c, d \in Calls :
       api[c].at = "waiting" /\ api[d].at = "waiting" /\ api[c].object = api[d].object => c = d

(* The txn id of a call that waits leads to it once the loop has taken its *)
(* request; what is in the map leads to a call that waits or was left, and *)
(* only such a call stops the loop.                                        *)
Waits(c)    == api[c].at = "waiting" /\ api[c].via = "json"
Leads(c)    == Waits(c) \/ Left(c)
TakenOut(c) == onWire[c].kind # "none" \/ running[c] # "none"
Expects(c)  == Waits(c) /\ TakenOut(c)
RoutesLead ==
  /\ \A id \in DOMAIN routes : \E c \in Calls : c = routes[id] /\ Leads(c) /\ IdOf(c) = id
  /\ \A c \in Calls : Expects(c) => IdOf(c) \in DOMAIN routes /\ routes[IdOf(c)] = c
  /\ stuck => \E c \in Calls : Left(c)

WebFacts ==
  /\ WebTypes /\ (\A c \in Calls : OneWay(c) /\ OneAnswer(c))
  /\ IdsApart /\ RoutesLead

(* What is under way on the JSON connection: the response at k is the      *)
(* nth[k]-th of the call who[k], and of each call the first n[c] have been *)
(* read.                                                                   *)
Pipe(n, who, nth) ==
  /\ n \in [Calls -> Nat] /\ who \in Seq(Calls) /\ nth \in Seq(Nat)
  /\ Len(who) = Len(jsonDown) /\ Len(nth) = Len(jsonDown)
  /\ \A k \in 1..Len(who) :
       /\ api[who[k]].via = "json"
       /\ n[who[k]] < nth[k] /\ nth[k] <= Len(said[who[k]])
       /\ jsonDown[k] = MarshalResponse(received[who[k]].id, said[who[k]][nth[k]])
  /\ \A k, l \in 1..Len(who) : k < l /\ who[k] = who[l] => nth[k] < nth[l]
  /\ \A c \in Calls : n[c] <= Len(said[c])
  /\ \A c \in Calls : api[c].via = "json" =>
       \A i \in 1..Len(said[c]) : i <= n[c] \/ \E k \in 1..Len(who) : who[k] = c /\ nth[k] = i

(* A call has been given the first of what its handler wrote, all that was *)
(* read as long as it waits; and of an earlier call with its object, which *)
(* has the same id, nothing is under way.                                  *)
GivenOwn(c, n) ==
  /\ Len(heard[c]) <= n[c]
  /\ \A i \in 1..Len(heard[c]) :
       /\ heard[c][i] = ReadOf(MarshalResponse(received[c].id, said[c][i]))
       /\ c \notin sync => (Completes(said[c][i]) <=> api[c].at = "answered" /\ i = Len(heard[c]))
  /\ api[c].at = "waiting" => Len(heard[c]) = n[c]
  /\ api[c].at = "answered" => heard[c] # <<>>

EarlierOver(c, n) ==
  api[c].at = "waiting" =>
    \A d \in Calls \ {c} : api[d].object = api[c].object /\ api[d].via = "json" =>
      \E i \in 1..n[d] : Completes(said[d][i])

Told(n) ==
  \A c \in Calls : api[c].via = "json" /\ Undisturbed(c) => GivenOwn(c, n) /\ EarlierOver(c, n)

(* What a call is given was written for a call with the same object.       *)
Echoes ==
  NoneHides =>
    \A c \in Calls : \A i \in DOMAIN heard[c] :
      \E d \in Calls : /\ api[d].object = api[c].object
                       /\ \E k \in DOMAIN said[d] : IsGiven(heard[c][i], said[d][k])

WebInv == WebFacts /\ Echoes /\ \E n, who, nth : Pipe(n, who, nth) /\ Told(n)

(* What is written is a message, whatever call it is for.                  *)
LEMMA MessageIs ==
  ASSUME NEW id \in Calls \cup {""}, NEW r \in Said PROVE MarshalResponse(id, r) \in Messages
<1>1. PICK M : M = {MarshalResponse(id, x) : x \in Said}
  OBVIOUS
<1>2. MarshalResponse(id, r) \in M
  BY <1>1
<1>3. M \in {{MarshalResponse(i, x) : x \in Said} : i \in Calls \cup {""}}
  BY <1>1
<1> QED
  BY <1>2, <1>3 DEF Messages

(* The keys that a handler may put in its response are keys.               *)
LEMMA SaidKeys == ASSUME NEW r \in Said PROVE OwnKeys(r)
<1>1. CASE r \in Says
  <2>1. \A p \in Seq(Seq(STRING)) : p \in Seq(Names)
    BY DEF Names
  <2> QED
    BY <1>1, <2>1, WebApiAssumption DEF OwnKeys, Keys
<1>2. CASE r \notin Says
  <2>1. r.own = EmptyMap
    BY <1>2 DEF Said, Error
  <2>2. DOMAIN EmptyMap = {} /\ EmptyMap = [p \in {} |-> EmptyMap[p]]
    BY DEF EmptyMap
  <2> QED
    BY <2>1, <2>2 DEF OwnKeys
<1> QED
  BY <1>1, <1>2

(* What is read of a response that does not hide the txn.                  *)
LEMMA ReadSaid ==
  ASSUME NEW id, NEW r \in Said, ~Hides("strest", r), NEW m, m = MarshalResponse(id, r)
  PROVE  /\ NewResponseDynMap(m).id = id /\ NewResponseDynMap(m).status = r.status
         /\ ReadOf(m).status = r.status
         /\ ReadOf(m).code = IF Hides("status", r) THEN NewResponseDynMap(r.own).code ELSE r.code
         /\ ~Hides("status", r) => ReadOf(m).own = r.own
<1>1. OwnKeys(r)
  BY SaidKeys
<1>2. \A word : Hides(word, r) <=> HidesName(word, r)
  BY DEF Hides, HidesName
<1>3. /\ NewResponseDynMap(m).id = id /\ NewResponseDynMap(m).status = r.status
      /\ NewResponseDynMap(m).code = IF HidesName("status", r) THEN NewResponseDynMap(r.own).code
                                     ELSE r.code
      /\ ~HidesName("status", r) => NewResponseDynMap(m).own = r.own
  BY <1>1, <1>2, ResponseRead
<1>4. PICK x : x = NewResponseDynMap(m)
  OBVIOUS
<1>5. ReadOf(m) = [code |-> x.code, status |-> x.status, own |-> x.own]
  BY <1>4 DEF ReadOf
<1>6. ReadOf(m).code = x.code /\ ReadOf(m).status = x.status /\ ReadOf(m).own = x.own
  BY <1>5
<1>7. PICK y : y = NewResponseDynMap(r.own).code
  OBVIOUS
<1> QED
  BY <1>2, <1>3, <1>4, <1>6, <1>7

LEMMA ReadGiven ==
  ASSUME NEW id, NEW r \in Said, ~Hides("strest", r), NEW x, x = ReadOf(MarshalResponse(id, r))
  PROVE  IsGiven(x, r)
<1>1. PICK m : m = MarshalResponse(id, r)
  OBVIOUS
<1>2. /\ x.status = r.status
      /\ x.code = IF Hides("status", r) THEN NewResponseDynMap(r.own).code ELSE r.code
      /\ ~Hides("status", r) => x.own = r.own
  BY <1>1, ReadSaid
<1>3. PICK y : y = NewResponseDynMap(r.own).code
  OBVIOUS
<1> QED
  BY <1>2, <1>3 DEF IsGiven

(* Before the first call.                                                  *)
LEMMA WebInitially == ASSUME WebInit PROVE WebInv
<1>1. PICK n : n = [c \in Calls |-> 0]
  OBVIOUS
<1>2. jsonDown = <<>> /\ <<>> \in Seq(Calls) /\ <<>> \in Seq(Nat)
      /\ Len(<<>>) = 0
  BY EmptySeq DEF WebInit
<1>3. \A c \in Calls : /\ api[c] = [at |-> "idle", object |-> "none", via |-> "none"]
                       /\ onWire[c].kind = "none" /\ running[c] = "none"
                       /\ said[c] = <<>> /\ heard[c] = <<>>
  BY DEF WebInit, Nowhere
<1>4. WebTypes
  <2>1. DOMAIN packet = Objects /\ \A o \in Objects : packet[o].id = ""
    BY DEF WebInit
  <2>2. api \in [Calls -> [at : {"idle", "waiting", "answered", "failed", "timedOut"},
                          object : Objects \cup {"none"}, via : {"none", "http", "json"}]]
    BY DEF WebInit
  <2>3. DOMAIN onWire = Calls /\ DOMAIN received = Calls
    BY DEF WebInit
  <2>4. running \in [Calls -> {"none", "runs", "returned"}]
    BY DEF WebInit
  <2>5. \A T : <<>> \in Seq(T)
    OBVIOUS
  <2>6. said \in [Calls -> Seq(Said)] /\ heard \in [Calls -> Seq({ReadOf(m) : m \in Messages})]
    BY <2>5 DEF WebInit
  <2>7. jsonDown \in Seq(Messages)
    BY <2>5 DEF WebInit
  <2>8. sync \subseteq Calls /\ stuck \in BOOLEAN
    BY DEF WebInit
  <2> QED
    BY <2>1, <2>2, <2>3, <2>4, <2>6, <2>7, <2>8 DEF WebTypes
<1>5. ASSUME NEW c \in Calls PROVE OneWay(c) /\ OneAnswer(c)
  <2>1. /\ api[c].at = "idle" /\ api[c].via = "none" /\ onWire[c].kind = "none"
        /\ running[c] = "none" /\ said[c] = <<>> /\ heard[c] = <<>>
    BY <1>3
  <2>2. c \notin sync
    BY DEF WebInit
  <2> QED
    BY <2>1, <2>2 DEF OneWay, OneAnswer
<1>6. IdsApart /\ RoutesLead
  <2>1. DOMAIN routes = {}
    BY DEF WebInit
  <2>2. \A o \in Objects : packet[o].id = ""
    BY DEF WebInit
  <2>3. \A c \in Calls : api[c].at # "waiting"
    BY <1>3
  <2>4. ~stuck
    BY DEF WebInit
  <2> QED
    BY <2>1, <2>2, <2>3, <2>4 DEF IdsApart, RoutesLead, Expects, Waits
<1>7. Pipe(n, <<>>, <<>>)
  <2>1. \A c \in Calls : n[c] = 0 /\ Len(said[c]) = 0 /\ api[c].via # "json"
    BY <1>1, <1>2, <1>3
  <2>2. n \in [Calls -> Nat]
    BY <1>1
  <2> QED
    BY <1>2, <2>1, <2>2 DEF Pipe
<1>8. Told(n)
  BY <1>3 DEF Told
<1>9. Echoes
  BY <1>3, EmptySeq DEF Echoes
<1> QED
  BY <1>4, <1>5, <1>6, <1>7, <1>8, <1>9 DEF WebInv, WebFacts
-----------------------------------------------------------------------------
(* What keeps the routes right.                                            *)
LEMMA RoutesStay ==
  ASSUME RoutesLead, UNCHANGED <<routes, stuck>>,
         \A c \in Calls : /\ Leads(c) => Leads(c)' /\ IdOf(c)' = IdOf(c)
                          /\ Expects(c)' => Expects(c) /\ IdOf(c)' = IdOf(c),
         \A c \in Calls : Left(c) => Left(c)'
  PROVE  RoutesLead'
<1>1. ASSUME NEW id \in DOMAIN routes
      PROVE  \E c \in Calls : c = routes[id] /\ Leads(c)' /\ IdOf(c)' = id
  <2>1. PICK c \in Calls : c = routes[id] /\ Leads(c) /\ IdOf(c) = id
    BY DEF RoutesLead
  <2> QED
    BY <2>1
<1>2. ASSUME NEW c \in Calls, Expects(c)'
      PROVE  IdOf(c)' \in DOMAIN routes /\ routes[IdOf(c)'] = c
  <2>1. Expects(c) /\ IdOf(c)' = IdOf(c)
    BY <1>2
  <2> QED
    BY <2>1 DEF RoutesLead
<1>3. stuck => \E c \in Calls : Left(c)'
  BY DEF RoutesLead
<1> QED
  BY <1>1, <1>2, <1>3 DEF RoutesLead

(* Handlers have only added to what they have written.                     *)
SaidMore ==
  \A d \in Calls : /\ said[d] \in Seq(Said) /\ said'[d] \in Seq(Said)
                   /\ Len(said[d]) <= Len(said'[d])
                   /\ \A i \in 1..Len(said[d]) : said'[d][i] = said[d][i]

LEMMA SaidBefore ==
  ASSUME SaidMore, NEW d \in Calls, NEW i \in DOMAIN said[d]
  PROVE  i \in DOMAIN said'[d] /\ said'[d][i] = said[d][i]
<1>1. PICK k \in Nat, l \in Nat : k = Len(said[d]) /\ l = Len(said'[d])
  BY LenProperties DEF SaidMore
<1>2. DOMAIN said[d] = 1..k /\ DOMAIN said'[d] = 1..l /\ k <= l
  BY <1>1, LenProperties DEF SaidMore
<1>3. i \in 1..k /\ i \in 1..l
  BY <1>2
<1> QED
  BY <1>1, <1>2, <1>3 DEF SaidMore

LEMMA NoneHid == ASSUME SaidMore, NoneHides' PROVE NoneHides
<1>1. ASSUME NEW d \in Calls, NEW i \in DOMAIN said[d] PROVE ~Hides("strest", said[d][i])
  <2>1. i \in DOMAIN said'[d] /\ said'[d][i] = said[d][i]
    BY SaidBefore
  <2> QED
    BY <2>1 DEF NoneHides, Hides
<1> QED
  BY <1>1 DEF NoneHides

(* What was given stays so, and what is given now was written.             *)
LEMMA EchoesStay ==
  ASSUME Echoes, SaidMore,
         \A c \in Calls : heard[c] # <<>> \/ said[c] # <<>> => api'[c].object = api[c].object,
         \A c \in Calls : heard[c] \in Seq({ReadOf(m) : m \in Messages}),
         NoneHides' =>
           \A c \in Calls : \A i \in DOMAIN heard'[c] :
             \/ i \in DOMAIN heard[c] /\ heard'[c][i] = heard[c][i]
             \/ \E d \in Calls : /\ api'[d].object = api'[c].object
                               /\ \E k \in DOMAIN said'[d] : IsGiven(heard'[c][i], said'[d][k])
  PROVE  Echoes'
<1>1. ASSUME NoneHides', NEW c \in Calls, NEW i \in DOMAIN heard'[c],
             i \in DOMAIN heard[c], heard'[c][i] = heard[c][i]
      PROVE  \E d \in Calls : /\ api'[d].object = api'[c].object
                              /\ \E k \in DOMAIN said'[d] : IsGiven(heard'[c][i], said'[d][k])
  <2>1. PICK d \in Calls : /\ api[d].object = api[c].object
                           /\ \E k \in DOMAIN said[d] : IsGiven(heard[c][i], said[d][k])
    BY <1>1, NoneHid DEF Echoes
  <2>2. PICK k \in DOMAIN said[d] : IsGiven(heard[c][i], said[d][k])
    BY <2>1
  <2>3. k \in DOMAIN said'[d] /\ said'[d][k] = said[d][k]
    BY SaidBefore
  <2>4. heard[c] # <<>> /\ said[d] # <<>>
    BY <1>1, EmptySeq, LenProperties DEF SaidMore
  <2>5. api'[c].object = api[c].object /\ api'[d].object = api[d].object
    BY <2>4
  <2> QED
    BY <1>1, <2>1, <2>2, <2>3, <2>5
<1>2. ASSUME NoneHides', NEW c \in Calls, NEW i \in DOMAIN heard'[c]
      PROVE  \E d \in Calls : /\ api'[d].object = api'[c].object
                              /\ \E k \in DOMAIN said'[d] : IsGiven(heard'[c][i], said'[d][k])
  BY <1>1, <1>2
<1> QED
  BY <1>2 DEF Echoes, IsGiven, Hides
-----------------------------------------------------------------------------
(* What each step of the server's goroutines does to the state.            *)
LEMMA ArriveIs ==
  ASSUME WebFacts, NEW c \in Calls, HttpArrives(c) \/ JsonArrives(c)
  PROVE  /\ UNCHANGED <<packet, api, said, jsonDown, routes, stuck, heard, sync>>
         /\ running[c] = "none" /\ api[c].at # "idle" /\ onWire[c].kind # "none"
         /\ running' = [running EXCEPT ![c] = "runs"]
         /\ onWire' = [onWire EXCEPT ![c] = Nowhere]
         /\ DOMAIN received' = Calls
         /\ \A d \in Calls \ {c} : received'[d] = received[d]
         /\ received'[c].id = IF api[c].via = "json" THEN IdOf(c) ELSE ""
<1>1. OneWay(c) /\ DOMAIN received = Calls /\ DOMAIN onWire = Calls
  BY DEF WebFacts, WebTypes
<1>2. CASE HttpArrives(c)
  <2>1. PICK request : request.id = "" /\ Arrives(c, request)
    BY <1>2 DEF HttpArrives
  <2>2. onWire[c].kind = "http"
    BY <1>2 DEF HttpArrives
  <2>3. api[c].via = "http" /\ running[c] = "none" /\ api[c].at # "idle"
    BY <1>1, <2>2 DEF OneWay
  <2> QED
    BY <1>1, <2>1, <2>2, <2>3 DEF Arrives, loopVars
<1>3. CASE JsonArrives(c)
  <2>1. PICK request : request.id = onWire[c].id /\ Arrives(c, request)
    BY <1>3 DEF JsonArrives
  <2>2. onWire[c].kind = "json"
    BY <1>3 DEF JsonArrives
  <2>3. api[c].via = "json" /\ running[c] = "none" /\ api[c].at # "idle"
        /\ onWire[c].id = IdOf(c)
    BY <1>1, <2>2 DEF OneWay
  <2> QED
    BY <1>1, <2>1, <2>2, <2>3 DEF Arrives, loopVars
<1> QED
  BY <1>2, <1>3

(* A handler, or the server for it, writes one response of those it can.   *)
LEMMA WriteIs ==
  ASSUME WebFacts, NEW c \in Calls, HandlerWrites(c) \/ Refuse(c)
  PROVE  \E r \in Said :
           /\ UNCHANGED <<packet, api, onWire, received, routes, stuck, heard, sync>>
           /\ running[c] = "runs" /\ said' = [said EXCEPT ![c] = Append(@, r)]
           /\ running' = running \/ running' = [running EXCEPT ![c] = "returned"]
           /\ jsonDown' = IF api[c].via = "http" THEN jsonDown
                          ELSE Append(jsonDown, MarshalResponse(received[c].id, r))
<1>1. CASE HandlerWrites(c)
  <2>1. PICK r \in Says : Write(c, r)
    BY <1>1 DEF HandlerWrites
  <2>2. running[c] = "runs" /\ UNCHANGED <<packet, api, onWire, received, running, routes, stuck, heard, sync>>
    BY <1>1 DEF HandlerWrites
  <2> QED
    BY <2>1, <2>2 DEF Write, Said
<1>2. CASE Refuse(c)
  <2>1. PICK r \in Said : Write(c, r)
    BY <1>2 DEF Refuse, Said
  <2>2. running[c] = "runs" /\ running' = [running EXCEPT ![c] = "returned"]
        /\ UNCHANGED <<packet, api, onWire, received, routes, stuck, heard, sync>>
    BY <1>2 DEF Refuse
  <2> QED
    BY <2>1, <2>2 DEF Write
<1> QED
  BY <1>1, <1>2

(* What was undisturbed after a step was so before: handlers only add to   *)
(* what they have written, and a call that was left stays so.              *)
LEMMA StillUndisturbed ==
  ASSUME NEW c \in Calls, Undisturbed(c)', SaidMore,
         \A d \in Calls : Left(d) => Left(d)',
         \A d \in Calls \ {c} : \/ said[d] = <<>> /\ ~Left(d)
                                \/ api[d].object = api[c].object =>
                                     api'[d].object = api'[c].object
  PROVE  Undisturbed(c)
<1>1. NoneHides
  BY NoneHid DEF Undisturbed
<1>2. ASSUME NEW d \in Calls \ {c}, api[d].object = api[c].object, Left(d) PROVE FALSE
  <2>1. api'[d].object = api'[c].object /\ Left(d)'
    BY <1>2
  <2> QED
    BY <2>1 DEF Undisturbed
<1>3. ASSUME NEW d \in Calls \ {c}, api[d].object = api[c].object, Chatty(d) PROVE FALSE
  <2>1. PICK i \in DOMAIN said[d] : i < Len(said[d]) /\ Completes(said[d][i])
    BY <1>3 DEF Chatty
  <2>0. /\ Len(said[d]) \in Nat /\ Len(said'[d]) \in Nat /\ Len(said[d]) <= Len(said'[d])
        /\ DOMAIN said[d] = 1..Len(said[d])
    BY LenProperties DEF SaidMore
  <2>2. said[d] # <<>>
    BY <2>0, <2>1, EmptySeq
  <2>3. ~Chatty(d)'
    BY <1>3, <2>2 DEF Undisturbed
  <2>4. i \in DOMAIN said'[d] /\ said'[d][i] = said[d][i] /\ i < Len(said'[d])
    BY <2>0, <2>1, SaidBefore
  <2>5. Completes(said'[d][i])
    BY <2>1, <2>4
  <2> QED
    BY <2>3, <2>4, <2>5 DEF Chatty, Completes
<1> QED
  BY <1>1, <1>2, <1>3 DEF Undisturbed
-----------------------------------------------------------------------------
(* A call is made: its object gets an id if it has none, and if the loop   *)
(* takes its request its id leads to it.                                   *)
Made(c, o, via) ==
  /\ api[c].at = "idle" /\ ~InUse(o)
  /\ api' = [api EXCEPT ![c] = [at |-> "waiting", object |-> o, via |-> via]]
  /\ UNCHANGED <<received, running, said, jsonDown, stuck, heard>>
  /\ sync' = sync \/ (sync' = sync \cup {c} /\ via = "json")
  /\ DOMAIN onWire' = Calls /\ \A d \in Calls \ {c} : onWire'[d] = onWire[d]
  /\ DOMAIN packet' = Objects
  /\ \A p \in Objects :
       packet'[p].id = IF via = "json" /\ p = o /\ packet[p].id = "" THEN c ELSE packet[p].id
  /\ \/ via = "http" /\ onWire'[c].kind = "http" /\ routes' = routes
     \/ via = "json" /\ onWire'[c] = onWire[c] /\ routes' = routes
     \/ /\ via = "json" /\ onWire'[c].kind = "json" /\ onWire'[c].id = packet'[o].id
        /\ routes' = [id \in DOMAIN routes \cup {packet'[o].id} |->
                        IF id = packet'[o].id THEN c ELSE routes[id]]

(* Both ways to make a call do so.                                         *)
LEMMA CallIs ==
  ASSUME WebFacts, NEW c \in Calls, NEW o \in Objects,
         HttpCall(c, o) \/ \E shard \in Shards, s \in BOOLEAN : JsonCall(c, o, shard, s)
  PROVE  Made(c, o, "http") \/ Made(c, o, "json")
<1>1. DOMAIN packet = Objects /\ DOMAIN onWire = Calls
  BY DEF WebFacts, WebTypes
<1>2. CASE HttpCall(c, o)
  <2>1. HttpRequest(o).kind = "http"
    BY DEF HttpRequest
  <2>2. PICK request : request.kind = "http" /\ onWire' = [onWire EXCEPT ![c] = request]
    BY <1>2, <2>1 DEF HttpCall
  <2> QED
    BY <1>1, <1>2, <2>2 DEF HttpCall, Starts, Made, serverVars, loopVars
<1>3. ASSUME NEW shard \in Shards, NEW s \in BOOLEAN, JsonCall(c, o, shard, s)
      PROVE  Made(c, o, "json")
  <2>0. JsonStarts(c, o, shard, s)
    BY <1>3 DEF JsonCall
  <2>1. PICK params : packet' = [packet EXCEPT ![o] = [id |-> IF @.id = "" THEN c ELSE @.id,
                                                       shard |-> shard, params |-> params]]
    BY <2>0 DEF JsonStarts
  <2>2. \A p \in Objects : packet'[p].id = IF p = o /\ packet[p].id = "" THEN c ELSE packet[p].id
    BY <1>1, <2>1
  <2>3. DOMAIN packet' = Objects
    BY <1>1, <2>1
  <2>4. /\ UNCHANGED <<received, running, said, jsonDown, stuck, heard>> /\ Starts(c, o, "json")
        /\ sync' = sync \/ sync' = sync \cup {c}
    BY <2>0 DEF JsonStarts, serverVars
  <2>5. CASE stuck
    <3>1. onWire' = onWire /\ routes' = routes
      BY <1>3, <2>5 DEF JsonCall
    <3> HIDE DEF InUse
    <3> QED
      BY <1>1, <2>2, <2>3, <2>4, <3>1 DEF Starts, Made
  <2>6. CASE ~stuck
    <3>1. PICK request : /\ request.kind = "json" /\ request.id = packet'[o].id
                         /\ onWire' = [onWire EXCEPT ![c] = request]
      BY <1>3, <2>6 DEF JsonCall
    <3>2. /\ DOMAIN onWire' = Calls /\ onWire'[c].kind = "json" /\ onWire'[c].id = packet'[o].id
          /\ \A d \in Calls \ {c} : onWire'[d] = onWire[d]
      BY <1>1, <3>1
    <3>3. routes' = [id \in DOMAIN routes \cup {packet'[o].id} |->
                      IF id = packet'[o].id THEN c ELSE routes[id]]
      BY <1>3, <2>6 DEF JsonCall
    <3> HIDE DEF InUse
    <3> QED
      BY <2>2, <2>3, <2>4, <3>2, <3>3 DEF Starts, Made
  <2> QED
    BY <2>5, <2>6
<1> QED
  BY <1>2, <1>3

(* A new call keeps the types, ids and routes right.                       *)
LEMMA MadeFacts ==
  ASSUME WebFacts, NEW c \in Calls, NEW o \in Objects, NEW via \in {"http", "json"},
         Made(c, o, via)
  PROVE  /\ WebFacts'
         /\ \A d \in Calls \ {c} : api'[d] = api[d]
         /\ api'[c] = [at |-> "waiting", object |-> o, via |-> via]
<1>1. /\ WebTypes /\ IdsApart /\ RoutesLead /\ "" \notin Calls
      /\ \A d \in Calls : OneWay(d) /\ OneAnswer(d)
  BY WebApiAssumption DEF WebFacts
<1>2. /\ \A d \in Calls \ {c} : api'[d] = api[d]
      /\ api'[c] = [at |-> "waiting", object |-> o, via |-> via]
      /\ api'[c].at = "waiting" /\ api'[c].object = o /\ api'[c].via = via
  BY <1>1 DEF Made, WebTypes
<1>3. WebTypes'
  <2>1. \A p \in Objects : packet'[p].id \in Calls \cup {""}
    BY <1>1 DEF Made, WebTypes
  <2>2. api' \in [Calls -> [at : {"idle", "waiting", "answered", "failed", "timedOut"},
                           object : Objects \cup {"none"}, via : {"none", "http", "json"}]]
    BY <1>1 DEF Made, WebTypes
  <2>3. sync' \subseteq Calls /\ stuck' \in BOOLEAN
    BY <1>1 DEF Made, WebTypes
  <2> QED
    BY <1>1, <2>1, <2>2, <2>3 DEF Made, WebTypes
<1>m. /\ api[c].at = "idle" /\ \A p \in Objects :
           packet'[p].id = IF via = "json" /\ p = o /\ packet[p].id = "" THEN c ELSE packet[p].id
  BY DEF Made
<1>4. ASSUME NEW d \in Calls \ {c}, api[d].at # "idle"
      PROVE  /\ api[d].object \in Objects
             /\ IdOf(d) # "" => IdOf(d)' = IdOf(d)
  <2>1. PICK p : p = api[d].object
    OBVIOUS
  <2>2. p \in Objects
    BY <1>1, <1>4, <2>1 DEF OneWay
  <2>3. IdOf(d) = packet[p].id /\ IdOf(d)' = packet'[p].id
    BY <1>2, <2>1 DEF IdOf
  <2> QED
    BY <1>m, <2>1, <2>2, <2>3
<1>5. IdOf(c)' = packet'[o].id /\ (via = "json" => IdOf(c)' # "")
  <2>1. IdOf(c)' = packet'[o].id
    BY <1>2 DEF IdOf
  <2>2. c # ""
    BY <1>1
  <2> QED
    BY <1>m, <2>1, <2>2
<1>s. /\ c \notin sync /\ (c \in sync' => via = "json")
      /\ \A d \in Calls \ {c} : d \in sync' <=> d \in sync
  <2>1. OneWay(c) /\ api[c].at = "idle"
    BY <1>1, <1>m
  <2> QED
    BY <2>1 DEF OneWay, Made
<1>6. ASSUME NEW d \in Calls PROVE OneWay(d)' /\ OneAnswer(d)'
  <2>1. CASE d = c
    <3>1. running'[c] = "none" /\ said'[c] = <<>> /\ heard'[c] = <<>> /\ onWire[c].kind = "none"
      BY <1>1 DEF Made, OneWay
    <3>2. \/ onWire'[c].kind = via /\ (via = "json" => onWire'[c].id = IdOf(c)')
          \/ onWire'[c].kind = "none"
      BY <1>5, <3>1 DEF Made
    <3> QED
      BY <1>2, <1>5, <1>s, <2>1, <3>1, <3>2 DEF OneWay, OneAnswer
  <2>2. CASE d # c
    <3>1. /\ api'[d] = api[d] /\ onWire'[d] = onWire[d] /\ running'[d] = running[d]
          /\ said'[d] = said[d] /\ heard'[d] = heard[d] /\ received'[d] = received[d]
          /\ (d \in sync' <=> d \in sync)
      BY <1>2, <1>s, <2>2 DEF Made
    <3>2. OneWay(d) /\ OneAnswer(d)
      BY <1>1
    <3>3. api[d].via = "json" => IdOf(d)' = IdOf(d)
      BY <1>4, <2>2, <3>2 DEF OneWay
    <3>4. OneWay(d)'
      BY <3>1, <3>2, <3>3 DEF OneWay
    <3>5. OneAnswer(d)'
      BY <3>1, <3>2 DEF OneAnswer
    <3> QED
      BY <3>4, <3>5
  <2> QED
    BY <2>1, <2>2
<1>7. IdsApart'
  <2>1. ASSUME NEW p \in Objects, packet'[p].id # ""
        PROVE  /\ packet'[p].id \in Calls /\ api'[packet'[p].id].at # "idle"
               /\ api'[packet'[p].id].object = p
    <3>1. CASE packet'[p].id = packet[p].id
      <4>0. PICK id : id = packet[p].id
        OBVIOUS
      <4>1. id \in Calls /\ api[id].at # "idle" /\ api[id].object = p
        BY <1>1, <2>1, <3>1, <4>0 DEF IdsApart
      <4>2. id # c
        BY <1>m, <4>1
      <4>3. api'[id] = api[id]
        BY <1>2, <4>1, <4>2
      <4> QED
        BY <3>1, <4>0, <4>1, <4>3
    <3>2. CASE packet'[p].id # packet[p].id
      <4>1. packet'[p].id = c /\ p = o
        BY <1>m, <3>2
      <4> QED
        BY <1>2, <4>1
    <3> QED
      BY <3>1, <3>2
  <2>2. ASSUME NEW d \in Calls, NEW e \in Calls, api'[d].at = "waiting", api'[e].at = "waiting",
               api'[d].object = api'[e].object
        PROVE  d = e
    <3>1. \A x \in Calls : api[x].at = "waiting" => api[x].object # o
      BY DEF Made, InUse
    <3>2. ASSUME NEW x \in Calls, x # c, api'[x].at = "waiting"
          PROVE  api[x] = api'[x] /\ api[x].at = "waiting" /\ api'[x].object # o
      BY <1>2, <3>1, <3>2
    <3>3. (d = c <=> e = c)
      BY <1>2, <2>2, <3>2
    <3>4. CASE d # c
      <4>1. /\ api[d].at = "waiting" /\ api[e].at = "waiting"
            /\ api[d].object = api[e].object
        BY <2>2, <3>2, <3>3, <3>4
      <4> QED
        BY <1>1, <4>1 DEF IdsApart
    <3> QED
      BY <3>3, <3>4
  <2> QED
    BY <2>1, <2>2 DEF IdsApart
<1>8. RoutesLead'
  <2>0. \A x \in Calls : api[x].at = "waiting" => api[x].object # o
    BY DEF Made, InUse
  <2>1. ASSUME NEW d \in Calls \ {c}
        PROVE  /\ Waits(d)' <=> Waits(d)
               /\ Left(d)' <=> Left(d)
               /\ Expects(d)' <=> Expects(d)
               /\ Leads(d) => IdOf(d)' = IdOf(d) /\ IdOf(d) # ""
    <3>1. /\ api'[d] = api[d] /\ (d \in sync' <=> d \in sync) /\ heard'[d] = heard[d]
          /\ onWire'[d] = onWire[d] /\ running'[d] = running[d]
      BY <1>2, <1>s DEF Made
    <3>2. Waits(d)' <=> Waits(d)
      BY <3>1 DEF Waits
    <3>3. Left(d)' <=> Left(d)
      BY <3>1 DEF Left, Completes
    <3>4. Expects(d)' <=> Expects(d)
      BY <3>1, <3>2 DEF Expects, TakenOut
    <3>5. ASSUME Leads(d) PROVE IdOf(d)' = IdOf(d) /\ IdOf(d) # ""
      <4>1. OneWay(d)
        BY <1>1
      <4>2. api[d].via = "json" /\ api[d].at # "idle"
        BY <3>5, <4>1 DEF Leads, Waits, Left, OneWay
      <4>3. IdOf(d) # ""
        BY <4>1, <4>2 DEF OneWay
      <4> QED
        BY <1>4, <4>2, <4>3
    <3> QED
      BY <3>2, <3>3, <3>4, <3>5
  <2>2. ~Waits(c) /\ ~Left(c) /\ (Waits(c)' <=> via = "json")
    BY <1>2, <1>m, <1>s DEF Waits, Left
  <2>3. stuck' => \E d \in Calls : Left(d)'
    <3>1. stuck' = stuck
      BY DEF Made
    <3> QED
      BY <1>1, <2>1, <2>2, <3>1 DEF RoutesLead
  <2>4. ASSUME NEW id \in DOMAIN routes
        PROVE  \E d \in Calls : d = routes[id] /\ Leads(d)' /\ IdOf(d)' = id
    <3>1. PICK d \in Calls : d = routes[id] /\ Leads(d) /\ IdOf(d) = id
      BY <1>1 DEF RoutesLead
    <3>2. d # c
      BY <2>2, <3>1 DEF Leads
    <3>3. Leads(d)'
      BY <2>1, <3>1, <3>2 DEF Leads
    <3> QED
      BY <2>1, <3>1, <3>2, <3>3
  <2>5. ASSUME NEW d \in Calls \ {c}, Expects(d)'
        PROVE  Expects(d) /\ Waits(d) /\ IdOf(d)' = IdOf(d) /\ IdOf(d) # ""
               /\ IdOf(d)' \in DOMAIN routes /\ routes[IdOf(d)'] = d
    <3>1. Expects(d) /\ Waits(d) /\ Leads(d)
      BY <2>1, <2>5 DEF Expects, Leads
    <3>2. IdOf(d)' = IdOf(d) /\ IdOf(d) # ""
      BY <2>1, <3>1
    <3> QED
      BY <1>1, <3>1, <3>2 DEF RoutesLead
  <2>6. CASE routes' = routes /\ (via = "http" \/ onWire'[c] = onWire[c])
    <3>1. ~Expects(c)'
      <4>1. CASE via = "http"
        BY <2>2, <4>1 DEF Expects
      <4>2. CASE onWire'[c] = onWire[c]
        <5>1. onWire'[c].kind = "none" /\ running'[c] = "none"
          BY <1>1, <4>2 DEF Made, OneWay
        <5> QED
          BY <5>1 DEF Expects, TakenOut
      <4> QED
        BY <2>6, <4>1, <4>2
    <3> QED
      BY <2>3, <2>4, <2>5, <2>6, <3>1 DEF RoutesLead
  <2>7. CASE /\ via = "json"
             /\ routes' = [id \in DOMAIN routes \cup {packet'[o].id} |->
                             IF id = packet'[o].id THEN c ELSE routes[id]]
    <3>1. PICK new : new = packet'[o].id
      OBVIOUS
    <3>2. routes' = [id \in DOMAIN routes \cup {new} |-> IF id = new THEN c ELSE routes[id]]
      BY <2>7, <3>1
    <3>3. new = IF packet[o].id = "" THEN c ELSE packet[o].id
      BY <2>7, <3>1 DEF Made
    <3>4. IdOf(c)' = new /\ Leads(c)'
      BY <1>5, <2>2, <2>7, <3>1 DEF Leads
    <3>5. ASSUME NEW d \in Calls \ {c}, Expects(d)' PROVE IdOf(d)' # new
      <4>1. Waits(d) /\ IdOf(d)' = IdOf(d) /\ IdOf(d) # ""
        BY <2>5, <3>5
      <4>2. PICK p : p = api[d].object
        OBVIOUS
      <4>3. api[d].at = "waiting"
        BY <4>1 DEF Waits
      <4>4. p \in Objects /\ p # o
        BY <1>4, <2>0, <4>2, <4>3
      <4>5. IdOf(d) = packet[p].id
        BY <4>2 DEF IdOf
      <4>6. api[IdOf(d)].at # "idle" /\ api[IdOf(d)].object = p
        BY <1>1, <4>1, <4>4, <4>5 DEF IdsApart
      <4>7. packet[o].id # "" => api[packet[o].id].object = o
        BY <1>1 DEF IdsApart
      <4> QED
        BY <1>m, <3>3, <4>1, <4>4, <4>6, <4>7
    <3>6. ASSUME NEW id \in DOMAIN routes'
          PROVE  \E d \in Calls : d = routes'[id] /\ Leads(d)' /\ IdOf(d)' = id
      <4>1. CASE id = new
        BY <3>2, <3>4, <4>1
      <4>2. CASE id # new
        BY <2>4, <3>2, <4>2
      <4> QED
        BY <4>1, <4>2
    <3>7. ASSUME NEW d \in Calls, Expects(d)'
          PROVE  IdOf(d)' \in DOMAIN routes' /\ routes'[IdOf(d)'] = d
      <4>1. CASE d = c
        BY <3>2, <3>4, <4>1
      <4>2. CASE d # c
        BY <2>5, <3>2, <3>5, <3>7, <4>2
      <4> QED
        BY <4>1, <4>2
    <3> QED
      BY <2>3, <3>6, <3>7 DEF RoutesLead
  <2> QED
    BY <2>6, <2>7 DEF Made
<1> QED
  BY <1>2, <1>3, <1>6, <1>7, <1>8 DEF WebFacts

(* A call that has not begun has nothing under way.                        *)
LEMMA Unbegun ==
  ASSUME WebFacts, NEW n, NEW who, NEW nth, Pipe(n, who, nth), NEW c \in Calls, said[c] = <<>>
  PROVE  /\ n[c] = 0 /\ \A k \in 1..Len(who) : who[k] # c
<1>1. n[c] \in Nat /\ n[c] <= Len(said[c]) /\ Len(said[c]) = 0
  BY EmptySeq DEF Pipe
<1>2. ASSUME NEW k \in 1..Len(who), who[k] = c PROVE FALSE
  <2>1. nth[k] \in Nat /\ n[c] < nth[k] /\ nth[k] <= Len(said[c])
    <3>1. nth \in Seq(Nat) /\ k \in 1..Len(nth)
      BY <1>2 DEF Pipe
    <3>2. nth[k] \in Nat
      BY <3>1, ElementOfSeq
    <3> QED
      BY <1>2, <3>2 DEF Pipe
  <2> QED
    BY <1>1, <2>1
<1> QED
  BY <1>1, <1>2

(* ... leaves what is under way as it was                                  *)
LEMMA MadePipe ==
  ASSUME WebFacts, NEW c \in Calls, NEW o \in Objects, NEW via \in {"http", "json"},
         Made(c, o, via), NEW n, NEW who, NEW nth, Pipe(n, who, nth)
  PROVE  Pipe(n, who, nth)'
<1>1. /\ UNCHANGED <<received, said, jsonDown>>
      /\ \A d \in Calls \ {c} : api'[d] = api[d]
  BY DEF Made, WebFacts, WebTypes
<1>2. said[c] = <<>>
  BY DEF Made, WebFacts, OneWay
<1>3. \A k \in 1..Len(who) : who[k] # c /\ who[k] \in Calls
  BY <1>2, Unbegun, ElementOfSeq DEF Pipe
<1>4. \A k \in 1..Len(who) : api'[who[k]] = api[who[k]]
  BY <1>1, <1>3
<1>5. ASSUME NEW d \in Calls, api'[d].via = "json", NEW i \in 1..Len(said[d])
      PROVE  i <= n[d] \/ \E k \in 1..Len(who) : who[k] = d /\ nth[k] = i
  <2>1. CASE d = c
    BY <1>2, <1>5, <2>1, EmptySeq
  <2>2. CASE d # c
    <3>1. api[d].via = "json"
      BY <1>1, <1>5, <2>2
    <3> QED
      BY <1>5, <3>1 DEF Pipe
  <2> QED
    BY <2>1, <2>2
<1> QED
  BY <1>1, <1>4, <1>5 DEF Pipe

(* ... and is told nothing yet: an earlier call with its object, whose id  *)
(* it has, is over.                                                        *)
LEMMA MadeTold ==
  ASSUME WebFacts, WebFacts', NEW c \in Calls, NEW o \in Objects, NEW via \in {"http", "json"},
         Made(c, o, via), NEW n, NEW who, NEW nth, Pipe(n, who, nth), Told(n)
  PROVE  Told(n)'
<1>1. /\ UNCHANGED <<received, said, heard>>
      /\ \A d \in Calls \ {c} : api'[d] = api[d] /\ (d \in sync' <=> d \in sync)
      /\ api'[c].at = "waiting" /\ api'[c].object = o
      /\ \A d \in Calls : api[d].object = o => api[d].at # "waiting"
  BY DEF Made, WebFacts, WebTypes, InUse
<1>2. /\ said[c] = <<>> /\ heard[c] = <<>> /\ Len(said[c]) = 0 /\ Len(heard[c]) = 0
      /\ c \notin sync
  <2>1. api[c].at = "idle" /\ OneWay(c)
    BY DEF Made, WebFacts
  <2>2. said[c] = <<>> /\ heard[c] = <<>> /\ c \notin sync
    BY <2>1 DEF OneWay
  <2> QED
    BY <2>2, EmptySeq
<1>3. n[c] = 0
  BY <1>2, Unbegun
<1>4. /\ \A d \in Calls : said[d] \in Seq(Said) /\ Len(said[d]) \in Nat
      /\ SaidMore
  <2>1. \A d \in Calls : said[d] \in Seq(Said) /\ Len(said[d]) \in Nat
    BY LenProperties DEF WebFacts, WebTypes
  <2> QED
    BY <1>1, <2>1 DEF SaidMore
<1>l. ~Left(c) /\ \A d \in Calls \ {c} : Left(d)' <=> Left(d)
  BY <1>1, <1>2 DEF Left, Completes
<1>5. ASSUME NEW d \in Calls \ {c}, api'[d].via = "json", Undisturbed(d)'
      PROVE  GivenOwn(d, n)' /\ EarlierOver(d, n)'
  <2>1. ASSUME NEW e \in Calls \ {d}
        PROVE  \/ said[e] = <<>> /\ ~Left(e)
               \/ api[e].object = api[d].object => api'[e].object = api'[d].object
    BY <1>1, <1>2, <1>l
  <2>2. Undisturbed(d)
    BY <1>4, <1>5, <1>l, <2>1, StillUndisturbed
  <2>3. api'[d] = api[d] /\ GivenOwn(d, n) /\ EarlierOver(d, n)
    BY <1>1, <1>5, <2>2 DEF Told
  <2>4. GivenOwn(d, n)'
    BY <1>1, <2>3 DEF GivenOwn
  <2>5. ASSUME api'[d].at = "waiting", NEW e \in Calls \ {d},
               api'[e].object = api'[d].object, api'[e].via = "json"
        PROVE  \E i \in 1..n[e] : Completes(said[e][i])
    <3>1. e # c
      BY <1>1, <2>3, <2>5
    <3> QED
      BY <1>1, <2>3, <2>5, <3>1 DEF EarlierOver
  <2> QED
    BY <1>1, <2>4, <2>5 DEF EarlierOver, Completes
<1>6. ASSUME Undisturbed(c)' PROVE GivenOwn(c, n)' /\ EarlierOver(c, n)'
  <2>1. GivenOwn(c, n)'
    BY <1>1, <1>2, <1>3 DEF GivenOwn
  <2>2. ASSUME NEW d \in Calls \ {c}, api'[d].object = o, api'[d].via = "json"
        PROVE  \E i \in 1..n[d] : Completes(said[d][i])
    <3>1. api[d].object = o /\ api[d].via = "json" /\ api[d].at # "waiting"
      BY <1>1, <2>2
    <3>0. ~Left(d)
      BY <1>1, <1>6, <1>l, <2>2 DEF Undisturbed
    <3>2. api[d].at = "answered"
      <4>1. OneWay(d) /\ api[d].at \in {"idle", "waiting", "answered", "failed", "timedOut"}
        BY DEF WebFacts, WebTypes
      <4> QED
        BY <3>0, <3>1, <4>1 DEF OneWay, Left
    <3>3. Undisturbed(d)
      <4>1. \A e \in Calls \ {c} : api[e].object = o => ~Chatty(e) /\ ~Left(e)
        BY <1>1, <1>6, <1>l DEF Undisturbed, Chatty, Completes
      <4>2. ~Chatty(c) /\ ~Left(c)
        BY <1>2, <1>4, <1>l DEF Chatty
      <4>3. NoneHides
        BY <1>4, <1>6, NoneHid DEF Undisturbed
      <4> QED
        BY <3>1, <4>1, <4>2, <4>3 DEF Undisturbed
    <3>4. GivenOwn(d, n)
      BY <3>1, <3>3 DEF Told
    <3>5. heard[d] # <<>> /\ Len(heard[d]) \in Nat /\ n[d] \in Nat /\ Len(heard[d]) # 0
      <4>1. heard[d] # <<>>
        BY <3>2, <3>4 DEF GivenOwn
      <4>2. heard[d] \in Seq({ReadOf(m) : m \in Messages})
        BY DEF WebFacts, WebTypes
      <4>3. n[d] \in Nat
        BY DEF Pipe
      <4> QED
        BY <4>1, <4>2, <4>3, EmptySeq, LenProperties
    <3>6. Len(heard[d]) \in 1..Len(heard[d]) /\ Len(heard[d]) \in 1..n[d]
      BY <3>4, <3>5 DEF GivenOwn
    <3>7. Completes(said[d][Len(heard[d])])
      <4>1. CASE d \notin sync
        BY <3>2, <3>4, <3>6, <4>1 DEF GivenOwn
      <4>2. CASE d \in sync
        <5>1. PICK l \in Nat : l = Len(heard[d]) /\ l \in 1..n[d] /\ l \in DOMAIN heard[d]
          BY <3>5, <3>6, LenProperties DEF WebFacts, WebTypes
        <5>2. Completes(heard[d][l])
          BY <3>0, <4>2, <5>1 DEF Left
        <5>3. l \in 1..Len(said[d])
          BY <1>4, <3>5, <5>1 DEF Pipe
        <5>4. PICK r \in Said : r = said[d][l] /\ ~Hides("strest", r)
          <6>1. said[d][l] \in Said
            BY <1>4, <5>3, ElementOfSeq
          <6>2. l \in DOMAIN said[d]
            BY <1>4, <5>3, LenProperties
          <6> QED
            BY <3>3, <6>1, <6>2 DEF Undisturbed, NoneHides
        <5>5. heard[d][l] = ReadOf(MarshalResponse(received[d].id, r))
          BY <3>4, <3>6, <5>1, <5>4 DEF GivenOwn
        <5>6. heard[d][l].status = r.status
          BY <5>4, <5>5, ReadSaid
        <5> QED
          BY <5>1, <5>2, <5>4, <5>6 DEF Completes
      <4> QED
        BY <4>1, <4>2
    <3> QED
      BY <3>6, <3>7
  <2> QED
    BY <1>1, <2>1, <2>2 DEF EarlierOver, Completes
<1> QED
  BY <1>5, <1>6 DEF Told

(* Nothing is given.                                                       *)
LEMMA MadeEchoes ==
  ASSUME WebFacts, Echoes, NEW c \in Calls, NEW o \in Objects, NEW via \in {"http", "json"},
         Made(c, o, via)
  PROVE  Echoes'
<1>1. /\ UNCHANGED <<said, heard>>
      /\ \A d \in Calls \ {c} : api'[d] = api[d]
      /\ said[c] = <<>> /\ heard[c] = <<>>
  BY DEF Made, WebFacts, WebTypes, OneWay
<1>2. /\ SaidMore
      /\ \A d \in Calls : heard[d] \in Seq({ReadOf(m) : m \in Messages})
  <2>1. \A d \in Calls : said[d] \in Seq(Said) /\ Len(said[d]) \in Nat
    BY LenProperties DEF WebFacts, WebTypes
  <2>2. SaidMore
    BY <1>1, <2>1 DEF SaidMore
  <2> QED
    BY <2>2 DEF WebFacts, WebTypes
<1>3. \A d \in Calls : heard[d] # <<>> \/ said[d] # <<>> => api'[d].object = api[d].object
  BY <1>1
<1>4. \A d \in Calls : \A i \in DOMAIN heard'[d] : i \in DOMAIN heard[d] /\ heard'[d][i] = heard[d][i]
  BY <1>1
<1> HIDE DEF SaidMore, Echoes
<1> QED
  BY <1>2, <1>3, <1>4, EchoesStay

-----------------------------------------------------------------------------
(* Steps that give nothing.                                                *)
LEMMA EchoesSame ==
  ASSUME WebFacts, Echoes, SaidMore, UNCHANGED heard,
         \A c \in Calls : api'[c].object = api[c].object
  PROVE  Echoes'
<1>1. \A c \in Calls : heard[c] \in Seq({ReadOf(m) : m \in Messages})
  BY DEF WebFacts, WebTypes
<1>2. \A c \in Calls : \A i \in DOMAIN heard'[c] : i \in DOMAIN heard[c] /\ heard'[c][i] = heard[c][i]
  OBVIOUS
<1> HIDE DEF SaidMore, Echoes
<1> QED
  BY <1>1, <1>2, EchoesStay

LEMMA SaidSame == ASSUME WebFacts, UNCHANGED said PROVE SaidMore
<1>1. \A d \in Calls : said[d] \in Seq(Said) /\ Len(said[d]) \in Nat
  BY LenProperties DEF WebFacts, WebTypes
<1> QED
  BY <1>1 DEF SaidMore

-----------------------------------------------------------------------------
(* The steps of the server's goroutines.                                   *)
LEMMA ArriveStep ==
  ASSUME WebFacts, NEW c \in Calls, HttpArrives(c) \/ JsonArrives(c)
  PROVE  WebFacts'
<1>1. /\ UNCHANGED <<packet, api, said, jsonDown, routes, stuck, heard, sync>>
      /\ running[c] = "none" /\ api[c].at # "idle" /\ onWire[c].kind # "none"
      /\ running' = [running EXCEPT ![c] = "runs"]
      /\ onWire' = [onWire EXCEPT ![c] = Nowhere]
      /\ DOMAIN received' = Calls
      /\ \A d \in Calls \ {c} : received'[d] = received[d]
      /\ received'[c].id = IF api[c].via = "json" THEN IdOf(c) ELSE ""
  BY ArriveIs
<1>2. WebTypes'
  BY <1>1 DEF WebFacts, WebTypes
<1>3. \A d \in Calls : IdOf(d)' = IdOf(d)
  BY <1>1 DEF IdOf
<1>4. ASSUME NEW d \in Calls PROVE OneWay(d)' /\ OneAnswer(d)'
  <2>0. /\ OneWay(d) /\ OneAnswer(d) /\ DOMAIN onWire = Calls
        /\ running \in [Calls -> {"none", "runs", "returned"}]
    BY DEF WebFacts, WebTypes
  <2>1. CASE d = c
    <3>1. onWire'[d].kind = "none" /\ running'[d] = "runs"
      BY <1>1, <2>0, <2>1 DEF Nowhere
    <3>2. OneAnswer(d)'
      BY <1>1, <2>0, <2>1 DEF OneAnswer
    <3>3. OneWay(d)'
      BY <1>1, <1>3, <2>0, <2>1, <3>1 DEF OneWay
    <3> QED
      BY <3>2, <3>3
  <2>2. CASE d # c
    <3>1. onWire'[d] = onWire[d] /\ running'[d] = running[d] /\ received'[d] = received[d]
      BY <1>1, <2>0, <2>2
    <3> QED
      BY <1>1, <1>3, <2>0, <3>1 DEF OneWay, OneAnswer
  <2> QED
    BY <2>1, <2>2
<1>5. IdsApart'
  BY <1>1 DEF WebFacts, IdsApart
<1>6. RoutesLead'
  <2>1. \A d \in Calls : (Waits(d)' <=> Waits(d)) /\ (Left(d)' <=> Left(d))
    BY <1>1 DEF Waits, Left, Completes
  <2>2. ASSUME NEW d \in Calls, TakenOut(d)' PROVE TakenOut(d)
    <3>1. CASE d = c
      BY <1>1, <3>1 DEF TakenOut
    <3>2. CASE d # c
      <4>1. onWire'[d] = onWire[d] /\ running'[d] = running[d]
        BY <1>1, <3>2 DEF WebFacts, WebTypes
      <4> QED
        BY <2>2, <4>1 DEF TakenOut
    <3> QED
      BY <3>1, <3>2
  <2>3. RoutesLead /\ UNCHANGED <<routes, stuck>>
    BY <1>1 DEF WebFacts
  <2>4. \A d \in Calls : (Leads(d) => Leads(d)') /\ (Expects(d)' => Expects(d))
    BY <2>1, <2>2 DEF Leads, Expects
  <2> QED
    BY <1>3, <2>1, <2>3, <2>4, RoutesStay
<1> QED
  BY <1>2, <1>4, <1>5, <1>6 DEF WebFacts

(* A request that arrives is not a response: what is under way stays.      *)
LEMMA ArrivePipe ==
  ASSUME WebFacts, NEW c \in Calls, HttpArrives(c) \/ JsonArrives(c),
         NEW n, NEW who, NEW nth, Pipe(n, who, nth), Told(n)
  PROVE  Pipe(n, who, nth)' /\ Told(n)'
<1>1. /\ UNCHANGED <<packet, api, said, jsonDown, routes, stuck, heard, sync>>
      /\ running[c] = "none" /\ \A d \in Calls \ {c} : received'[d] = received[d]
  BY ArriveIs
<1>2. said[c] = <<>>
  BY <1>1 DEF WebFacts, OneWay
<1>3. n[c] = 0 /\ \A k \in 1..Len(who) : who[k] # c /\ who[k] \in Calls
  BY <1>2, Unbegun, ElementOfSeq DEF Pipe
<1>4. \A k \in 1..Len(who) : received'[who[k]] = received[who[k]]
  BY <1>1, <1>3
<1>5. Pipe(n, who, nth)'
  BY <1>1, <1>4 DEF Pipe
<1>6. ASSUME NEW d \in Calls, api'[d].via = "json", Undisturbed(d)'
      PROVE  GivenOwn(d, n)' /\ EarlierOver(d, n)'
  <2>1. Undisturbed(d)
    BY <1>1, <1>6 DEF Undisturbed, Chatty, Left, NoneHides, Hides, Completes
  <2>2. GivenOwn(d, n) /\ EarlierOver(d, n)
    BY <1>1, <1>6, <2>1 DEF Told
  <2>3. EarlierOver(d, n)'
    BY <1>1, <2>2 DEF EarlierOver, Completes
  <2>4. GivenOwn(d, n)'
    <3>1. CASE d # c
      <4>1. received'[d] = received[d]
        BY <1>1, <3>1
      <4> QED
        BY <1>1, <2>2, <4>1 DEF GivenOwn, Completes
    <3>2. CASE d = c
      <4>1. Len(heard[c]) \in Nat
        BY LenProperties DEF WebFacts, WebTypes
      <4>2. Len(heard[c]) = 0
        BY <1>3, <2>2, <3>2, <4>1 DEF GivenOwn
      <4> QED
        BY <1>1, <2>2, <3>2, <4>2 DEF GivenOwn, Completes
    <3> QED
      BY <3>1, <3>2
  <2> QED
    BY <2>3, <2>4
<1> QED
  BY <1>5, <1>6 DEF Told

(* What a handler writes keeps the types, ids and routes right.            *)
LEMMA WriteStep ==
  ASSUME WebFacts, NEW c \in Calls, HandlerWrites(c) \/ Refuse(c)
  PROVE  WebFacts'
<1>1. PICK r \in Said :
           /\ UNCHANGED <<packet, api, onWire, received, routes, stuck, heard, sync>>
           /\ running[c] = "runs" /\ said' = [said EXCEPT ![c] = Append(@, r)]
           /\ running' = running \/ running' = [running EXCEPT ![c] = "returned"]
           /\ jsonDown' = IF api[c].via = "http" THEN jsonDown
                          ELSE Append(jsonDown, MarshalResponse(received[c].id, r))
  BY WriteIs
<1>0. WebTypes /\ OneWay(c)
  BY DEF WebFacts
<1>2. \A d \in Calls : IdOf(d)' = IdOf(d)
  BY <1>1 DEF IdOf
<1>3. api[c].via \in {"http", "json"} /\ api[c].at # "idle"
      /\ received[c].id = IF api[c].via = "json" THEN IdOf(c) ELSE ""
  BY <1>0, <1>1 DEF OneWay
<1>4. received[c].id \in Calls \cup {""}
  <2>1. api[c].object \in Objects
    BY <1>0, <1>3 DEF OneWay
  <2> QED
    BY <1>0, <1>3, <2>1 DEF WebTypes, IdOf
<1>5. WebTypes'
  <2>1. said' \in [Calls -> Seq(Said)]
    BY <1>0, <1>1, AppendProperties DEF WebTypes
  <2>2. running' \in [Calls -> {"none", "runs", "returned"}]
    <3>1. running \in [Calls -> {"none", "runs", "returned"}]
      BY <1>0 DEF WebTypes
    <3>2. running' = running \/ running' = [running EXCEPT ![c] = "returned"]
      BY <1>1
    <3> QED
      BY <3>1, <3>2
  <2>3. MarshalResponse(received[c].id, r) \in Messages
    BY <1>4, MessageIs
  <2>4. jsonDown' \in Seq(Messages)
    BY <1>0, <1>1, <2>3, AppendProperties DEF WebTypes
  <2> QED
    BY <1>0, <1>1, <2>1, <2>2, <2>4 DEF WebTypes
<1>6. ASSUME NEW d \in Calls PROVE OneWay(d)' /\ OneAnswer(d)'
  <2>0. /\ OneWay(d) /\ OneAnswer(d) /\ said \in [Calls -> Seq(Said)]
        /\ running \in [Calls -> {"none", "runs", "returned"}]
    BY DEF WebFacts, WebTypes
  <2>1. CASE d = c
    <3>1. running'[d] \in {"runs", "returned"}
      BY <1>1, <2>0, <2>1
    <3>2. OneAnswer(d)'
      BY <1>1, <2>0, <2>1 DEF OneAnswer
    <3>3. OneWay(d)'
      BY <1>1, <1>2, <2>0, <2>1, <3>1 DEF OneWay
    <3> QED
      BY <3>2, <3>3
  <2>2. CASE d # c
    <3>1. said'[d] = said[d] /\ running'[d] = running[d]
      BY <1>1, <2>0, <2>2
    <3> QED
      BY <1>1, <1>2, <2>0, <3>1 DEF OneWay, OneAnswer
  <2> QED
    BY <2>1, <2>2
<1>7. IdsApart'
  BY <1>1 DEF WebFacts, IdsApart
<1>8. RoutesLead'
  <2>1. \A d \in Calls : (Waits(d)' <=> Waits(d)) /\ (Left(d)' <=> Left(d))
    BY <1>1 DEF Waits, Left, Completes
  <2>2. ASSUME NEW d \in Calls, TakenOut(d)' PROVE TakenOut(d)
    <3>1. CASE d = c
      BY <1>1, <3>1 DEF TakenOut
    <3>2. CASE d # c
      <4>1. onWire'[d] = onWire[d] /\ running'[d] = running[d]
        BY <1>1, <3>2 DEF WebFacts, WebTypes
      <4> QED
        BY <2>2, <4>1 DEF TakenOut
    <3> QED
      BY <3>1, <3>2
  <2>3. RoutesLead /\ UNCHANGED <<routes, stuck>>
    BY <1>1 DEF WebFacts
  <2>4. \A d \in Calls : (Leads(d) => Leads(d)') /\ (Expects(d)' => Expects(d))
    BY <2>1, <2>2 DEF Leads, Expects
  <2> QED
    BY <1>2, <2>1, <2>3, <2>4, RoutesStay
<1> QED
  BY <1>5, <1>6, <1>7, <1>8 DEF WebFacts

LEMMA WriteMore ==
  ASSUME WebFacts, NEW c \in Calls, HandlerWrites(c) \/ Refuse(c)
  PROVE  SaidMore
<1>1. PICK r \in Said : said' = [said EXCEPT ![c] = Append(@, r)]
  BY WriteIs
<1>2. \A d \in Calls : said[d] \in Seq(Said) /\ Len(said[d]) \in Nat
  BY LenProperties DEF WebFacts, WebTypes
<1>3. said'[c] = Append(said[c], r) /\ \A d \in Calls \ {c} : said'[d] = said[d]
  BY <1>1 DEF WebFacts, WebTypes
<1>4. ASSUME NEW d \in Calls
      PROVE  /\ said'[d] \in Seq(Said) /\ Len(said[d]) <= Len(said'[d])
             /\ \A i \in 1..Len(said[d]) : said'[d][i] = said[d][i]
  <2>1. CASE d = c
    <3>1. PICK s \in Seq(Said) : s = said[c] /\ Len(s) \in Nat
      BY <1>2
    <3>2. /\ Append(s, r) \in Seq(Said) /\ Len(Append(s, r)) = Len(s) + 1
          /\ \A i \in 1..Len(s) : Append(s, r)[i] = s[i]
      BY <3>1, AppendProperties
    <3>3. said'[d] = Append(s, r) /\ Len(s) <= Len(Append(s, r)) /\ said[d] = s
      BY <1>3, <2>1, <3>1, <3>2
    <3> QED
      BY <3>2, <3>3
  <2>2. CASE d # c
    BY <1>2, <1>3, <2>2
  <2> QED
    BY <2>1, <2>2
<1> QED
  BY <1>2, <1>4 DEF SaidMore

(* Nothing is read when a handler writes ...                               *)
LEMMA WriteTold ==
  ASSUME WebFacts, NEW c \in Calls, HandlerWrites(c) \/ Refuse(c),
         NEW n, NEW who, NEW nth, Pipe(n, who, nth), Told(n)
  PROVE  Told(n)'
<1>1. PICK r \in Said :
           /\ UNCHANGED <<packet, api, received, heard, sync>>
           /\ said' = [said EXCEPT ![c] = Append(@, r)]
  BY WriteIs
<1>0. SaidMore
  BY WriteMore
<1>2. \A d \in Calls : said[d] \in Seq(Said) /\ Len(said[d]) \in Nat /\ Len(heard[d]) \in Nat
  BY LenProperties DEF WebFacts, WebTypes
<1>3. /\ said'[c] \in Seq(Said) /\ Len(said'[c]) = Len(said[c]) + 1
      /\ \A i \in 1..Len(said[c]) : said'[c][i] = said[c][i]
      /\ \A d \in Calls \ {c} : said'[d] = said[d]
  <2>1. said'[c] = Append(said[c], r) /\ \A d \in Calls \ {c} : said'[d] = said[d]
    BY <1>1 DEF WebFacts, WebTypes
  <2> QED
    BY <1>2, <2>1, AppendProperties
<1>4. ASSUME NEW d \in Calls
      PROVE  /\ said'[d] \in Seq(Said) /\ Len(said[d]) <= Len(said'[d])
             /\ \A i \in 1..Len(said[d]) : said'[d][i] = said[d][i]
  BY <1>2, <1>3
<1>5. \A d \in Calls : n[d] \in Nat /\ n[d] <= Len(said[d])
  BY DEF Pipe
<1>6. ASSUME NEW d \in Calls, NEW i \in 1..n[d] PROVE said'[d][i] = said[d][i]
  <2>1. i \in 1..Len(said[d])
    BY <1>2, <1>5
  <2> QED
    BY <1>4, <2>1
<1>7. ASSUME NEW d \in Calls, api'[d].via = "json", Undisturbed(d)'
      PROVE  GivenOwn(d, n)' /\ EarlierOver(d, n)'
  <2>1. Undisturbed(d)
    <3>1. \A e \in Calls : Left(e) => Left(e)'
      BY <1>1 DEF Left, Completes
    <3> QED
      BY <1>0, <1>1, <1>7, <3>1, StillUndisturbed
  <2>2. GivenOwn(d, n) /\ EarlierOver(d, n)
    BY <1>1, <1>7, <2>1 DEF Told
  <2>3. EarlierOver(d, n)'
    BY <1>1, <1>6, <2>2 DEF EarlierOver, Completes
  <2>4. \A i \in 1..Len(heard[d]) : i \in 1..n[d]
    BY <1>2, <1>5, <2>2 DEF GivenOwn
  <2>5. GivenOwn(d, n)'
    BY <1>1, <1>6, <2>2, <2>4 DEF GivenOwn, Completes
  <2> QED
    BY <2>3, <2>5
<1> QED
  BY <1>7 DEF Told

(* ... and on the JSON connection the response goes to the end of what is  *)
(* under way.                                                              *)
LEMMA WritePipe ==
  ASSUME WebFacts, NEW c \in Calls, HandlerWrites(c) \/ Refuse(c),
         NEW n, NEW who, NEW nth, Pipe(n, who, nth)
  PROVE  \E who1, nth1 : Pipe(n, who1, nth1)'
<1>1. PICK r \in Said :
           /\ UNCHANGED <<packet, api, received, heard, sync>> /\ running[c] = "runs"
           /\ said' = [said EXCEPT ![c] = Append(@, r)]
           /\ jsonDown' = IF api[c].via = "http" THEN jsonDown
                          ELSE Append(jsonDown, MarshalResponse(received[c].id, r))
  BY WriteIs
<1>2. \A d \in Calls : said[d] \in Seq(Said) /\ Len(said[d]) \in Nat
  BY LenProperties DEF WebFacts, WebTypes
<1>3. /\ Len(said'[c]) = Len(said[c]) + 1 /\ said'[c][Len(said[c]) + 1] = r
      /\ \A i \in 1..Len(said[c]) : said'[c][i] = said[c][i]
      /\ \A d \in Calls \ {c} : said'[d] = said[d]
  <2>1. said'[c] = Append(said[c], r) /\ \A d \in Calls \ {c} : said'[d] = said[d]
    BY <1>1 DEF WebFacts, WebTypes
  <2> QED
    BY <1>2, <2>1, AppendProperties
<1>4. ASSUME NEW d \in Calls
      PROVE  /\ Len(said'[d]) \in Nat /\ Len(said[d]) <= Len(said'[d])
             /\ \A i \in 1..Len(said[d]) : said'[d][i] = said[d][i]
  BY <1>2, <1>3
<1>5. /\ n \in [Calls -> Nat] /\ who \in Seq(Calls) /\ nth \in Seq(Nat)
      /\ Len(who) \in Nat /\ Len(nth) = Len(who) /\ Len(jsonDown) = Len(who)
      /\ \A d \in Calls : n[d] \in Nat /\ n[d] <= Len(said[d])
  BY LenProperties DEF Pipe
<1>6. ASSUME NEW k \in 1..Len(who)
      PROVE  /\ who[k] \in Calls /\ nth[k] \in Nat /\ api[who[k]].via = "json"
             /\ n[who[k]] < nth[k] /\ nth[k] <= Len(said[who[k]]) /\ nth[k] <= Len(said'[who[k]])
             /\ jsonDown[k] = MarshalResponse(received[who[k]].id, said'[who[k]][nth[k]])
  <2>1. who[k] \in Calls /\ nth[k] \in Nat
    BY <1>5, ElementOfSeq
  <2>2. /\ api[who[k]].via = "json"
        /\ n[who[k]] < nth[k] /\ nth[k] <= Len(said[who[k]])
        /\ jsonDown[k] = MarshalResponse(received[who[k]].id, said[who[k]][nth[k]])
    BY DEF Pipe
  <2>3. nth[k] \in 1..Len(said[who[k]])
    BY <1>2, <1>5, <2>1, <2>2
  <2>4. said'[who[k]][nth[k]] = said[who[k]][nth[k]]
    BY <1>4, <2>1, <2>3
  <2> QED
    BY <1>2, <1>4, <2>1, <2>2, <2>4
<1>7. \A d \in Calls : n[d] <= Len(said'[d])
  BY <1>2, <1>4, <1>5
<1>8. api[c].via \in {"http", "json"}
  BY <1>1 DEF WebFacts, OneWay
<1>9. CASE api[c].via = "http"
  <2>1. ASSUME NEW d \in Calls, api[d].via = "json", NEW i \in 1..Len(said'[d])
        PROVE  i <= n[d] \/ \E k \in 1..Len(who) : who[k] = d /\ nth[k] = i
    <3>1. said'[d] = said[d]
      BY <1>3, <1>9, <2>1
    <3> QED
      BY <2>1, <3>1 DEF Pipe
  <2>2. jsonDown' = jsonDown
    BY <1>1, <1>9
  <2>3. \A k, l \in 1..Len(who) : k < l /\ who[k] = who[l] => nth[k] < nth[l]
    BY DEF Pipe
  <2>4. Pipe(n, who, nth)'
    BY <1>1, <1>5, <1>6, <1>7, <2>1, <2>2, <2>3 DEF Pipe
  <2> QED
    BY <2>4
<1>10. CASE api[c].via = "json"
  <2>1. PICK new : new = Len(said[c]) + 1
    OBVIOUS
  <2>2. PICK who1 \in Seq(Calls), nth1 \in Seq(Nat) :
          who1 = Append(who, c) /\ nth1 = Append(nth, new)
    <3>1. new \in Nat
      BY <1>2, <2>1
    <3>2. Append(nth, new) \in Seq(Nat)
      BY <1>5, <3>1, AppendProperties
    <3>3. Append(who, c) \in Seq(Calls)
      BY <1>5, AppendProperties
    <3> QED
      BY <3>2, <3>3
  <2>3. /\ Len(who1) = Len(who) + 1 /\ who1[Len(who) + 1] = c
        /\ \A k \in 1..Len(who) : who1[k] = who[k]
    BY <1>5, <2>2, AppendProperties
  <2>4. /\ Len(nth1) = Len(who) + 1 /\ nth1[Len(who) + 1] = new
        /\ \A k \in 1..Len(who) : nth1[k] = nth[k]
    <3>1. new \in Nat
      BY <1>2, <2>1
    <3> QED
      BY <1>5, <2>2, <3>1, AppendProperties
  <2>5. /\ Len(jsonDown') = Len(who) + 1
        /\ jsonDown'[Len(who) + 1] = MarshalResponse(received[c].id, r)
        /\ \A k \in 1..Len(who) : jsonDown'[k] = jsonDown[k]
    <3>1. jsonDown' = Append(jsonDown, MarshalResponse(received[c].id, r))
      BY <1>1, <1>10
    <3>2. PICK q \in Seq(Messages) : q = jsonDown
      BY DEF WebFacts, WebTypes
    <3>3. PICK m : m = MarshalResponse(received[c].id, r)
      OBVIOUS
    <3>4. PICK T : T = Messages \cup {m}
      OBVIOUS
    <3>5. q \in Seq(T) /\ m \in T
      <4>1. \A i \in 1..Len(q) : q[i] \in T
        BY <3>4, ElementOfSeq
      <4>2. q \in Seq(T)
        BY <3>4
      <4> QED
        BY <3>4, <4>2
    <3> QED
      BY <1>5, <3>1, <3>2, <3>3, <3>5, AppendProperties
  <2>6. ASSUME NEW k \in 1..Len(who1)
        PROVE  /\ api[who1[k]].via = "json"
               /\ n[who1[k]] < nth1[k] /\ nth1[k] <= Len(said'[who1[k]])
               /\ jsonDown'[k] = MarshalResponse(received[who1[k]].id, said'[who1[k]][nth1[k]])
    <3>1. CASE k = Len(who) + 1
      <4>1. n[c] < new /\ new <= Len(said'[c]) /\ said'[c][new] = r
        BY <1>2, <1>3, <1>5, <2>1
      <4> QED
        BY <1>10, <2>3, <2>4, <2>5, <3>1, <4>1
    <3>2. CASE k # Len(who) + 1
      <4>1. k \in 1..Len(who)
        BY <1>5, <2>3, <3>2
      <4>2. who1[k] = who[k] /\ nth1[k] = nth[k] /\ jsonDown'[k] = jsonDown[k]
        BY <2>3, <2>4, <2>5, <4>1
      <4> QED
        BY <1>6, <4>1, <4>2
    <3> QED
      BY <3>1, <3>2
  <2>7. ASSUME NEW k \in 1..Len(who1), NEW l \in 1..Len(who1), k < l, who1[k] = who1[l]
        PROVE  nth1[k] < nth1[l]
    <3>1. k \in 1..Len(who)
      BY <1>5, <2>3, <2>7
    <3>2. CASE l = Len(who) + 1
      <4>1. who[k] = c /\ nth1[k] = nth[k] /\ nth1[l] = new
        BY <2>3, <2>4, <2>7, <3>1, <3>2
      <4> QED
        BY <1>2, <1>6, <2>1, <3>1, <4>1
    <3>3. CASE l # Len(who) + 1
      <4>1. l \in 1..Len(who)
        BY <1>5, <2>3, <3>3
      <4>2. who[k] = who[l] /\ nth1[k] = nth[k] /\ nth1[l] = nth[l]
        BY <2>3, <2>4, <2>7, <3>1, <4>1
      <4> QED
        BY <2>7, <3>1, <4>1, <4>2 DEF Pipe
    <3> QED
      BY <3>2, <3>3
  <2>8. ASSUME NEW d \in Calls, api[d].via = "json", NEW i \in 1..Len(said'[d])
        PROVE  i <= n[d] \/ \E k \in 1..Len(who1) : who1[k] = d /\ nth1[k] = i
    <3>1. CASE d = c /\ i = new
      <4>1. Len(who) + 1 \in 1..Len(who1)
        BY <1>5, <2>3
      <4> QED
        BY <2>3, <2>4, <3>1, <4>1
    <3>2. CASE ~(d = c /\ i = new)
      <4>1. i \in 1..Len(said[d])
        BY <1>2, <1>3, <2>1, <2>8, <3>2
      <4>2. i <= n[d] \/ \E k \in 1..Len(who) : who[k] = d /\ nth[k] = i
        BY <2>8, <4>1 DEF Pipe
      <4>3. \A k \in 1..Len(who) : k \in 1..Len(who1) /\ who1[k] = who[k] /\ nth1[k] = nth[k]
        BY <1>5, <2>3, <2>4
      <4> QED
        BY <4>2, <4>3
    <3> QED
      BY <3>1, <3>2
  <2>9. Pipe(n, who1, nth1)'
    BY <1>1, <1>5, <1>7, <2>2, <2>3, <2>4, <2>5, <2>6, <2>7, <2>8 DEF Pipe
  <2> QED
    BY <2>9
<1> QED
  BY <1>8, <1>9, <1>10

(* A handler that is through has written what it has written.              *)
LEMMA ReturnStep ==
  ASSUME WebFacts, NEW c \in Calls, HandlerReturns(c)
  PROVE  WebFacts'
<1>1. /\ UNCHANGED <<packet, api, onWire, received, said, jsonDown, routes, stuck, heard, sync>>
      /\ running[c] = "runs" /\ running' = [running EXCEPT ![c] = "returned"]
  BY DEF HandlerReturns, loopVars
<1>2. WebTypes'
  BY <1>1 DEF WebFacts, WebTypes
<1>3. \A d \in Calls : IdOf(d)' = IdOf(d)
  BY <1>1 DEF IdOf
<1>4. ASSUME NEW d \in Calls PROVE OneWay(d)' /\ OneAnswer(d)'
  <2>0. OneWay(d) /\ OneAnswer(d) /\ running \in [Calls -> {"none", "runs", "returned"}]
    BY DEF WebFacts, WebTypes
  <2>1. CASE d = c
    <3>1. running'[d] = "returned"
      BY <1>1, <2>0, <2>1
    <3>2. OneAnswer(d)'
      BY <1>1, <2>0, <2>1 DEF OneAnswer
    <3>3. OneWay(d)'
      BY <1>1, <1>3, <2>0, <2>1, <3>1 DEF OneWay
    <3> QED
      BY <3>2, <3>3
  <2>2. CASE d # c
    <3>1. running'[d] = running[d]
      BY <1>1, <2>0, <2>2
    <3> QED
      BY <1>1, <1>3, <2>0, <3>1 DEF OneWay, OneAnswer
  <2> QED
    BY <2>1, <2>2
<1>5. IdsApart'
  BY <1>1 DEF WebFacts, IdsApart
<1>6. RoutesLead'
  <2>1. \A d \in Calls : (Waits(d)' <=> Waits(d)) /\ (Left(d)' <=> Left(d))
    BY <1>1 DEF Waits, Left, Completes
  <2>2. ASSUME NEW d \in Calls, TakenOut(d)' PROVE TakenOut(d)
    <3>1. CASE d = c
      BY <1>1, <3>1 DEF TakenOut
    <3>2. CASE d # c
      <4>1. onWire'[d] = onWire[d] /\ running'[d] = running[d]
        BY <1>1, <3>2 DEF WebFacts, WebTypes
      <4> QED
        BY <2>2, <4>1 DEF TakenOut
    <3> QED
      BY <3>1, <3>2
  <2>3. RoutesLead /\ UNCHANGED <<routes, stuck>>
    BY <1>1 DEF WebFacts
  <2>4. \A d \in Calls : (Leads(d) => Leads(d)') /\ (Expects(d)' => Expects(d))
    BY <2>1, <2>2 DEF Leads, Expects
  <2> QED
    BY <1>3, <2>1, <2>3, <2>4, RoutesStay
<1> QED
  BY <1>2, <1>4, <1>5, <1>6 DEF WebFacts

(* A step that no call on the JSON connection takes part in.               *)
Aside ==
  /\ UNCHANGED <<said, jsonDown, received, sync>>
  /\ \A d \in Calls : /\ api'[d].via = api[d].via /\ api'[d].object = api[d].object
                      /\ api[d].via = "json" => api'[d].at = api[d].at /\ heard'[d] = heard[d]

(* Steps beside the JSON connection leave it, and those who wait there, as *)
(* they are.                                                               *)
LEMMA AsidePipe ==
  ASSUME WebFacts, Aside, NEW n, NEW who, NEW nth, Pipe(n, who, nth), Told(n)
  PROVE  Pipe(n, who, nth)' /\ Told(n)'
<1>1. /\ UNCHANGED <<said, jsonDown, received, sync>>
      /\ \A d \in Calls : /\ api'[d].via = api[d].via /\ api'[d].object = api[d].object
                          /\ api[d].via = "json" => api'[d].at = api[d].at /\ heard'[d] = heard[d]
  BY DEF Aside
<1>2. \A k \in 1..Len(who) : who[k] \in Calls
  BY ElementOfSeq DEF Pipe
<1>3. Pipe(n, who, nth)'
  <2>1. \A k \in 1..Len(who) : api'[who[k]].via = api[who[k]].via
    BY <1>1, <1>2
  <2>2. \A d \in Calls : api'[d].via = api[d].via
    BY <1>1
  <2>3. said' = said /\ jsonDown' = jsonDown /\ received' = received
    BY <1>1
  <2>4. /\ n \in [Calls -> Nat] /\ who \in Seq(Calls) /\ nth \in Seq(Nat)
        /\ Len(who) = Len(jsonDown') /\ Len(nth) = Len(jsonDown')
        /\ \A k, l \in 1..Len(who) : k < l /\ who[k] = who[l] => nth[k] < nth[l]
        /\ \A d \in Calls : n[d] <= Len(said'[d])
    BY <2>3 DEF Pipe
  <2>5. \A k \in 1..Len(who) :
          /\ api'[who[k]].via = "json"
          /\ n[who[k]] < nth[k] /\ nth[k] <= Len(said'[who[k]])
          /\ jsonDown'[k] = MarshalResponse(received'[who[k]].id, said'[who[k]][nth[k]])
    BY <2>1, <2>3 DEF Pipe
  <2>6. \A d \in Calls : api'[d].via = "json" =>
          \A i \in 1..Len(said'[d]) : i <= n[d] \/ \E k \in 1..Len(who) : who[k] = d /\ nth[k] = i
    BY <2>2, <2>3 DEF Pipe
  <2> QED
    BY <2>4, <2>5, <2>6 DEF Pipe
<1>4. ASSUME NEW d \in Calls, api'[d].via = "json", Undisturbed(d)'
      PROVE  GivenOwn(d, n)' /\ EarlierOver(d, n)'
  <2>0. \A e \in Calls : Left(e) => Left(e)'
    <3>1. ASSUME NEW e \in Calls, Left(e) PROVE Left(e)'
      <4>1. OneWay(e) /\ e \in sync
        BY <3>1 DEF WebFacts, Left
      <4>2. api[e].via = "json"
        BY <4>1 DEF OneWay
      <4> QED
        BY <1>1, <3>1, <4>2 DEF Left, Completes
    <3> QED
      BY <3>1
  <2>1. Undisturbed(d)
    BY <1>1, <1>4, <2>0, SaidSame, StillUndisturbed
  <2>2. GivenOwn(d, n) /\ EarlierOver(d, n) /\ api'[d].at = api[d].at /\ heard'[d] = heard[d]
    BY <1>1, <1>4, <2>1 DEF Told
  <2>3. EarlierOver(d, n)'
    BY <1>1, <2>2 DEF EarlierOver, Completes
  <2>4. GivenOwn(d, n)'
    BY <1>1, <2>2 DEF GivenOwn, Completes
  <2> QED
    BY <2>3, <2>4
<1> QED
  BY <1>3, <1>4 DEF Told

(* An http call reads the one response of its handler, or fails.           *)
LEMMA HttpReadsStep ==
  ASSUME WebFacts, NEW c \in Calls, HttpReads(c)
  PROVE  WebFacts' /\ Aside
<1>0. WebTypes /\ OneWay(c) /\ OneAnswer(c)
  BY DEF WebFacts
<1>1. PICK at \in {"answered", "failed"} :
        /\ api[c].at = "waiting" /\ api[c].via = "http" /\ running[c] = "returned"
        /\ UNCHANGED <<packet, onWire, received, running, said, jsonDown, routes, stuck, sync>>
        /\ api' = [api EXCEPT ![c].at = at]
        /\ IF at = "answered"
           THEN /\ Len(said[c]) = 1
                /\ heard' = [heard EXCEPT ![c] =
                              Append(@, ReadOf(MarshalResponse(received[c].id, said[c][1])))]
           ELSE heard' = heard
  BY Zenon DEF HttpReads, Heard, ReadOf, serverVars, loopVars
<1>1a. at = "answered" =>
         /\ Len(said[c]) = 1
         /\ heard' = [heard EXCEPT ![c] =
                       Append(@, ReadOf(MarshalResponse(received[c].id, said[c][1])))]
  BY <1>1
<1>1b. at = "failed" => heard' = heard
  BY <1>1
<1>2. /\ api'[c] = [at |-> at, object |-> api[c].object, via |-> "http"]
      /\ \A d \in Calls \ {c} : api'[d] = api[d] /\ heard'[d] = heard[d]
      /\ api' \in [Calls -> [at : {"idle", "waiting", "answered", "failed", "timedOut"},
                             object : Objects \cup {"none"}, via : {"none", "http", "json"}]]
  <2>1. PICK a \in [at : {"idle", "waiting", "answered", "failed", "timedOut"},
                    object : Objects \cup {"none"}, via : {"none", "http", "json"}] : a = api[c]
    BY <1>0 DEF WebTypes
  <2>2. \A d \in Calls \ {c} : api'[d] = api[d]
    BY <1>0, <1>1 DEF WebTypes
  <2>3. \A d \in Calls \ {c} : heard'[d] = heard[d]
    BY <1>0, <1>1 DEF WebTypes
  <2>4. api'[c] = [api[c] EXCEPT !.at = at]
    BY <1>0, <1>1 DEF WebTypes
  <2>5. api'[c] = [at |-> at, object |-> api[c].object, via |-> "http"]
    BY <1>1, <2>1, <2>4
  <2>6. DOMAIN api' = Calls /\ api' = [d \in Calls |-> api'[d]]
    BY <1>0, <1>1 DEF WebTypes
  <2>7. ASSUME NEW d \in Calls
        PROVE  api'[d] \in [at : {"idle", "waiting", "answered", "failed", "timedOut"},
                            object : Objects \cup {"none"}, via : {"none", "http", "json"}]
    <3>1. CASE d = c
      BY <2>1, <2>5, <3>1
    <3>2. CASE d # c
      BY <1>0, <2>2, <3>2 DEF WebTypes
    <3> QED
      BY <3>1, <3>2
  <2> QED
    BY <2>2, <2>3, <2>5, <2>6, <2>7
<1>3. /\ heard' \in [Calls -> Seq({ReadOf(m) : m \in Messages})]
      /\ heard[c] = <<>>
      /\ at = "answered" => /\ Len(heard'[c]) = 1
                            /\ heard'[c][1] = ReadOf(MarshalResponse(received[c].id, said[c][1]))
  <2>1. heard[c] = <<>>
    BY <1>0, <1>1 DEF OneAnswer
  <2>2. CASE at = "failed"
    BY <1>0, <1>1, <2>1, <2>2 DEF WebTypes
  <2>3. CASE at = "answered"
    <3>1. PICK m : m = MarshalResponse(received[c].id, said[c][1])
      OBVIOUS
    <3>2. m \in Messages
      <4>1. said[c] \in Seq(Said)
        BY <1>0 DEF WebTypes
      <4>0. Len(said[c]) = 1
        BY <1>1, <2>3
      <4>2. said[c][1] \in Said
        BY <4>0, <4>1, ElementOfSeq
      <4>3. received[c].id \in Calls \cup {""}
        BY <1>0, <1>1 DEF OneWay
      <4> QED
        BY <3>1, <4>2, <4>3, MessageIs
    <3>3. PICK R : R = {ReadOf(x) : x \in Messages}
      OBVIOUS
    <3>4. ReadOf(m) \in R
      BY <3>2, <3>3
    <3>5. heard' = [heard EXCEPT ![c] = Append(@, ReadOf(m))]
      BY <1>1, <2>3, <3>1
    <3>6. heard \in [Calls -> Seq(R)]
      BY <1>0, <3>3 DEF WebTypes
    <3>7. PICK x \in R : x = ReadOf(m)
      BY <3>4
    <3>8. heard'[c] = Append(heard[c], x)
      BY <3>5, <3>6, <3>7
    <3>9. heard'[c] \in Seq(R) /\ Len(heard'[c]) = 1 /\ heard'[c][1] = x
      <4>1. <<>> \in Seq(R) /\ Len(<<>>) = 0
        BY EmptySeq
      <4>2. heard'[c] = Append(<<>>, x)
        BY <2>1, <3>8
      <4> QED
        BY <4>1, <4>2, AppendProperties
    <3>10. heard' \in [Calls -> Seq(R)]
      <4>1. DOMAIN heard' = Calls /\ heard' = [d \in Calls |-> heard'[d]]
        BY <3>5, <3>6
      <4>2. \A d \in Calls : heard'[d] \in Seq(R)
        BY <1>2, <3>6, <3>9
      <4> QED
        BY <4>1, <4>2
    <3> QED
      BY <2>1, <3>1, <3>3, <3>7, <3>9, <3>10
  <2> QED
    BY <2>2, <2>3
<1>4. WebTypes'
  <2>1. /\ packet' = packet /\ onWire' = onWire /\ received' = received /\ running' = running
        /\ said' = said /\ jsonDown' = jsonDown /\ sync' = sync /\ stuck' = stuck
    BY <1>1
  <2>2. heard' \in [Calls -> Seq({ReadOf(m) : m \in Messages})]
    BY <1>3
  <2>3. Messages' = Messages /\ Said' = Said
    BY DEF Messages, Said
  <2> QED
    BY <1>0, <1>2, <2>1, <2>2, <2>3 DEF WebTypes
<1>5. \A d \in Calls : api'[d].object = api[d].object /\ api'[d].via = api[d].via
  BY <1>1, <1>2
<1>6. \A d \in Calls : IdOf(d)' = IdOf(d)
  BY <1>1, <1>5 DEF IdOf
<1>7. ASSUME NEW d \in Calls PROVE OneWay(d)' /\ OneAnswer(d)'
  <2>0. OneWay(d) /\ OneAnswer(d)
    BY DEF WebFacts
  <2>1. CASE d = c
    <3>1. api'[d].at = at /\ api'[d].via = "http" /\ api'[d].object = api[d].object
      BY <1>2, <2>1
    <3>2. OneAnswer(d)'
      <4>1. /\ running'[d] = "returned" /\ said'[d] = said[d] /\ received'[d] = received[d]
            /\ d \notin sync'
        BY <1>1, <2>0, <2>1 DEF OneWay
      <4>2. CASE at = "answered"
        <5>1. Len(said[d]) = 1 /\ Len(heard'[d]) = 1
              /\ heard'[d][1] = ReadOf(MarshalResponse(received[d].id, said[d][1]))
          BY <1>1a, <1>3, <2>1, <4>1, <4>2
        <5> QED
          BY <3>1, <4>1, <4>2, <5>1 DEF OneAnswer
      <4>3. CASE at = "failed"
        <5>1. heard'[d] = <<>>
          BY <1>1b, <1>3, <2>1, <4>3
        <5> QED
          BY <3>1, <4>3, <5>1 DEF OneAnswer
      <4> QED
        BY <4>2, <4>3
    <3>3. OneWay(d)'
      BY <1>1, <1>6, <2>0, <2>1, <3>1 DEF OneWay
    <3> QED
      BY <3>2, <3>3
  <2>2. CASE d # c
    <3>1. api'[d] = api[d] /\ heard'[d] = heard[d]
      BY <1>2, <2>2
    <3> QED
      BY <1>1, <1>6, <2>0, <3>1 DEF OneWay, OneAnswer
  <2> QED
    BY <2>1, <2>2
<1>8. \A d \in Calls : api'[d].at = IF d = c THEN at ELSE api[d].at
  BY <1>2
<1>9. IdsApart'
  <2>1. IdsApart
    BY DEF WebFacts
  <2>2. ASSUME NEW o \in Objects, packet[o].id # ""
        PROVE  /\ packet[o].id \in Calls /\ api'[packet[o].id].at # "idle"
               /\ api'[packet[o].id].object = o
    BY <1>5, <1>8, <2>1, <2>2 DEF IdsApart
  <2>3. ASSUME NEW d \in Calls, NEW e \in Calls, api'[d].at = "waiting", api'[e].at = "waiting",
               api'[d].object = api'[e].object
        PROVE  d = e
    <3>1. api[d].at = "waiting" /\ api[e].at = "waiting" /\ api[d].object = api[e].object
      BY <1>5, <1>8, <2>3
    <3> QED
      BY <2>1, <3>1 DEF IdsApart
  <2> QED
    BY <1>1, <2>2, <2>3 DEF IdsApart
<1>10. RoutesLead'
  <2>1. \A d \in Calls : Waits(d)' <=> Waits(d)
    BY <1>1, <1>5, <1>8 DEF Waits
  <2>2. \A d \in Calls : Left(d) => Left(d)'
    <3>1. ASSUME NEW d \in Calls, Left(d) PROVE Left(d)'
      <4>1. d # c
        BY <1>0, <1>1, <3>1 DEF Left, OneWay
      <4>2. api'[d] = api[d] /\ heard'[d] = heard[d] /\ sync' = sync
        BY <1>1, <1>2, <4>1
      <4> QED
        BY <3>1, <4>2 DEF Left, Completes
    <3> QED
      BY <3>1
  <2>3. RoutesLead /\ UNCHANGED <<routes, stuck>>
    BY <1>1 DEF WebFacts
  <2>4. \A d \in Calls : (Leads(d) => Leads(d)') /\ (Expects(d)' => Expects(d))
    BY <1>1, <2>1, <2>2 DEF Leads, Expects, TakenOut
  <2> QED
    BY <1>6, <2>2, <2>3, <2>4, RoutesStay
<1>11. Aside
  BY <1>1, <1>2, <1>5, <1>8 DEF Aside
<1> QED
  BY <1>4, <1>7, <1>9, <1>10, <1>11 DEF WebFacts

-----------------------------------------------------------------------------
(* What an http call is given is a response of its handler.                *)
LEMMA HttpEchoes ==
  ASSUME WebFacts, Echoes, NEW c \in Calls, HttpReads(c)
  PROVE  Echoes'
<1>0. WebTypes /\ OneWay(c)
  BY DEF WebFacts
<1>1. WebFacts' /\ Aside /\ UNCHANGED said
  BY HttpReadsStep DEF Aside
<1>2. SaidMore
  BY <1>1, SaidSame
<1>3. \A d \in Calls : api'[d].object = api[d].object
  BY <1>1 DEF Aside
<1>4. api[c].at = "waiting" /\ api[c].via = "http" /\ \A d \in Calls \ {c} : heard'[d] = heard[d]
  BY <1>0 DEF HttpReads, Heard, WebTypes
<1>5. ASSUME NoneHides', NEW i \in DOMAIN heard'[c]
      PROVE  \E k \in DOMAIN said'[c] : IsGiven(heard'[c][i], said'[c][k])
  <2>1. OneAnswer(c)' /\ heard'[c] \in Seq({ReadOf(m) : m \in Messages}) /\ api'[c].via = "http"
        /\ WebTypes'
    BY <1>1, <1>4 DEF WebFacts, WebTypes, Aside
  <2>2. heard'[c] # <<>>
    BY <1>5, EmptySeq
  <2>3. /\ Len(said'[c]) = 1 /\ Len(heard'[c]) = 1
        /\ heard'[c][1] = ReadOf(MarshalResponse(received'[c].id, said'[c][1]))
    BY <2>1, <2>2 DEF OneAnswer
  <2>4. i = 1 /\ 1 \in DOMAIN said'[c]
    <3>1. said'[c] \in Seq(Said)
      BY <2>1 DEF WebTypes
    <3>2. DOMAIN heard'[c] = 1..1 /\ DOMAIN said'[c] = 1..1
      BY <2>1, <2>3, <3>1, LenProperties
    <3> QED
      BY <1>5, <3>2
  <2>5. PICK r \in Said : r = said'[c][1] /\ ~Hides("strest", r)
    <3>1. said'[c] \in Seq(Said)
      BY <2>1 DEF WebTypes
    <3>2. said'[c][1] \in Said
      BY <2>3, <3>1, ElementOfSeq
    <3> QED
      BY <1>5, <2>4, <3>2 DEF NoneHides, Hides
  <2>6. IsGiven(heard'[c][1], r)
    BY <2>3, <2>5, ReadGiven
  <2> QED
    BY <2>4, <2>5, <2>6
<1>6. \A d \in Calls : heard[d] \in Seq({ReadOf(m) : m \in Messages})
  BY <1>0 DEF WebTypes
<1>7. ASSUME NoneHides', NEW d \in Calls, NEW i \in DOMAIN heard'[d]
      PROVE  \/ i \in DOMAIN heard[d] /\ heard'[d][i] = heard[d][i]
             \/ \E e \in Calls : /\ api'[e].object = api'[d].object
                               /\ \E k \in DOMAIN said'[e] : IsGiven(heard'[d][i], said'[e][k])
  BY <1>4, <1>5, <1>7
<1> HIDE DEF SaidMore, Echoes
<1> QED
  BY <1>2, <1>3, <1>6, <1>7, EchoesStay

(* The loop of the JSON connection takes a response: it has no route, the  *)
(* loop stops at a call that was left, or one that waits is given it.      *)
Drops(m) == NewResponseDynMap(m).id \notin DOMAIN routes /\ UNCHANGED <<heard, api, routes, stuck>>

Stops(m) ==
  /\ NewResponseDynMap(m).id \in DOMAIN routes
  /\ routes[NewResponseDynMap(m).id] \in Calls
  /\ ~Waits(routes[NewResponseDynMap(m).id]) /\ Left(routes[NewResponseDynMap(m).id])
  /\ stuck' = TRUE /\ UNCHANGED <<heard, api, routes>>

Hears(c, m) ==
  /\ Waits(c) /\ IdOf(c) = NewResponseDynMap(m).id
  /\ IdOf(c) \in DOMAIN routes /\ routes[IdOf(c)] = c
  /\ heard' = [heard EXCEPT ![c] = Append(@, ReadOf(m))]
  /\ api' = IF c \in sync \/ NewResponseDynMap(m).status = "completed"
            THEN [api EXCEPT ![c].at = "answered"] ELSE api
  /\ routes' = IF NewResponseDynMap(m).status = "completed"
               THEN [id \in DOMAIN routes \ {IdOf(c)} |-> routes[id]] ELSE routes
  /\ stuck' = stuck

(* One of these is what the reader does with the first response.           *)
LEMMA ReadIs ==
  ASSUME WebFacts, JsonReads
  PROVE  /\ ~stuck /\ jsonDown # <<>> /\ jsonDown' = Tail(jsonDown)
         /\ UNCHANGED <<packet, onWire, received, running, said, sync>>
         /\ \/ Drops(Head(jsonDown)) \/ Stops(Head(jsonDown))
            \/ \E c \in Calls : Hears(c, Head(jsonDown))
<1>1. PICK m : m = Head(jsonDown)
  OBVIOUS
<1>2. PICK r : r = NewResponseDynMap(m)
  OBVIOUS
<1>3. /\ ~stuck /\ jsonDown # <<>> /\ jsonDown' = Tail(jsonDown)
      /\ UNCHANGED <<packet, onWire, received, running, said, sync>>
  BY DEF JsonReads, serverVars
<1>4. \/ r.id \notin DOMAIN routes /\ UNCHANGED <<heard, api, routes, stuck>>
      \/ /\ r.id \in DOMAIN routes /\ api[routes[r.id]].at = "waiting"
         /\ Given(routes[r.id], r)
      \/ /\ r.id \in DOMAIN routes /\ api[routes[r.id]].at # "waiting"
         /\ stuck' = TRUE /\ UNCHANGED <<heard, api, routes>>
  BY <1>1, <1>2 DEF JsonReads
<1>5. CASE r.id \notin DOMAIN routes
  BY <1>1, <1>2, <1>3, <1>4, <1>5 DEF Drops
<1>6. CASE r.id \in DOMAIN routes
  <2>1. PICK c \in Calls : c = routes[r.id] /\ Leads(c) /\ IdOf(c) = r.id
    BY <1>6 DEF WebFacts, RoutesLead
  <2>2. CASE api[c].at = "waiting"
    <3>1. Given(c, r)
      BY <1>4, <1>6, <2>1, <2>2
    <3>2. heard' = [heard EXCEPT ![c] = Append(@, ReadOf(m))]
      BY <1>1, <3>1, Zenon DEF Given, Heard, ReadOf
    <3>3. Waits(c)
      <4>1. OneWay(c)
        BY DEF WebFacts
      <4> QED
        BY <2>1, <2>2, <4>1 DEF Leads, Left, Waits, OneWay
    <3>4. /\ api' = IF c \in sync \/ r.status = "completed"
                    THEN [api EXCEPT ![c].at = "answered"] ELSE api
          /\ routes' = IF r.status = "completed"
                       THEN [id \in DOMAIN routes \ {r.id} |-> routes[id]] ELSE routes
          /\ stuck' = stuck
      BY <3>1 DEF Given, EndsTxn
    <3>5. Hears(c, m)
      BY <1>2, <1>6, <2>1, <3>2, <3>3, <3>4 DEF Hears
    <3> QED
      BY <1>1, <1>3, <3>5
  <2>3. CASE api[c].at # "waiting"
    <3>1. ~Waits(c) /\ Left(c)
      BY <2>1, <2>3 DEF Leads, Waits
    <3>2. stuck' = TRUE /\ UNCHANGED <<heard, api, routes>>
      BY <1>4, <1>6, <2>1, <2>3
    <3>3. Stops(m)
      BY <1>2, <1>6, <2>1, <3>1, <3>2 DEF Stops
    <3> QED
      BY <1>1, <1>3, <3>3
  <2> QED
    BY <2>2, <2>3
<1> QED
  BY <1>5, <1>6

(* What it gives is what it has read.                                      *)
LEMMA HeardIs ==
  ASSUME WebFacts, jsonDown # <<>>, NEW c \in Calls, Hears(c, Head(jsonDown))
  PROVE  /\ heard' \in [Calls -> Seq({ReadOf(m) : m \in Messages})]
         /\ Len(heard[c]) \in Nat /\ Len(heard'[c]) = Len(heard[c]) + 1
         /\ heard'[c][Len(heard[c]) + 1] = ReadOf(Head(jsonDown))
         /\ \A i \in 1..Len(heard[c]) : heard'[c][i] = heard[c][i]
         /\ \A d \in Calls \ {c} : heard'[d] = heard[d]
         /\ api' \in [Calls -> [at : {"idle", "waiting", "answered", "failed", "timedOut"},
                                object : Objects \cup {"none"}, via : {"none", "http", "json"}]]
         /\ api'[c].via = "json" /\ api'[c].object = api[c].object
         /\ \A d \in Calls \ {c} : api'[d] = api[d]
         /\ api[c].at = "waiting" /\ api[c].via = "json"
         /\ api'[c].at = IF c \in sync \/ NewResponseDynMap(Head(jsonDown)).status = "completed"
                         THEN "answered" ELSE "waiting"
<1>0. WebTypes
  BY DEF WebFacts
<1>1. PICK R : R = {ReadOf(m) : m \in Messages}
  OBVIOUS
<1>2. Head(jsonDown) \in Messages
  BY <1>0, TakeIn DEF WebTypes
<1>3. PICK x \in R : x = ReadOf(Head(jsonDown))
  BY <1>1, <1>2
<1>4. heard \in [Calls -> Seq(R)]
  BY <1>0, <1>1 DEF WebTypes
<1>5. heard' = [heard EXCEPT ![c] = Append(@, x)]
  BY <1>3 DEF Hears
<1>6. heard'[c] = Append(heard[c], x) /\ \A d \in Calls \ {c} : heard'[d] = heard[d]
  BY <1>4, <1>5
<1>7. /\ heard'[c] \in Seq(R) /\ Len(heard[c]) \in Nat /\ Len(heard'[c]) = Len(heard[c]) + 1
      /\ heard'[c][Len(heard[c]) + 1] = x
      /\ \A i \in 1..Len(heard[c]) : heard'[c][i] = heard[c][i]
  <2>1. heard[c] \in Seq(R)
    BY <1>4
  <2> QED
    BY <1>6, <2>1, AppendProperties, LenProperties
<1>8. heard' \in [Calls -> Seq(R)]
  <2>1. DOMAIN heard' = Calls /\ heard' = [d \in Calls |-> heard'[d]]
    BY <1>4, <1>5
  <2>2. \A d \in Calls : heard'[d] \in Seq(R)
    BY <1>4, <1>6, <1>7
  <2> QED
    BY <2>1, <2>2
<1>9. PICK end \in BOOLEAN :
        end <=> c \in sync \/ NewResponseDynMap(Head(jsonDown)).status = "completed"
  OBVIOUS
<1>10. api[c].at = "waiting" /\ api[c].via = "json"
       /\ api' = IF end THEN [api EXCEPT ![c].at = "answered"] ELSE api
  BY <1>9 DEF Hears, Waits
<1>11. PICK a \in [at : {"idle", "waiting", "answered", "failed", "timedOut"},
                   object : Objects \cup {"none"}, via : {"none", "http", "json"}] : a = api[c]
  BY <1>0 DEF WebTypes
<1>12. /\ \A d \in Calls \ {c} : api'[d] = api[d]
       /\ api'[c] = IF end THEN [a EXCEPT !.at = "answered"] ELSE a
       /\ DOMAIN api' = Calls /\ api' = [d \in Calls |-> api'[d]]
  BY <1>0, <1>10, <1>11 DEF WebTypes
<1>13. /\ api'[c].via = "json" /\ api'[c].object = api[c].object
       /\ api'[c].at = IF end THEN "answered" ELSE "waiting"
       /\ api'[c] \in [at : {"idle", "waiting", "answered", "failed", "timedOut"},
                       object : Objects \cup {"none"}, via : {"none", "http", "json"}]
  BY <1>10, <1>11, <1>12
<1>14. api' \in [Calls -> [at : {"idle", "waiting", "answered", "failed", "timedOut"},
                           object : Objects \cup {"none"}, via : {"none", "http", "json"}]]
  <2>1. ASSUME NEW d \in Calls
        PROVE  api'[d] \in [at : {"idle", "waiting", "answered", "failed", "timedOut"},
                            object : Objects \cup {"none"}, via : {"none", "http", "json"}]
    <3>1. CASE d = c
      BY <1>13, <3>1
    <3>2. CASE d # c
      BY <1>0, <1>12, <3>2 DEF WebTypes
    <3> QED
      BY <3>1, <3>2
  <2> QED
    BY <1>12, <2>1
<1>15. heard' \in [Calls -> Seq({ReadOf(m) : m \in Messages})]
  BY <1>1, <1>8
<1>16. heard'[c][Len(heard[c]) + 1] = ReadOf(Head(jsonDown))
  BY <1>3, <1>7
<1>17. api'[c].at = IF c \in sync \/ NewResponseDynMap(Head(jsonDown)).status = "completed"
                    THEN "answered" ELSE "waiting"
  BY <1>9, <1>13
<1>18. \A d \in Calls \ {c} : heard'[d] = heard[d] /\ api'[d] = api[d]
  BY <1>6, <1>12
<1> QED
  BY <1>7, <1>10, <1>13, <1>14, <1>15, <1>16, <1>17, <1>18

(* A call that was left stays so.                                          *)
LEMMA ReadLeft == ASSUME WebFacts, JsonReads, NEW d \in Calls, Left(d) PROVE Left(d)'
<1>1. /\ jsonDown # <<>> /\ UNCHANGED sync
      /\ \/ Drops(Head(jsonDown)) \/ Stops(Head(jsonDown))
         \/ \E c \in Calls : Hears(c, Head(jsonDown))
  BY ReadIs
<1>2. CASE heard' = heard /\ api' = api
  BY <1>1, <1>2 DEF Left, Completes
<1>3. ASSUME NEW c \in Calls, Hears(c, Head(jsonDown)) PROVE Left(d)'
  <2>1. d # c
    <3>1. c \in sync => api[c].at = "waiting" /\ DOMAIN heard[c] = {}
      <4>1. OneAnswer(c) /\ api[c].at = "waiting"
        BY <1>3 DEF WebFacts, Hears, Waits
      <4> QED
        BY <4>1, EmptySeq DEF OneAnswer
    <3> QED
      BY <3>1 DEF Left
  <2>2. api'[d] = api[d] /\ heard'[d] = heard[d]
    BY <1>1, <1>3, <2>1, HeardIs
  <2> QED
    BY <1>1, <2>2 DEF Left, Completes
<1> QED
  BY <1>1, <1>2, <1>3 DEF Drops, Stops

(* What the reader takes keeps the types, ids and routes right.            *)
LEMMA JsonReadsStep ==
  ASSUME WebFacts, JsonReads
  PROVE  WebFacts'
<1>0. WebTypes /\ IdsApart /\ RoutesLead
  BY DEF WebFacts
<1>1. /\ ~stuck /\ jsonDown # <<>> /\ jsonDown' = Tail(jsonDown)
      /\ UNCHANGED <<packet, onWire, received, running, said, sync>>
      /\ \/ Drops(Head(jsonDown)) \/ Stops(Head(jsonDown))
         \/ \E c \in Calls : Hears(c, Head(jsonDown))
  BY ReadIs
<1>2. jsonDown' \in Seq(Messages)
  BY <1>0, <1>1, TakeIn DEF WebTypes
<1>3. CASE Drops(Head(jsonDown)) \/ Stops(Head(jsonDown))
  <2>1. heard' = heard /\ api' = api /\ routes' = routes /\ stuck' \in BOOLEAN
    BY <1>0, <1>3 DEF Drops, Stops, WebTypes
  <2>2. WebTypes'
    BY <1>0, <1>1, <1>2, <2>1 DEF WebTypes
  <2>3. \A d \in Calls : /\ IdOf(d)' = IdOf(d) /\ (Left(d)' <=> Left(d))
                         /\ (Leads(d)' <=> Leads(d)) /\ (Expects(d)' <=> Expects(d))
    BY <1>1, <2>1 DEF IdOf, Waits, TakenOut, Left, Completes, Leads, Expects
  <2>4. ASSUME NEW d \in Calls PROVE OneWay(d)' /\ OneAnswer(d)'
    <3>1. OneWay(d) /\ OneAnswer(d)
      BY DEF WebFacts
    <3> QED
      BY <1>1, <2>1, <2>3, <3>1 DEF OneWay, OneAnswer
  <2>5. IdsApart'
    BY <1>0, <1>1, <2>1 DEF IdsApart
  <2>6. RoutesLead'
    <3>1. stuck' => \E d \in Calls : Left(d)'
      BY <1>1, <1>3, <2>3 DEF Drops, Stops
    <3> QED
      BY <1>0, <2>1, <2>3, <3>1 DEF RoutesLead
  <2> QED
    BY <2>2, <2>4, <2>5, <2>6 DEF WebFacts
<1>4. ASSUME NEW c \in Calls, Hears(c, Head(jsonDown)) PROVE WebFacts'
  <2>0. PICK end \in BOOLEAN : end <=> NewResponseDynMap(Head(jsonDown)).status = "completed"
    OBVIOUS
  <2>1. /\ heard' \in [Calls -> Seq({ReadOf(m) : m \in Messages})]
        /\ \A d \in Calls \ {c} : heard'[d] = heard[d]
        /\ Len(heard'[c]) = Len(heard[c]) + 1
        /\ heard'[c][Len(heard[c]) + 1] = ReadOf(Head(jsonDown))
        /\ api' \in [Calls -> [at : {"idle", "waiting", "answered", "failed", "timedOut"},
                               object : Objects \cup {"none"}, via : {"none", "http", "json"}]]
        /\ api'[c].via = "json" /\ api'[c].object = api[c].object
        /\ \A d \in Calls \ {c} : api'[d] = api[d]
        /\ api[c].at = "waiting" /\ api[c].via = "json"
        /\ api'[c].at = IF c \in sync \/ end THEN "answered" ELSE "waiting"
    BY <1>1, <1>4, <2>0, HeardIs
  <2>s. stuck' = stuck /\ sync' = sync
    BY <1>1, <1>4 DEF Hears
  <2>2. WebTypes'
    BY <1>0, <1>1, <1>2, <2>1, <2>s DEF WebTypes
  <2>3. \A d \in Calls : /\ api'[d].object = api[d].object /\ api'[d].via = api[d].via
                         /\ api'[d].at = "waiting" => api[d].at = "waiting"
                         /\ api[d].at # "idle" => api'[d].at # "idle"
    BY <2>1
  <2>4. \A d \in Calls : IdOf(d)' = IdOf(d)
    BY <1>1, <2>3 DEF IdOf
  <2>f. c \in sync => heard[c] = <<>> /\ Len(heard[c]) = 0 /\ Len(heard'[c]) = 1
    <3>1. OneAnswer(c)
      BY DEF WebFacts
    <3> QED
      BY <2>1, <3>1, EmptySeq DEF OneAnswer
  <2>5. ASSUME NEW d \in Calls PROVE OneWay(d)' /\ OneAnswer(d)'
    <3>1. OneWay(d) /\ OneAnswer(d)
      BY DEF WebFacts
    <3>2. CASE d # c
      <4>1. heard'[d] = heard[d] /\ api'[d] = api[d]
        BY <2>1, <3>2
      <4> QED
        BY <1>1, <2>4, <3>1, <4>1 DEF OneWay, OneAnswer
    <3>3. CASE d = c
      <4>1. OneAnswer(d)'
        BY <2>1, <2>f, <2>s, <3>3 DEF OneAnswer
      <4>2. OneWay(d)'
        BY <1>1, <2>1, <2>4, <3>1, <3>3 DEF OneWay
      <4> QED
        BY <4>1, <4>2
    <3> QED
      BY <3>2, <3>3
  <2>6. IdsApart'
    <3>1. ASSUME NEW o \in Objects, packet[o].id # ""
          PROVE  /\ packet[o].id \in Calls /\ api'[packet[o].id].at # "idle"
                 /\ api'[packet[o].id].object = o
      BY <1>0, <2>3, <3>1 DEF IdsApart
    <3>2. ASSUME NEW d \in Calls, NEW e \in Calls, api'[d].at = "waiting", api'[e].at = "waiting",
                 api'[d].object = api'[e].object
          PROVE  d = e
      <4>1. api[d].at = "waiting" /\ api[e].at = "waiting" /\ api[d].object = api[e].object
        BY <2>3, <3>2
      <4> QED
        BY <1>0, <4>1 DEF IdsApart
    <3> QED
      BY <1>1, <3>1, <3>2 DEF IdsApart
  <2>7. RoutesLead'
    <3>1. ASSUME NEW d \in Calls, d # c
          PROVE  (Leads(d)' <=> Leads(d)) /\ (Expects(d)' <=> Expects(d))
      <4>1. api'[d] = api[d] /\ heard'[d] = heard[d]
        BY <2>1, <3>1
      <4> QED
        BY <1>1, <4>1 DEF Waits, TakenOut, Left, Completes, Leads, Expects
    <3>2. Waits(c) /\ IdOf(c) \in DOMAIN routes /\ routes[IdOf(c)] = c
      BY <1>4 DEF Hears
    <3>3. ~end => Leads(c)'
      <4>1. CASE c \notin sync
        BY <2>1, <4>1 DEF Leads, Waits
      <4>2. ASSUME c \in sync, ~end PROVE Left(c)'
        <5>1. heard'[c][1] = ReadOf(Head(jsonDown)) /\ 1 \in DOMAIN heard'[c]
          <6>1. heard'[c] \in Seq({ReadOf(m) : m \in Messages})
            BY <2>1
          <6> QED
            BY <2>1, <2>f, <4>2, <6>1, LenProperties
        <5>2. ReadOf(Head(jsonDown)).status # "completed"
          BY <2>0, <4>2 DEF ReadOf
        <5>3. ~Completes(heard'[c][1])
          BY <5>1, <5>2 DEF Completes
        <5> QED
          BY <2>s, <4>2, <5>1, <5>3 DEF Left, Completes
      <4> QED
        BY <4>1, <4>2 DEF Leads
    <3>4. ~stuck'
      BY <1>1, <2>s
    <3>5. CASE ~end
      <4>1. routes' = routes
        BY <1>4, <2>0, <3>5 DEF Hears
      <4>2. ASSUME NEW id \in DOMAIN routes
            PROVE  \E d \in Calls : d = routes[id] /\ Leads(d)' /\ IdOf(d)' = id
        <5>1. PICK d \in Calls : d = routes[id] /\ Leads(d) /\ IdOf(d) = id
          BY <1>0 DEF RoutesLead
        <5>2. Leads(d)'
          BY <3>1, <3>3, <3>5, <5>1
        <5> QED
          BY <2>4, <5>1, <5>2
      <4>3. ASSUME NEW d \in Calls, Expects(d)'
            PROVE  IdOf(d) \in DOMAIN routes /\ routes[IdOf(d)] = d
        <5>1. CASE d = c
          BY <3>2, <5>1
        <5>2. CASE d # c
          BY <1>0, <3>1, <4>3, <5>2 DEF RoutesLead
        <5> QED
          BY <5>1, <5>2
      <4> QED
        BY <2>4, <3>4, <4>1, <4>2, <4>3 DEF RoutesLead
    <3>6. CASE end
      <4>0. routes' = [id \in DOMAIN routes \ {IdOf(c)} |-> routes[id]]
        BY <1>4, <2>0, <3>6 DEF Hears
      <4>1. ~Waits(c)'
        BY <2>1, <3>6 DEF Waits
      <4>3. ASSUME NEW id \in DOMAIN routes'
            PROVE  \E d \in Calls : d = routes'[id] /\ Leads(d)' /\ IdOf(d)' = id
        <5>1. id \in DOMAIN routes /\ id # IdOf(c) /\ routes'[id] = routes[id]
          BY <4>0, <4>3
        <5>2. PICK d \in Calls : d = routes[id] /\ Leads(d) /\ IdOf(d) = id
          BY <1>0, <5>1 DEF RoutesLead
        <5>3. d # c
          BY <5>1, <5>2
        <5>4. Leads(d)'
          BY <3>1, <5>2, <5>3
        <5> QED
          BY <2>4, <5>1, <5>2, <5>4
      <4>4. ASSUME NEW d \in Calls, Expects(d)'
            PROVE  IdOf(d) \in DOMAIN routes' /\ routes'[IdOf(d)] = d
        <5>0. d # c
          BY <4>1, <4>4 DEF Expects
        <5>1. d # c /\ Expects(d)
          BY <3>1, <4>4, <5>0
        <5>3. IdOf(d) \in DOMAIN routes /\ routes[IdOf(d)] = d
          BY <1>0, <5>1 DEF RoutesLead
        <5>4. IdOf(d) # IdOf(c)
          BY <3>2, <5>1, <5>3
        <5> QED
          BY <4>0, <5>3, <5>4
      <4> QED
        BY <2>4, <3>4, <4>3, <4>4 DEF RoutesLead
    <3> QED
      BY <3>5, <3>6
  <2> QED
    BY <2>2, <2>5, <2>6, <2>7 DEF WebFacts
<1> QED
  BY <1>1, <1>3, <1>4

-----------------------------------------------------------------------------
LEMMA JsonPipe ==
  ASSUME WebFacts, JsonReads, NEW n, NEW who, NEW nth, Pipe(n, who, nth)
  PROVE  /\ who # <<>> /\ 1 \in 1..Len(who)
         /\ Pipe([n EXCEPT ![who[1]] = nth[1]], Tail(who), Tail(nth))'
<1>0. WebTypes
  BY DEF WebFacts
<1>1. /\ jsonDown # <<>> /\ jsonDown' = Tail(jsonDown)
      /\ UNCHANGED <<packet, onWire, received, running, said>>
      /\ \/ Drops(Head(jsonDown)) \/ Stops(Head(jsonDown))
         \/ \E c \in Calls : Hears(c, Head(jsonDown))
  BY ReadIs
<1>2. /\ n \in [Calls -> Nat] /\ who \in Seq(Calls) /\ nth \in Seq(Nat)
      /\ jsonDown \in Seq(Messages)
      /\ Len(who) \in Nat \ {0} /\ Len(nth) = Len(who) /\ Len(jsonDown) = Len(who)
  <2>1. Len(jsonDown) \in Nat \ {0}
    BY <1>0, <1>1, EmptySeq, LenProperties DEF WebTypes
  <2> QED
    BY <1>0, <2>1 DEF Pipe, WebTypes
<1>3. who # <<>> /\ nth # <<>> /\ 1 \in 1..Len(who)
  BY <1>2, EmptySeq
<1>4. PICK L \in Nat : Len(who) = L + 1
  <2>1. \A k \in Nat \ {0} : \E l \in Nat : k = l + 1
    <3>1. ASSUME NEW k \in Nat \ {0} PROVE k - 1 \in Nat /\ k = (k - 1) + 1
      OBVIOUS
    <3> QED
      BY <3>1
  <2> QED
    BY <1>2, <2>1
<1>5. PICK w1 \in Seq(Calls) : w1 = Tail(who) /\ Len(w1) = L /\ \A i \in 1..L : w1[i] = who[i + 1]
  <2>1. PICK q \in Seq(Calls) : q = who /\ q # <<>> /\ Len(q) = L + 1
    BY <1>2, <1>3, <1>4
  <2>2. Tail(q) \in Seq(Calls) /\ Len(Tail(q)) = L /\ \A i \in 1..L : Tail(q)[i] = q[i + 1]
    BY <2>1, HeadTailProperties
  <2> QED
    BY <2>1, <2>2
<1>6. PICK t1 \in Seq(Nat) : t1 = Tail(nth) /\ Len(t1) = L /\ \A i \in 1..L : t1[i] = nth[i + 1]
  <2>1. PICK q \in Seq(Nat) : q = nth /\ q # <<>> /\ Len(q) = L + 1
    BY <1>2, <1>3, <1>4
  <2>2. Tail(q) \in Seq(Nat) /\ Len(Tail(q)) = L /\ \A i \in 1..L : Tail(q)[i] = q[i + 1]
    BY <2>1, HeadTailProperties
  <2> QED
    BY <2>1, <2>2
<1>7. Len(jsonDown') = L /\ \A i \in 1..L : jsonDown'[i] = jsonDown[i + 1]
  BY <1>1, <1>2, <1>4, HeadTailProperties
<1>8. ASSUME NEW k \in 1..Len(who)
      PROVE  /\ who[k] \in Calls /\ nth[k] \in Nat /\ n[who[k]] \in Nat
             /\ api[who[k]].via = "json"
             /\ n[who[k]] < nth[k] /\ nth[k] <= Len(said[who[k]])
             /\ jsonDown[k] = MarshalResponse(received[who[k]].id, said[who[k]][nth[k]])
  <2>1. who[k] \in Calls /\ nth[k] \in Nat
    BY <1>2, ElementOfSeq
  <2>2. n[who[k]] \in Nat
    BY <1>2, <2>1
  <2> QED
    BY <2>1, <2>2 DEF Pipe
<1>9. PICK n1 \in [Calls -> Nat] : n1 = [n EXCEPT ![who[1]] = nth[1]]
  BY <1>2, <1>3, <1>8
<1>10. /\ n1[who[1]] = nth[1] /\ \A d \in Calls : d # who[1] => n1[d] = n[d]
  BY <1>2, <1>3, <1>8, <1>9
<1>11. \A d \in Calls : api'[d].via = api[d].via
  <2>1. CASE Drops(Head(jsonDown)) \/ Stops(Head(jsonDown))
    BY <2>1 DEF Drops, Stops
  <2>2. ASSUME NEW c \in Calls, Hears(c, Head(jsonDown))
        PROVE  \A d \in Calls : api'[d].via = api[d].via
    <3>1. /\ api'[c].via = "json" /\ api[c].via = "json"
          /\ \A d \in Calls \ {c} : api'[d] = api[d]
      BY <1>1, <2>2, HeardIs
    <3> QED
      BY <3>1
  <2> QED
    BY <1>1, <2>1, <2>2
<1>12. ASSUME NEW k \in 1..L
       PROVE  /\ k + 1 \in 1..Len(who) /\ api'[w1[k]].via = "json"
              /\ n1[w1[k]] < t1[k] /\ t1[k] <= Len(said[w1[k]])
              /\ jsonDown'[k] = MarshalResponse(received[w1[k]].id, said[w1[k]][t1[k]])
  <2>1. k + 1 \in 1..Len(who) /\ 1 < k + 1
    BY <1>4
  <2>2. w1[k] = who[k + 1] /\ t1[k] = nth[k + 1] /\ jsonDown'[k] = jsonDown[k + 1]
    BY <1>5, <1>6, <1>7
  <2>3. n1[w1[k]] < t1[k]
    <3>1. CASE w1[k] = who[1]
      <4>1. nth[1] < nth[k + 1]
        BY <1>3, <2>1, <2>2, <3>1 DEF Pipe
      <4> QED
        BY <1>10, <2>2, <3>1, <4>1
    <3>2. CASE w1[k] # who[1]
      BY <1>8, <1>10, <2>1, <2>2, <3>2
    <3> QED
      BY <3>1, <3>2
  <2> QED
    BY <1>8, <1>11, <2>1, <2>2, <2>3
<1>13. ASSUME NEW k \in 1..L, NEW l \in 1..L, k < l, w1[k] = w1[l] PROVE t1[k] < t1[l]
  <2>1. k + 1 \in 1..Len(who) /\ l + 1 \in 1..Len(who) /\ k + 1 < l + 1
    BY <1>4, <1>13
  <2>2. who[k + 1] = who[l + 1] /\ t1[k] = nth[k + 1] /\ t1[l] = nth[l + 1]
    BY <1>5, <1>6, <1>13
  <2> QED
    BY <2>1, <2>2 DEF Pipe
<1>14. ASSUME NEW d \in Calls PROVE n1[d] <= Len(said[d])
  <2>1. CASE d = who[1]
    BY <1>3, <1>8, <1>10, <2>1
  <2>2. CASE d # who[1]
    BY <1>10, <2>2 DEF Pipe
  <2> QED
    BY <2>1, <2>2
<1>15. ASSUME NEW d \in Calls, api[d].via = "json", NEW i \in 1..Len(said[d])
       PROVE  i <= n1[d] \/ \E k \in 1..L : w1[k] = d /\ t1[k] = i
  <2>1. CASE i <= n[d]
    <3>1. n[d] <= n1[d] /\ n[d] \in Nat /\ n1[d] \in Nat /\ i \in Nat
      <4>1. CASE d = who[1]
        <5>1. n[d] < nth[1] /\ nth[1] \in Nat /\ n[d] \in Nat
          BY <1>3, <1>8, <4>1
        <5> QED
          BY <1>10, <4>1, <5>1
      <4>2. CASE d # who[1]
        BY <1>2, <1>10, <4>2
      <4> QED
        BY <4>1, <4>2
    <3> QED
      BY <2>1, <3>1
  <2>2. CASE ~(i <= n[d])
    <3>1. PICK k \in 1..Len(who) : who[k] = d /\ nth[k] = i
      BY <1>15, <2>2 DEF Pipe
    <3>2. CASE k = 1
      BY <1>9, <1>10, <3>1, <3>2
    <3>3. CASE k # 1
      <4>1. k - 1 \in 1..L /\ (k - 1) + 1 = k
        BY <1>4, <3>3
      <4> QED
        BY <1>5, <1>6, <3>1, <4>1
    <3> QED
      BY <3>2, <3>3
  <2> QED
    BY <2>1, <2>2
<1>16. Pipe(n1, w1, t1)'
  <2>1. said' = said /\ received' = received
    BY <1>1
  <2>2. /\ n1 \in [Calls -> Nat] /\ w1 \in Seq(Calls) /\ t1 \in Seq(Nat)
        /\ Len(w1) = L /\ Len(t1) = L /\ Len(jsonDown') = L
    BY <1>5, <1>6, <1>7
  <2>3. \A d \in Calls : api'[d].via = "json" => api[d].via = "json"
    BY <1>11
  <2>4. \A k \in 1..Len(w1) :
          /\ api'[w1[k]].via = "json"
          /\ n1[w1[k]] < t1[k] /\ t1[k] <= Len(said'[w1[k]])
          /\ jsonDown'[k] = MarshalResponse(received'[w1[k]].id, said'[w1[k]][t1[k]])
    BY <1>12, <2>1, <2>2
  <2>5. \A k, l \in 1..Len(w1) : k < l /\ w1[k] = w1[l] => t1[k] < t1[l]
    BY <1>13, <2>2
  <2>6. \A d \in Calls : n1[d] <= Len(said'[d])
    BY <1>14, <2>1
  <2>7. \A d \in Calls : api'[d].via = "json" =>
          \A i \in 1..Len(said'[d]) :
            i <= n1[d] \/ \E k \in 1..Len(w1) : w1[k] = d /\ t1[k] = i
    BY <1>15, <2>1, <2>2, <2>3
  <2> QED
    BY <2>1, <2>2, <2>4, <2>5, <2>6, <2>7 DEF Pipe
<1> QED
  BY <1>3, <1>5, <1>6, <1>9, <1>16

(* The response that the loop takes, if no handler hid its txn: r is the   *)
(* j-th of the call w.                                                     *)
HeadOf(w, j, r, n, who, nth) ==
  /\ w = who[1] /\ j = nth[1] /\ r = said[w][j]
  /\ n[w] \in Nat /\ n[w] < j /\ j <= Len(said[w]) /\ Len(said[w]) \in Nat
  /\ said[w] \in Seq(Said)
  /\ api[w].via = "json" /\ IdOf(w) # "" /\ api[w].object \in Objects
  /\ Head(jsonDown) = MarshalResponse(received[w].id, r)
  /\ NewResponseDynMap(Head(jsonDown)).id = IdOf(w)
  /\ NewResponseDynMap(Head(jsonDown)).status = r.status

(* There is one whenever the reader takes a response.                      *)
LEMMA HeadIs ==
  ASSUME WebFacts, jsonDown # <<>>, NEW n, NEW who, NEW nth, Pipe(n, who, nth),
         1 \in 1..Len(who), NoneHides
  PROVE  \E w \in Calls, j \in Nat, r \in Said : HeadOf(w, j, r, n, who, nth)
<1>0. WebTypes
  BY DEF WebFacts
<1>1. PICK w \in Calls, j \in Nat : w = who[1] /\ j = nth[1]
  <2>1. who \in Seq(Calls) /\ nth \in Seq(Nat) /\ 1 \in 1..Len(nth)
    BY DEF Pipe
  <2> QED
    BY <2>1, ElementOfSeq
<1>2. said[w] \in Seq(Said) /\ Len(said[w]) \in Nat
  BY <1>0, LenProperties DEF WebTypes
<1>3. n[w] \in Nat
  BY DEF Pipe
<1>4. /\ n[w] < j /\ j <= Len(said[w]) /\ api[w].via = "json"
      /\ jsonDown[1] = MarshalResponse(received[w].id, said[w][j])
  BY <1>1 DEF Pipe
<1>5. j \in 1..Len(said[w])
  BY <1>2, <1>3, <1>4
<1>6. PICK r \in Said : r = said[w][j]
  BY <1>2, <1>5, ElementOfSeq
<1>7. ~Hides("strest", r)
  <2>1. j \in DOMAIN said[w]
    BY <1>2, <1>5, LenProperties
  <2> QED
    BY <1>6, <2>1 DEF NoneHides
<1>8. Head(jsonDown) = MarshalResponse(received[w].id, r)
  <2>1. PICK q \in Seq(Messages) : q = jsonDown /\ q # <<>>
    BY <1>0 DEF WebTypes
  <2>2. Head(q) = q[1]
    BY <2>1, HeadTailProperties
  <2> QED
    BY <1>4, <1>6, <2>1, <2>2
<1>9. /\ NewResponseDynMap(Head(jsonDown)).id = received[w].id
      /\ NewResponseDynMap(Head(jsonDown)).status = r.status
  BY <1>7, <1>8, ReadSaid
<1>10. received[w].id = IdOf(w) /\ IdOf(w) # "" /\ api[w].object \in Objects
  <2>1. said[w] # <<>>
    BY <1>2, <1>5, EmptySeq
  <2>2. OneWay(w)
    BY DEF WebFacts
  <2> QED
    BY <1>4, <2>1, <2>2 DEF OneWay
<1> QED
  BY <1>1, <1>2, <1>3, <1>4, <1>6, <1>8, <1>9, <1>10 DEF HeadOf

(* Calls with the same txn id have the same object.                        *)
LEMMA SameObject ==
  ASSUME WebFacts, NEW c \in Calls, NEW w \in Calls, IdOf(c) = IdOf(w), IdOf(w) # "",
         api[c].object \in Objects, api[w].object \in Objects
  PROVE  api[c].object = api[w].object
<1>1. PICK o \in Objects, p \in Objects : o = api[c].object /\ p = api[w].object
  OBVIOUS
<1>2. packet[o].id = packet[p].id /\ packet[o].id # ""
  BY <1>1 DEF IdOf
<1>3. api[packet[o].id].object = o /\ api[packet[p].id].object = p
  BY <1>2 DEF IdsApart, WebFacts
<1> QED
  BY <1>1, <1>2, <1>3

(* The call that is given a response has written it, if nothing disturbs   *)
(* the call; and the response is the next that its handler wrote.          *)
LEMMA HearsOwn ==
  ASSUME WebFacts, JsonReads, NEW n, NEW who, NEW nth, Pipe(n, who, nth), Told(n),
         NEW c \in Calls, Hears(c, Head(jsonDown)), Undisturbed(c)
  PROVE  who[1] = c /\ nth[1] = n[c] + 1
<1>0. WebTypes /\ IdsApart
  BY DEF WebFacts
<1>1. jsonDown # <<>> /\ 1 \in 1..Len(who)
  BY ReadIs, JsonPipe
<1>2a. PICK w \in Calls, j \in Nat, r \in Said : HeadOf(w, j, r, n, who, nth)
  BY <1>1, HeadIs DEF Undisturbed
<1>2. /\ w = who[1] /\ j = nth[1]
      /\ n[w] \in Nat /\ n[w] < j /\ j <= Len(said[w]) /\ Len(said[w]) \in Nat
      /\ said[w] \in Seq(Said) /\ IdOf(w) # "" /\ api[w].object \in Objects
      /\ api[w].via = "json" /\ NewResponseDynMap(Head(jsonDown)).id = IdOf(w)
  BY <1>2a DEF HeadOf
<1>10. /\ IdOf(c) = IdOf(w) /\ api[c].at = "waiting" /\ api[c].via = "json"
       /\ api[c].object \in Objects
  <2>1. OneWay(c)
    BY DEF WebFacts
  <2> QED
    BY <1>2, <2>1 DEF Hears, Waits, OneWay
<1>11. api[c].object = api[w].object
  BY <1>2, <1>10, SameObject
<1>12. GivenOwn(c, n) /\ EarlierOver(c, n)
  BY <1>10 DEF Told
<1>13. c = w
  <2>1. SUFFICES ASSUME c # w PROVE FALSE
    OBVIOUS
  <2>2. PICK i \in 1..n[w] : Completes(said[w][i])
    BY <1>2, <1>10, <1>11, <1>12, <2>1 DEF EarlierOver
  <2>3. i \in DOMAIN said[w] /\ i < Len(said[w])
    <3>1. PICK k \in Nat, m \in Nat : k = n[w] /\ m = Len(said[w]) /\ k < j /\ j <= m
      BY <1>2
    <3>2. i \in 1..m /\ i < m
      BY <2>2, <3>1
    <3>3. DOMAIN said[w] = 1..Len(said[w])
      BY <1>2, LenProperties
    <3> QED
      BY <3>1, <3>2, <3>3
  <2>4. ~Chatty(w)
    BY <1>11, <2>1 DEF Undisturbed
  <2> QED
    BY <2>2, <2>3, <2>4 DEF Chatty
<1>14. j = n[c] + 1
  <2>1. PICK x \in Nat, m \in Nat : x = n[w] /\ m = Len(said[w]) /\ x < j /\ j <= m
    BY <1>2
  <2>2. x + 1 \in 1..m /\ ~(x + 1 <= x)
    BY <2>1
  <2>3. PICK k \in 1..Len(who) : who[k] = w /\ nth[k] = x + 1
    BY <1>2, <2>1, <2>2 DEF Pipe
  <2>4. CASE k = 1
    BY <1>2, <1>13, <2>1, <2>3, <2>4
  <2>5. CASE k # 1
    <3>1. 1 < k
      BY <1>1, <2>3, <2>5
    <3>2. j < nth[k]
      BY <1>1, <1>2, <2>3, <3>1 DEF Pipe
    <3> QED
      BY <2>1, <2>3, <3>2
  <2> QED
    BY <2>4, <2>5
<1> QED
  BY <1>2, <1>13, <1>14

(* A call is told its own responses only, and is answered with the first   *)
(* that completes it.                                                      *)
LEMMA JsonTold ==
  ASSUME WebFacts, JsonReads, NEW n, NEW who, NEW nth, Pipe(n, who, nth), Told(n)
  PROVE  Told([n EXCEPT ![who[1]] = nth[1]])'
<1>0. WebTypes
  BY DEF WebFacts
<1>1. /\ jsonDown # <<>>
      /\ UNCHANGED <<packet, onWire, received, running, said, sync>>
      /\ \/ Drops(Head(jsonDown)) \/ Stops(Head(jsonDown))
         \/ \E c \in Calls : Hears(c, Head(jsonDown))
  BY ReadIs
<1>2. 1 \in 1..Len(who)
  BY JsonPipe
<1>3. PICK w \in Calls, j \in Nat : w = who[1] /\ j = nth[1]
  <2>1. who \in Seq(Calls) /\ nth \in Seq(Nat) /\ 1 \in 1..Len(nth)
    BY <1>2 DEF Pipe
  <2> QED
    BY <1>2, <2>1, ElementOfSeq
<1>4. n \in [Calls -> Nat] /\ n[w] \in Nat /\ n[w] < j
  <2>1. n \in [Calls -> Nat]
    BY DEF Pipe
  <2> QED
    BY <1>2, <1>3, <2>1 DEF Pipe
<1>5. PICK n1 \in [Calls -> Nat] : n1 = [n EXCEPT ![who[1]] = nth[1]]
  BY <1>3, <1>4
<1>6. n1[w] = j /\ \A d \in Calls : d # w => n1[d] = n[d]
  BY <1>3, <1>4, <1>5
<1>7. \A d \in Calls : n[d] \in Nat /\ n1[d] \in Nat /\ n[d] <= n1[d] /\ 1..n[d] \subseteq 1..n1[d]
  <2>1. ASSUME NEW d \in Calls PROVE n[d] \in Nat /\ n1[d] \in Nat /\ n[d] <= n1[d]
    <3>1. CASE d = w
      BY <1>4, <1>6, <3>1
    <3>2. CASE d # w
      BY <1>4, <1>6, <3>2
    <3> QED
      BY <3>1, <3>2
  <2> QED
    BY <2>1
<1>8. \A d \in Calls : api'[d].via = api[d].via /\ api'[d].object = api[d].object
                       /\ (api'[d].at = "waiting" => api[d].at = "waiting")
  <2>1. CASE Drops(Head(jsonDown)) \/ Stops(Head(jsonDown))
    BY <2>1 DEF Drops, Stops
  <2>2. ASSUME NEW c \in Calls, Hears(c, Head(jsonDown))
        PROVE  \A d \in Calls : api'[d].via = api[d].via /\ api'[d].object = api[d].object
                                /\ (api'[d].at = "waiting" => api[d].at = "waiting")
    <3>1. /\ api'[c].via = "json" /\ api[c].via = "json" /\ api'[c].object = api[c].object
          /\ api[c].at = "waiting" /\ \A d \in Calls \ {c} : api'[d] = api[d]
      BY <1>1, <2>2, HeardIs
    <3> QED
      BY <3>1
  <2> QED
    BY <1>1, <2>1, <2>2
<1>9. ASSUME NEW c \in Calls, api'[c].via = "json", Undisturbed(c)'
      PROVE  GivenOwn(c, n1)' /\ EarlierOver(c, n1)'
  <2>1. Undisturbed(c) /\ api[c].via = "json"
    BY <1>1, <1>8, <1>9, ReadLeft, SaidSame, StillUndisturbed
  <2>2. GivenOwn(c, n) /\ EarlierOver(c, n) /\ Len(heard[c]) \in Nat
    BY <1>0, <2>1, LenProperties DEF Told, WebTypes
  <2>3. EarlierOver(c, n1)'
    <3>1. ASSUME api'[c].at = "waiting", NEW d \in Calls \ {c},
                 api'[d].object = api'[c].object, api'[d].via = "json"
          PROVE  \E i \in 1..n1[d] : Completes(said'[d][i])
      <4>1. PICK i \in 1..n[d] : Completes(said[d][i])
        BY <1>8, <2>2, <3>1 DEF EarlierOver
      <4> QED
        BY <1>1, <1>7, <4>1 DEF Completes
    <3> QED
      BY <3>1 DEF EarlierOver
  <2>4. CASE ~Hears(c, Head(jsonDown))
    <3>1. heard'[c] = heard[c] /\ api'[c] = api[c]
      <4>1. CASE Drops(Head(jsonDown)) \/ Stops(Head(jsonDown))
        BY <4>1 DEF Drops, Stops
      <4>2. ASSUME NEW d \in Calls, Hears(d, Head(jsonDown))
            PROVE  heard'[c] = heard[c] /\ api'[c] = api[c]
        <5>1. c # d
          BY <2>4, <4>2
        <5> QED
          BY <1>1, <4>2, <5>1, HeardIs
      <4> QED
        BY <1>1, <4>1, <4>2
    <3>2. api[c].at = "waiting" => n1[c] = n[c]
      <4>1. SUFFICES ASSUME api[c].at = "waiting", c = w PROVE FALSE
        BY <1>6
      <4>2. Waits(c) /\ RoutesLead /\ OneWay(c)
        BY <2>1, <4>1 DEF Waits, WebFacts
      <4>s. said[c] # <<>>
        <5>1. n[c] < j /\ j <= Len(said[c]) /\ n[c] \in Nat
          BY <1>2, <1>3, <1>4, <4>1 DEF Pipe
        <5> QED
          BY <5>1, EmptySeq
      <4>3. IdOf(c) \in DOMAIN routes /\ routes[IdOf(c)] = c
        BY <4>2, <4>s DEF RoutesLead, Expects, TakenOut, OneWay
      <4>4. NewResponseDynMap(Head(jsonDown)).id = IdOf(c)
        <5>1. PICK v \in Calls, k \in Nat, r \in Said : HeadOf(v, k, r, n, who, nth)
          BY <1>1, <1>2, <2>1, HeadIs DEF Undisturbed
        <5> QED
          BY <1>3, <4>1, <5>1 DEF HeadOf
      <4>5. ~Drops(Head(jsonDown)) /\ ~Stops(Head(jsonDown))
        BY <4>2, <4>3, <4>4 DEF Drops, Stops
      <4>6. PICK d \in Calls : Hears(d, Head(jsonDown))
        BY <1>1, <4>5
      <4>7. Waits(d) /\ IdOf(d) = IdOf(c)
        BY <4>4, <4>6 DEF Hears
      <4>8. routes[IdOf(d)] = d
        BY <4>6 DEF Hears
      <4>9. d = c
        BY <4>3, <4>7, <4>8
      <4> QED
        BY <2>4, <4>6, <4>9
    <3>3. Len(heard[c]) <= n1[c]
      BY <1>7, <2>2 DEF GivenOwn
    <3>4. GivenOwn(c, n1)'
      BY <1>1, <2>2, <3>1, <3>2, <3>3 DEF GivenOwn, Completes
    <3> QED
      BY <2>3, <3>4
  <2>5. CASE Hears(c, Head(jsonDown))
    <3>1. w = c /\ j = n[c] + 1
      BY <1>3, <2>1, <2>5, HearsOwn
    <3>2. /\ Len(heard'[c]) = Len(heard[c]) + 1
          /\ heard'[c][Len(heard[c]) + 1] = ReadOf(Head(jsonDown))
          /\ \A i \in 1..Len(heard[c]) : heard'[c][i] = heard[c][i]
          /\ api[c].at = "waiting"
          /\ api'[c].at = IF c \in sync \/ NewResponseDynMap(Head(jsonDown)).status = "completed"
                          THEN "answered" ELSE "waiting"
      BY <1>1, <2>5, HeardIs
    <3>3. Len(heard[c]) = n[c] /\ Len(heard'[c]) = j /\ n1[c] = j
      BY <1>6, <2>2, <3>1, <3>2 DEF GivenOwn
    <3>4. PICK r \in Said :
            /\ r = said[c][j] /\ Head(jsonDown) = MarshalResponse(received[c].id, r)
            /\ NewResponseDynMap(Head(jsonDown)).status = r.status
      <4>1. PICK v \in Calls, k \in Nat, r \in Said : HeadOf(v, k, r, n, who, nth)
        BY <1>1, <1>2, <2>1, HeadIs DEF Undisturbed
      <4> QED
        BY <1>3, <3>1, <4>1 DEF HeadOf
    <3>9. api'[c].at = IF c \in sync \/ Completes(r) THEN "answered" ELSE "waiting"
      BY <3>2, <3>4 DEF Completes
    <3>10. ASSUME NEW i \in 1..Len(heard'[c])
           PROVE  /\ heard'[c][i] = ReadOf(MarshalResponse(received[c].id, said[c][i]))
                  /\ c \notin sync => (Completes(said[c][i]) <=>
                                         api'[c].at = "answered" /\ i = Len(heard'[c]))
      <4>1. CASE i = j
        BY <3>2, <3>3, <3>1, <3>4, <3>9, <4>1
      <4>2. CASE i # j
        <5>1. i \in 1..Len(heard[c])
          BY <2>2, <3>1, <3>3, <4>2
        <5>2. heard'[c][i] = heard[c][i]
          BY <3>2, <5>1
        <5>3. /\ heard[c][i] = ReadOf(MarshalResponse(received[c].id, said[c][i]))
              /\ c \notin sync => ~Completes(said[c][i])
          BY <2>2, <3>2, <5>1 DEF GivenOwn
        <5> QED
          BY <3>3, <4>2, <5>2, <5>3
      <4> QED
        BY <4>1, <4>2
    <3>11. heard'[c] # <<>>
      BY <1>4, <3>1, <3>3, EmptySeq
    <3>12. GivenOwn(c, n1)'
      BY <1>1, <3>3, <3>10, <3>11 DEF GivenOwn, Completes
    <3> QED
      BY <2>3, <3>12
  <2> QED
    BY <2>4, <2>5
<1> QED
  BY <1>5, <1>9 DEF Told

-----------------------------------------------------------------------------
LEMMA StutterStep == ASSUME WebFacts, UNCHANGED webVars PROVE WebFacts' /\ Aside
<1>1. /\ packet' = packet /\ api' = api /\ onWire' = onWire /\ received' = received
      /\ running' = running /\ said' = said /\ jsonDown' = jsonDown /\ routes' = routes
      /\ heard' = heard /\ sync' = sync /\ stuck' = stuck
  BY DEF webVars, serverVars, loopVars
<1>2. WebTypes'
  BY <1>1 DEF WebFacts, WebTypes
<1>3. \A d \in Calls : /\ IdOf(d)' = IdOf(d) /\ (Left(d)' <=> Left(d))
                       /\ (Leads(d)' <=> Leads(d)) /\ (Expects(d)' <=> Expects(d))
  BY <1>1 DEF IdOf, Waits, TakenOut, Left, Completes, Leads, Expects
<1>4. ASSUME NEW d \in Calls PROVE OneWay(d)' /\ OneAnswer(d)'
  <2>1. OneWay(d) /\ OneAnswer(d)
    BY DEF WebFacts
  <2> QED
    BY <1>1, <1>3, <2>1 DEF OneWay, OneAnswer
<1>5. IdsApart'
  BY <1>1 DEF WebFacts, IdsApart
<1>6. RoutesLead'
  BY <1>1, <1>3 DEF WebFacts, RoutesLead
<1> QED
  BY <1>1, <1>2, <1>4, <1>5, <1>6 DEF WebFacts, Aside

(* A synchronous call waits no longer.                                     *)
LEMMA TimeoutIs ==
  ASSUME WebFacts, NEW c \in Calls, Timeout(c)
  PROVE  /\ c \in sync /\ api[c].at = "waiting" /\ api[c].via = "json" /\ Left(c)' /\ Waits(c)
         /\ UNCHANGED <<packet, onWire, received, running, said, jsonDown, routes, stuck, heard, sync>>
         /\ \A d \in Calls \ {c} : api'[d] = api[d]
         /\ api'[c] = [at |-> "timedOut", object |-> api[c].object, via |-> "json"]
         /\ api' \in [Calls -> [at : {"idle", "waiting", "answered", "failed", "timedOut"},
                                object : Objects \cup {"none"}, via : {"none", "http", "json"}]]
<1>1. /\ c \in sync /\ api[c].at = "waiting" /\ api' = [api EXCEPT ![c].at = "timedOut"]
      /\ UNCHANGED <<packet, onWire, received, running, said, jsonDown, routes, stuck, heard, sync>>
  BY DEF Timeout, serverVars, loopVars
<1>2. WebTypes /\ OneWay(c)
  BY DEF WebFacts
<1>3. api[c].via = "json"
  BY <1>1, <1>2 DEF OneWay
<1>4. PICK a \in [at : {"idle", "waiting", "answered", "failed", "timedOut"},
                  object : Objects \cup {"none"}, via : {"none", "http", "json"}] : a = api[c]
  BY <1>2 DEF WebTypes
<1>5. /\ \A d \in Calls \ {c} : api'[d] = api[d]
      /\ api'[c] = [a EXCEPT !.at = "timedOut"]
      /\ DOMAIN api' = Calls /\ api' = [d \in Calls |-> api'[d]]
  BY <1>1, <1>2, <1>4 DEF WebTypes
<1>6. api'[c] = [at |-> "timedOut", object |-> api[c].object, via |-> "json"]
  BY <1>3, <1>4, <1>5
<1>7. ASSUME NEW d \in Calls
      PROVE  api'[d] \in [at : {"idle", "waiting", "answered", "failed", "timedOut"},
                          object : Objects \cup {"none"}, via : {"none", "http", "json"}]
  <2>1. CASE d = c
    BY <1>4, <1>6, <2>1
  <2>2. CASE d # c
    BY <1>2, <1>5, <2>2 DEF WebTypes
  <2> QED
    BY <2>1, <2>2
<1>8. Left(c)' /\ Waits(c)
  BY <1>1, <1>3, <1>6 DEF Left, Waits
<1> QED
  BY <1>1, <1>3, <1>5, <1>6, <1>7, <1>8

LEMMA TimeoutStep ==
  ASSUME WebFacts, NEW c \in Calls, Timeout(c)
  PROVE  WebFacts'
<1>1. /\ c \in sync /\ api[c].at = "waiting" /\ api[c].via = "json" /\ Left(c)' /\ Waits(c)
      /\ UNCHANGED <<packet, onWire, received, running, said, jsonDown, routes, stuck, heard, sync>>
      /\ \A d \in Calls \ {c} : api'[d] = api[d]
      /\ api'[c] = [at |-> "timedOut", object |-> api[c].object, via |-> "json"]
      /\ api' \in [Calls -> [at : {"idle", "waiting", "answered", "failed", "timedOut"},
                             object : Objects \cup {"none"}, via : {"none", "http", "json"}]]
  BY TimeoutIs
<1>2. WebTypes'
  BY <1>1 DEF WebFacts, WebTypes
<1>3. \A d \in Calls : /\ api'[d].object = api[d].object /\ api'[d].via = api[d].via
                       /\ api'[d].at = IF d = c THEN "timedOut" ELSE api[d].at
  BY <1>1
<1>4. \A d \in Calls : IdOf(d)' = IdOf(d)
  BY <1>1, <1>3 DEF IdOf
<1>5. ASSUME NEW d \in Calls PROVE OneWay(d)' /\ OneAnswer(d)'
  <2>1. OneWay(d) /\ OneAnswer(d)
    BY DEF WebFacts
  <2>2. CASE d # c
    <3>1. api'[d] = api[d]
      BY <1>1, <2>2
    <3> QED
      BY <1>1, <1>4, <2>1, <3>1 DEF OneWay, OneAnswer
  <2>3. CASE d = c
    <3>1. api'[d].at = "timedOut" /\ api'[d].via = "json" /\ d \in sync'
      BY <1>1, <2>3
    <3>2. OneAnswer(d)'
      BY <1>1, <2>1, <2>3, <3>1 DEF OneAnswer
    <3>3. OneWay(d)'
      BY <1>1, <1>3, <1>4, <2>1, <2>3, <3>1 DEF OneWay
    <3> QED
      BY <3>2, <3>3
  <2> QED
    BY <2>2, <2>3
<1>6. IdsApart'
  <2>1. IdsApart
    BY DEF WebFacts
  <2>2. ASSUME NEW o \in Objects, packet[o].id # ""
        PROVE  /\ packet[o].id \in Calls /\ api'[packet[o].id].at # "idle"
               /\ api'[packet[o].id].object = o
    BY <1>3, <2>1, <2>2 DEF IdsApart
  <2>3. ASSUME NEW d \in Calls, NEW e \in Calls, api'[d].at = "waiting", api'[e].at = "waiting",
               api'[d].object = api'[e].object
        PROVE  d = e
    <3>1. api[d].at = "waiting" /\ api[e].at = "waiting" /\ api[d].object = api[e].object
      BY <1>3, <2>3
    <3> QED
      BY <2>1, <3>1 DEF IdsApart
  <2> QED
    BY <1>1, <2>2, <2>3 DEF IdsApart
<1>7. RoutesLead'
  <2>1. ASSUME NEW d \in Calls
        PROVE  /\ Left(d) => Left(d)'
               /\ Leads(d) => Leads(d)'
               /\ Expects(d)' => Expects(d)
    <3>1. CASE d = c
      BY <1>1, <3>1 DEF Leads, Expects, Waits
    <3>2. CASE d # c
      <4>1. api'[d] = api[d]
        BY <1>1, <3>2
      <4> QED
        BY <1>1, <4>1 DEF Left, Completes, Leads, Expects, Waits, TakenOut
    <3> QED
      BY <3>1, <3>2
  <2>2. RoutesLead /\ UNCHANGED <<routes, stuck>>
    BY <1>1 DEF WebFacts
  <2> QED
    BY <1>4, <2>1, <2>2, RoutesStay
<1> QED
  BY <1>2, <1>5, <1>6, <1>7 DEF WebFacts

(* What it was given, and what is under way to it, stays.                  *)
LEMMA TimeoutTold ==
  ASSUME WebFacts, NEW c \in Calls, Timeout(c), NEW n, NEW who, NEW nth,
         Pipe(n, who, nth), Told(n)
  PROVE  Pipe(n, who, nth)' /\ Told(n)'
<1>1. /\ c \in sync /\ Left(c)'
      /\ UNCHANGED <<received, said, jsonDown, heard, sync>>
      /\ \A d \in Calls \ {c} : api'[d] = api[d]
      /\ api'[c] = [at |-> "timedOut", object |-> api[c].object, via |-> "json"]
      /\ api[c].via = "json"
  BY TimeoutIs
<1>2. \A d \in Calls : api'[d].via = api[d].via /\ api'[d].object = api[d].object
  BY <1>1
<1>3. Pipe(n, who, nth)'
  <2>1. \A k \in 1..Len(who) : api'[who[k]].via = api[who[k]].via
    BY <1>2, ElementOfSeq DEF Pipe
  <2>2. \A d \in Calls : api'[d].via = "json" => api[d].via = "json"
    BY <1>2
  <2>3. said' = said /\ jsonDown' = jsonDown /\ received' = received
    BY <1>1
  <2>4. /\ n \in [Calls -> Nat] /\ who \in Seq(Calls) /\ nth \in Seq(Nat)
        /\ Len(who) = Len(jsonDown') /\ Len(nth) = Len(jsonDown')
        /\ \A k, l \in 1..Len(who) : k < l /\ who[k] = who[l] => nth[k] < nth[l]
        /\ \A d \in Calls : n[d] <= Len(said'[d])
    BY <2>3 DEF Pipe
  <2>5. \A k \in 1..Len(who) :
          /\ api'[who[k]].via = "json"
          /\ n[who[k]] < nth[k] /\ nth[k] <= Len(said'[who[k]])
          /\ jsonDown'[k] = MarshalResponse(received'[who[k]].id, said'[who[k]][nth[k]])
    BY <2>1, <2>3 DEF Pipe
  <2>6. \A d \in Calls : api'[d].via = "json" =>
          \A i \in 1..Len(said'[d]) : i <= n[d] \/ \E k \in 1..Len(who) : who[k] = d /\ nth[k] = i
    BY <2>2, <2>3 DEF Pipe
  <2> QED
    BY <2>4, <2>5, <2>6 DEF Pipe
<1>4. ASSUME NEW d \in Calls, api'[d].via = "json", Undisturbed(d)'
      PROVE  GivenOwn(d, n)' /\ EarlierOver(d, n)'
  <2>0. \A e \in Calls : Left(e) => Left(e)'
    <3>1. ASSUME NEW e \in Calls, e # c, Left(e) PROVE Left(e)'
      <4>1. api'[e] = api[e]
        BY <1>1, <3>1
      <4> QED
        BY <1>1, <3>1, <4>1 DEF Left, Completes
    <3> QED
      BY <1>1, <3>1
  <2>1. Undisturbed(d)
    BY <1>1, <1>2, <1>4, <2>0, SaidSame, StillUndisturbed
  <2>2. GivenOwn(d, n) /\ EarlierOver(d, n)
    BY <1>2, <1>4, <2>1 DEF Told
  <2>3. CASE d # c
    <3>1. api'[d] = api[d]
      BY <1>1, <2>3
    <3>2. GivenOwn(d, n)'
      BY <1>1, <2>2, <3>1 DEF GivenOwn, Completes
    <3>3. EarlierOver(d, n)'
      BY <1>1, <1>2, <2>2, <3>1 DEF EarlierOver, Completes
    <3> QED
      BY <3>2, <3>3
  <2>4. CASE d = c
    <3>1. api'[d].at = "timedOut" /\ d \in sync'
      BY <1>1, <2>4
    <3>2. GivenOwn(d, n)'
      BY <1>1, <2>2, <3>1 DEF GivenOwn, Completes
    <3>3. EarlierOver(d, n)'
      BY <3>1 DEF EarlierOver
    <3> QED
      BY <3>2, <3>3
  <2> QED
    BY <2>3, <2>4
<1> QED
  BY <1>3, <1>4 DEF Told

(* What the loop gives was written for the same object.                    *)
LEMMA JsonEchoes ==
  ASSUME WebFacts, Echoes, JsonReads, NEW n, NEW who, NEW nth, Pipe(n, who, nth)
  PROVE  Echoes'
<1>0. WebTypes
  BY DEF WebFacts
<1>1. /\ jsonDown # <<>>
      /\ UNCHANGED <<packet, onWire, received, running, said, sync>>
      /\ \/ Drops(Head(jsonDown)) \/ Stops(Head(jsonDown))
         \/ \E c \in Calls : Hears(c, Head(jsonDown))
  BY ReadIs
<1>2. SaidMore
  BY <1>1, SaidSame
<1>3. CASE Drops(Head(jsonDown)) \/ Stops(Head(jsonDown))
  <2>1. heard' = heard /\ api' = api
    BY <1>3 DEF Drops, Stops
  <2> QED
    BY <1>2, <2>1, EchoesSame
<1>4. ASSUME NEW c \in Calls, Hears(c, Head(jsonDown)) PROVE Echoes'
  <2>1. /\ Len(heard[c]) \in Nat /\ Len(heard'[c]) = Len(heard[c]) + 1
        /\ heard' \in [Calls -> Seq({ReadOf(m) : m \in Messages})]
        /\ heard'[c][Len(heard[c]) + 1] = ReadOf(Head(jsonDown))
        /\ \A i \in 1..Len(heard[c]) : heard'[c][i] = heard[c][i]
        /\ \A d \in Calls \ {c} : heard'[d] = heard[d]
        /\ api'[c].object = api[c].object
        /\ \A d \in Calls \ {c} : api'[d] = api[d]
        /\ api[c].at = "waiting" /\ api[c].via = "json"
    BY <1>1, <1>4, HeardIs
  <2>2. \A d \in Calls : api'[d].object = api[d].object
    BY <2>1
  <2>3. ASSUME NoneHides'
        PROVE  \E w \in Calls : /\ api'[w].object = api'[c].object
                                /\ \E k \in DOMAIN said'[w] :
                                     IsGiven(heard'[c][Len(heard[c]) + 1], said'[w][k])
    <3>1. NoneHides
      BY <1>2, <2>3, NoneHid
    <3>2. 1 \in 1..Len(who)
      BY JsonPipe
    <3>3. PICK w \in Calls, j \in Nat, r \in Said : HeadOf(w, j, r, n, who, nth)
      BY <1>1, <3>1, <3>2, HeadIs
    <3>4. /\ r = said[w][j] /\ n[w] \in Nat /\ n[w] < j /\ j <= Len(said[w]) /\ Len(said[w]) \in Nat
          /\ said[w] \in Seq(Said) /\ api[w].object \in Objects /\ IdOf(w) # ""
          /\ Head(jsonDown) = MarshalResponse(received[w].id, r)
          /\ NewResponseDynMap(Head(jsonDown)).id = IdOf(w)
      BY <3>3 DEF HeadOf
    <3>5. j \in DOMAIN said[w]
      <4>1. PICK k \in Nat, m \in Nat : k = n[w] /\ m = Len(said[w]) /\ k < j /\ j <= m
        BY <3>4
      <4>2. j \in 1..m
        BY <4>1
      <4> QED
        BY <3>4, <4>1, <4>2, LenProperties
    <3>6. ~Hides("strest", r)
      BY <3>1, <3>4, <3>5 DEF NoneHides
    <3>7. IsGiven(ReadOf(Head(jsonDown)), r)
      BY <3>4, <3>6, ReadGiven
    <3>8. api[c].object = api[w].object
      <4>1. IdOf(c) = IdOf(w)
        BY <1>4, <3>4 DEF Hears
      <4>2. api[c].object \in Objects
        BY <2>1 DEF WebFacts, OneWay
      <4> QED
        BY <3>4, <4>1, <4>2, SameObject
    <3> QED
      BY <1>1, <2>1, <2>2, <3>4, <3>5, <3>7, <3>8
  <2>4. ASSUME NEW d \in Calls, NEW i \in DOMAIN heard'[d]
        PROVE  \/ i \in DOMAIN heard[d] /\ heard'[d][i] = heard[d][i]
               \/ d = c /\ i = Len(heard[c]) + 1
    <3>1. CASE d # c
      BY <2>1, <2>4, <3>1
    <3>2. CASE d = c
      <4>1. DOMAIN heard'[c] = 1..Len(heard'[c]) /\ DOMAIN heard[c] = 1..Len(heard[c])
        BY <1>0, <2>1, LenProperties DEF WebTypes
      <4>2. i \in 1..(Len(heard[c]) + 1)
        BY <2>1, <2>4, <3>2, <4>1
      <4>3. i \in 1..Len(heard[c]) \/ i = Len(heard[c]) + 1
        BY <2>1, <4>2
      <4> QED
        BY <2>1, <3>2, <4>1, <4>3
    <3> QED
      BY <3>1, <3>2
  <2>5. \A d \in Calls : heard[d] \in Seq({ReadOf(m) : m \in Messages})
    BY <1>0 DEF WebTypes
  <2>6. ASSUME NoneHides', NEW d \in Calls, NEW i \in DOMAIN heard'[d]
        PROVE  \/ i \in DOMAIN heard[d] /\ heard'[d][i] = heard[d][i]
               \/ \E e \in Calls : /\ api'[e].object = api'[d].object
                                 /\ \E k \in DOMAIN said'[e] : IsGiven(heard'[d][i], said'[e][k])
    BY <2>3, <2>4, <2>6
  <2> HIDE DEF SaidMore, Echoes
  <2> QED
    BY <1>2, <2>2, <2>5, <2>6, EchoesStay
<1> QED
  BY <1>1, <1>3, <1>4

(* The invariant is inductive: one step for each action of WebNext.        *)
LEMMA WebStep == ASSUME WebInv, [WebNext]_webVars PROVE WebInv'
<1>1. WebFacts /\ Echoes
  BY DEF WebInv
<1>2. PICK n, who, nth : Pipe(n, who, nth) /\ Told(n)
  BY DEF WebInv
<1>3. SUFFICES WebFacts' /\ Echoes' /\ \E n1, who1, nth1 : Pipe(n1, who1, nth1)' /\ Told(n1)'
  BY DEF WebInv
<1>4. ASSUME NEW c \in Calls, NEW o \in Objects,
             HttpCall(c, o) \/ \E shard \in Shards, s \in BOOLEAN : JsonCall(c, o, shard, s)
      PROVE  WebFacts' /\ Echoes' /\ Pipe(n, who, nth)' /\ Told(n)'
  <2>1. PICK via \in {"http", "json"} : Made(c, o, via)
    BY <1>1, <1>4, CallIs
  <2>2. WebFacts'
    BY <1>1, <2>1, MadeFacts
  <2>3. Echoes'
    BY <1>1, <2>1, MadeEchoes
  <2> QED
    BY <1>1, <1>2, <2>1, <2>2, <2>3, MadePipe, MadeTold
<1>5. ASSUME NEW c \in Calls, HttpArrives(c) \/ JsonArrives(c)
      PROVE  WebFacts' /\ Echoes' /\ Pipe(n, who, nth)' /\ Told(n)'
  <2>1. UNCHANGED <<api, said, heard>>
    BY <1>1, <1>5, ArriveIs
  <2>2. Echoes'
    BY <1>1, <2>1, SaidSame, EchoesSame
  <2> QED
    BY <1>1, <1>2, <1>5, <2>2, ArriveStep, ArrivePipe
<1>6. ASSUME NEW c \in Calls, HandlerWrites(c) \/ Refuse(c)
      PROVE  WebFacts' /\ Echoes' /\ \E who1, nth1 : Pipe(n, who1, nth1)' /\ Told(n)'
  <2>1. PICK who1, nth1 : Pipe(n, who1, nth1)'
    BY <1>1, <1>2, <1>6, WritePipe
  <2>2. WebFacts' /\ Told(n)'
    BY <1>1, <1>2, <1>6, WriteStep, WriteTold
  <2>3. UNCHANGED <<api, heard>> /\ SaidMore
    BY <1>1, <1>6, WriteIs, WriteMore
  <2>4. Echoes'
    BY <1>1, <2>3, EchoesSame
  <2> QED
    BY <2>1, <2>2, <2>4
<1>7. ASSUME NEW c \in Calls, HandlerReturns(c)
      PROVE  WebFacts' /\ Echoes' /\ Pipe(n, who, nth)' /\ Told(n)'
  <2>1. Aside /\ UNCHANGED <<api, said, heard>>
    BY <1>7 DEF HandlerReturns, Aside, loopVars
  <2>2. Echoes'
    BY <1>1, <2>1, SaidSame, EchoesSame
  <2> QED
    BY <1>1, <1>2, <1>7, <2>1, <2>2, ReturnStep, AsidePipe
<1>8. ASSUME NEW c \in Calls, HttpReads(c)
      PROVE  WebFacts' /\ Echoes' /\ Pipe(n, who, nth)' /\ Told(n)'
  BY <1>1, <1>2, <1>8, HttpReadsStep, HttpEchoes, AsidePipe
<1>9. ASSUME JsonReads
      PROVE  /\ WebFacts' /\ Echoes'
             /\ \E n1 : Pipe(n1, Tail(who), Tail(nth))' /\ Told(n1)'
  <2>1. PICK n1 : n1 = [n EXCEPT ![who[1]] = nth[1]]
    OBVIOUS
  <2>2. Pipe(n1, Tail(who), Tail(nth))'
    BY <1>1, <1>2, <1>9, <2>1, JsonPipe
  <2>3. Told(n1)'
    BY <1>1, <1>2, <1>9, <2>1, JsonTold
  <2>4. Echoes'
    BY <1>1, <1>2, <1>9, JsonEchoes
  <2> QED
    BY <1>1, <1>9, <2>2, <2>3, <2>4, JsonReadsStep
<1>t. ASSUME NEW c \in Calls, Timeout(c)
      PROVE  WebFacts' /\ Echoes' /\ Pipe(n, who, nth)' /\ Told(n)'
  <2>1. UNCHANGED <<said, heard>> /\ \A d \in Calls : api'[d].object = api[d].object
    <3>1. /\ UNCHANGED <<said, heard>> /\ \A d \in Calls \ {c} : api'[d] = api[d]
          /\ api'[c] = [at |-> "timedOut", object |-> api[c].object, via |-> "json"]
      BY <1>1, <1>t, TimeoutIs
    <3> QED
      BY <3>1
  <2>2. Echoes'
    BY <1>1, <2>1, SaidSame, EchoesSame
  <2> QED
    BY <1>1, <1>2, <1>t, <2>2, TimeoutStep, TimeoutTold
<1>10. CASE UNCHANGED webVars
  <2>1. UNCHANGED <<api, said, heard>>
    BY <1>10 DEF webVars, serverVars
  <2>2. Echoes'
    BY <1>1, <2>1, SaidSame, EchoesSame
  <2> QED
    BY <1>1, <1>2, <1>10, <2>2, StutterStep, AsidePipe
<1>11. \/ \E c \in Calls, o \in Objects :
             HttpCall(c, o) \/ \E shard \in Shards, s \in BOOLEAN : JsonCall(c, o, shard, s)
       \/ \E c \in Calls : \/ HttpArrives(c) \/ JsonArrives(c)
                           \/ HandlerWrites(c) \/ Refuse(c)
                           \/ HandlerReturns(c) \/ HttpReads(c) \/ Timeout(c)
       \/ JsonReads
       \/ UNCHANGED webVars
  BY DEF WebNext, WebServerStep
<1> HIDE DEF WebFacts, Echoes, Pipe, Told
<1> QED
  BY <1>4, <1>5, <1>6, <1>7, <1>8, <1>9, <1>t, <1>10, <1>11

(* The invariant holds throughout.                                         *)
LEMMA WebAlways == WebSpec => []WebInv
<1>1. WebInit => WebInv
  BY WebInitially
<1>2. WebInv /\ [WebNext]_webVars => WebInv'
  BY WebStep
<1> QED
  BY <1>1, <1>2, PTL DEF WebSpec

(* What a call was given of a response that did not hide the txn.          *)
LEMMA GivenIs ==
  ASSUME WebInv, NEW c \in Calls, Undisturbed(c), NEW i \in 1..Len(heard[c])
  PROVE  /\ i \in DOMAIN said[c] /\ said[c][i] \in Said /\ ~Hides("strest", said[c][i])
         /\ heard[c][i] = ReadOf(MarshalResponse(received[c].id, said[c][i]))
<1>1. WebTypes /\ OneWay(c) /\ OneAnswer(c)
  BY DEF WebInv, WebFacts
<1>2. said[c] \in Seq(Said) /\ Len(said[c]) \in Nat /\ DOMAIN said[c] = 1..Len(said[c])
      /\ Len(heard[c]) \in Nat
  BY <1>1, LenProperties DEF WebTypes
<1>3. heard[c] # <<>>
  BY <1>2, EmptySeq
<1>4. api[c].via \in {"http", "json"}
  BY <1>1, <1>3 DEF OneWay
<1>5. i \in 1..Len(said[c]) /\ heard[c][i] = ReadOf(MarshalResponse(received[c].id, said[c][i]))
  <2>1. CASE api[c].via = "http"
    <3>1. /\ Len(said[c]) = 1 /\ Len(heard[c]) = 1
          /\ heard[c][1] = ReadOf(MarshalResponse(received[c].id, said[c][1]))
      BY <1>1, <1>3, <2>1 DEF OneAnswer
    <3> QED
      BY <3>1
  <2>2. CASE api[c].via = "json"
    <3>1. PICK n, who, nth : Pipe(n, who, nth) /\ Told(n)
      BY DEF WebInv
    <3>2. GivenOwn(c, n)
      BY <2>2, <3>1 DEF Told
    <3>3. n[c] \in Nat /\ n[c] <= Len(said[c])
      BY <3>1 DEF Pipe
    <3> QED
      BY <1>2, <3>2, <3>3 DEF GivenOwn
  <2> QED
    BY <1>4, <2>1, <2>2
<1>6. said[c][i] \in Said
  BY <1>2, <1>5, ElementOfSeq
<1>7. ~Hides("strest", said[c][i])
  BY <1>2, <1>5 DEF Undisturbed, NoneHides
<1> QED
  BY <1>2, <1>5, <1>6, <1>7

(* A call is given what its own handler wrote, whichever way it takes, and *)
(* changed in nothing but what the handler's own keys hide; after a        *)
(* synchronous call was left, or a handler went on after its txn, a later  *)
(* call with the same object may be given their answers, and no others     *)
(* (AnswerArrives).                                                        *)
THEOREM AnswerCorrect == WebSpec => []AnswerArrives
<1>1. ASSUME WebInv PROVE AnswerArrives
  <2>1. ASSUME NEW c \in Calls, Undisturbed(c), NEW i \in DOMAIN heard[c]
        PROVE  i \in DOMAIN said[c] /\ IsGiven(heard[c][i], said[c][i])
    <3>1. i \in 1..Len(heard[c])
      BY <1>1, <2>1, LenProperties DEF WebInv, WebFacts, WebTypes
    <3>2. PICK r \in Said : /\ r = said[c][i] /\ ~Hides("strest", r)
                            /\ heard[c][i] = ReadOf(MarshalResponse(received[c].id, r))
      BY <1>1, <2>1, <3>1, GivenIs
    <3>3. i \in DOMAIN said[c]
      BY <1>1, <2>1, <3>1, GivenIs
    <3>4. IsGiven(heard[c][i], r)
      BY <3>2, ReadGiven
    <3> QED
      BY <3>2, <3>3, <3>4
  <2>2. ASSUME NEW c \in Calls, api[c].via = "http"
        PROVE  Len(heard[c]) = IF api[c].at = "answered" THEN Len(said[c]) ELSE 0
    <3>1. OneAnswer(c)
      BY <1>1 DEF WebInv, WebFacts
    <3> QED
      BY <2>2, <3>1, EmptySeq DEF OneAnswer
  <2>3. ASSUME NoneHides, NEW c \in Calls, NEW i \in DOMAIN heard[c]
        PROVE  \E d \in Calls : /\ api[d].object = api[c].object
                                /\ \E k \in DOMAIN said[d] : IsGiven(heard[c][i], said[d][k])
    BY <1>1, <2>3 DEF WebInv, Echoes
  <2> QED
    BY <2>1, <2>2, <2>3 DEF AnswerArrives
<1> QED
  BY <1>1, WebAlways, PTL

(* A JSON call ends as it should, asynchronous or synchronous, and does not*)
(* wait when its own answer has been read; and the loop of the connection  *)
(* stops only at a synchronous call that was left (CallEnds).              *)
THEOREM EndsCorrect == WebSpec => []CallEnds
<1>1. ASSUME WebInv PROVE CallEnds
  <2>0. ASSUME NEW c \in Calls, api[c].via = "json", Undisturbed(c), jsonDown = <<>>,
               api[c].at = "waiting", NEW i \in 1..Len(said[c])
        PROVE  i \in 1..Len(heard[c])
    <3>1. PICK n, who, nth : Pipe(n, who, nth) /\ Told(n)
      BY <1>1 DEF WebInv
    <3>2. Len(heard[c]) = n[c]
      BY <2>0, <3>1 DEF Told, GivenOwn
    <3>3. Len(who) = 0
      BY <2>0, <3>1, EmptySeq DEF Pipe
    <3>4. i <= n[c] /\ n[c] \in Nat
      BY <2>0, <3>1, <3>3 DEF Pipe
    <3>5. Len(said[c]) \in Nat
      BY <1>1, LenProperties DEF WebInv, WebFacts, WebTypes
    <3> QED
      BY <2>0, <3>2, <3>4, <3>5
  <2>1. ASSUME NEW c \in Calls, api[c].via = "json", Undisturbed(c), c \notin sync
        PROVE  /\ LastOfItsOwn(c)
               /\ CompletesTxn(c) /\ jsonDown = <<>> => api[c].at = "answered"
    <3>1. PICK n, who, nth : Pipe(n, who, nth) /\ Told(n)
      BY <1>1 DEF WebInv
    <3>2. GivenOwn(c, n)
      BY <2>1, <3>1 DEF Told
    <3>3. /\ said[c] \in Seq(Said) /\ DOMAIN said[c] = 1..Len(said[c])
          /\ Len(heard[c]) \in Nat /\ DOMAIN heard[c] = 1..Len(heard[c])
      BY <1>1, LenProperties DEF WebInv, WebFacts, WebTypes
    <3>4. ASSUME NEW i \in DOMAIN heard[c]
          PROVE  api[c].at = "answered" /\ i = Len(heard[c]) <=> Completes(heard[c][i])
      <4>1. i \in 1..Len(heard[c])
        BY <3>3
      <4>2. PICK r \in Said : /\ r = said[c][i] /\ ~Hides("strest", r)
                              /\ heard[c][i] = ReadOf(MarshalResponse(received[c].id, r))
        BY <1>1, <2>1, <4>1, GivenIs
      <4>3. heard[c][i].status = r.status
        BY <4>2, ReadSaid
      <4>4. Completes(said[c][i]) <=> api[c].at = "answered" /\ i = Len(heard[c])
        BY <2>1, <3>2, <4>1 DEF GivenOwn
      <4> QED
        BY <4>2, <4>3, <4>4 DEF Completes
    <3>5. ASSUME CompletesTxn(c), jsonDown = <<>> PROVE api[c].at = "answered"
      <4>1. PICK i \in 1..Len(said[c]) : Completes(said[c][i])
        BY <3>3, <3>5 DEF CompletesTxn
      <4>2. api[c].at # "waiting"
        <5>1. SUFFICES ASSUME api[c].at = "waiting" PROVE FALSE
          OBVIOUS
        <5>2. i \in 1..Len(heard[c])
          BY <2>0, <2>1, <3>5, <5>1
        <5> QED
          BY <2>1, <3>2, <4>1, <5>1, <5>2 DEF GivenOwn
      <4>3. OneWay(c) /\ api[c].at \in {"idle", "waiting", "answered", "failed", "timedOut"}
        BY <1>1 DEF WebInv, WebFacts, WebTypes
      <4> QED
        BY <2>1, <4>2, <4>3 DEF OneWay
    <3> QED
      BY <3>4, <3>5 DEF LastOfItsOwn
  <2>2. ASSUME NEW c \in Calls, api[c].via = "json", c \in sync
        PROVE  /\ Len(heard[c]) = IF api[c].at = "answered" THEN 1 ELSE 0
               /\ Undisturbed(c) /\ said[c] # <<>> /\ jsonDown = <<>> => api[c].at # "waiting"
    <3>1. OneAnswer(c) /\ said[c] \in Seq(Said)
      BY <1>1 DEF WebInv, WebFacts, WebTypes
    <3>2. Len(heard[c]) = IF api[c].at = "answered" THEN 1 ELSE 0
      BY <2>2, <3>1, EmptySeq DEF OneAnswer
    <3>3. ASSUME Undisturbed(c), said[c] # <<>>, jsonDown = <<>>, api[c].at = "waiting" PROVE FALSE
      <4>1. Len(said[c]) \in Nat /\ Len(said[c]) # 0
        BY <3>1, <3>3, EmptySeq, LenProperties
      <4>2. 1 \in 1..Len(said[c])
        BY <4>1
      <4>3. 1 \in 1..Len(heard[c])
        BY <2>0, <2>2, <3>3, <4>2
      <4> QED
        BY <3>2, <3>3, <4>3
    <3> QED
      BY <3>2, <3>3
  <2>3. stuck => \E d \in Calls : Left(d)
    BY <1>1 DEF WebInv, WebFacts, RoutesLead
  <2> QED
    BY <2>1, <2>2, <2>3 DEF CallEnds
<1> QED
  BY <1>1, WebAlways, PTL
-----------------------------------------------------------------------------
(* The texts of requests and of urls; names have words.                    *)
Words == STRING \cup {"[", "]", "_p", "_k", "_v"}

NamePaths == Seq(Seq(Words) \ {<<>>}) \ {<<>>}

(* Url encoded parameters.  The maps that names of values may make...      *)
FormMaps(values) ==
  UNION {[A -> {FromValues(values[p]) : p \in DOMAIN values}] :
           A \in SUBSET {Unbracketed(p) : p \in DOMAIN values}}

Holds(m, k, v) == k \in DOMAIN m /\ m[k] = v

LEMMA FormMap ==
  ASSUME NEW values, NEW m, DOMAIN m \subseteq {Unbracketed(p) : p \in DOMAIN values},
         m = [k \in DOMAIN m |-> m[k]],
         \A k \in DOMAIN m : m[k] \in {FromValues(values[p]) : p \in DOMAIN values}
  PROVE  m \in FormMaps(values)
<1>1. PICK A, B : A = DOMAIN m /\ B = {FromValues(values[p]) : p \in DOMAIN values}
  OBVIOUS
<1>2. m \in [A -> B]
  BY <1>1
<1>3. A \in SUBSET {Unbracketed(p) : p \in DOMAIN values}
  BY <1>1
<1> QED
  BY <1>1, <1>2, <1>3 DEF FormMaps

LEMMA FormMapIs ==
  ASSUME NEW values, NEW m \in FormMaps(values)
  PROVE  /\ m = [k \in DOMAIN m |-> m[k]]
         /\ \A k \in DOMAIN m : /\ \E p \in DOMAIN values : k = Unbracketed(p)
                                /\ m[k] \in {FromValues(values[p]) : p \in DOMAIN values}
<1>1. PICK A \in SUBSET {Unbracketed(p) : p \in DOMAIN values} :
        m \in [A -> {FromValues(values[p]) : p \in DOMAIN values}]
  BY DEF FormMaps
<1> QED
  BY <1>1

(* ...and what one more name makes of them.                                *)
LEMMA PutMap ==
  ASSUME NEW values, NEW m \in FormMaps(values), NEW p \in DOMAIN values
  PROVE  PutValue(values, m, p) \in FormMaps(values)
<1>1. PICK k, v : k = Unbracketed(p) /\ v = FromValues(values[p])
  OBVIOUS
<1>2. PutValue(values, m, p) = PutWithDot(m, k, v)
  BY <1>1 DEF PutValue
<1>3. CASE \E q \in DOMAIN m : Under(q, k)
  <2>1. PutWithDot(m, k, v) = m
    BY <1>3 DEF PutWithDot
  <2> QED
    BY <1>2, <2>1
<1>4. CASE ~ \E q \in DOMAIN m : Under(q, k)
  <2>1. PICK D : D = {k} \cup {q \in DOMAIN m : ~Under(k, q)}
    OBVIOUS
  <2>2. PICK h : h = [q \in D |-> IF q = k THEN v ELSE m[q]]
    OBVIOUS
  <2>3. PutWithDot(m, k, v) = h
    BY <1>4, <2>1, <2>2 DEF PutWithDot
  <2>4. /\ DOMAIN h = D /\ h = [q \in DOMAIN h |-> h[q]]
        /\ \A q \in D : h[q] = IF q = k THEN v ELSE m[q]
    BY <2>2
  <2>5. /\ \A q \in DOMAIN m : \E x \in DOMAIN values : q = Unbracketed(x)
        /\ \A q \in DOMAIN m : m[q] \in {FromValues(values[x]) : x \in DOMAIN values}
    BY FormMapIs
  <2>6. DOMAIN h \subseteq {Unbracketed(x) : x \in DOMAIN values}
    BY <1>1, <2>1, <2>4, <2>5
  <2>7. \A q \in DOMAIN h : h[q] \in {FromValues(values[x]) : x \in DOMAIN values}
    BY <1>1, <2>1, <2>4, <2>5
  <2>8. h \in FormMaps(values)
    BY <2>4, <2>6, <2>7, FormMap
  <2> QED
    BY <1>2, <2>3, <2>8
<1> QED
  BY <1>3, <1>4

(* A name that clashes with no other: its value is put...                  *)
LEMMA PutOwn ==
  ASSUME NEW values, NEW m \in FormMaps(values), NEW p \in DOMAIN values,
         Alone(p, DOMAIN values)
  PROVE  Holds(PutValue(values, m, p), Unbracketed(p), FromValues(values[p]))
<1>1. PICK k, v : k = Unbracketed(p) /\ v = FromValues(values[p])
  OBVIOUS
<1>2. \A q \in DOMAIN m : ~Under(q, k)
  <2> SUFFICES ASSUME NEW q \in DOMAIN m, Under(q, k) PROVE FALSE
    OBVIOUS
  <2>1. PICK x \in DOMAIN values : q = Unbracketed(x)
    BY FormMapIs
  <2>2. IsPrefix(q, k) /\ q # k
    BY DEF Under, IsStrictPrefix
  <2>3. x # p
    BY <1>1, <2>1, <2>2
  <2>4. ~Clash(p, x)
    BY <2>3 DEF Alone
  <2> QED
    BY <1>1, <2>1, <2>2, <2>4 DEF Clash
<1>3. PICK h : h = [q \in {k} \cup {y \in DOMAIN m : ~Under(k, y)} |-> IF q = k THEN v ELSE m[q]]
  OBVIOUS
<1>4. PutValue(values, m, p) = h
  BY <1>1, <1>2, <1>3 DEF PutValue, PutWithDot
<1>5. k \in DOMAIN h /\ h[k] = v
  BY <1>3
<1> QED
  BY <1>1, <1>4, <1>5 DEF Holds

(* ...and stays.                                                           *)
LEMMA PutOther ==
  ASSUME NEW values, NEW m \in FormMaps(values), NEW p \in DOMAIN values,
         Alone(p, DOMAIN values), IsPrefix(Unbracketed(p), Unbracketed(p)), NEW v,
         Holds(m, Unbracketed(p), v), NEW x \in DOMAIN values, x # p
  PROVE  Holds(PutValue(values, m, x), Unbracketed(p), v)
<1>1. PICK k, y, u : k = Unbracketed(p) /\ y = Unbracketed(x) /\ u = FromValues(values[x])
  OBVIOUS
<1>2. ~IsPrefix(y, k) /\ ~IsPrefix(k, y) /\ IsPrefix(k, k)
  BY <1>1 DEF Alone, Clash
<1>3. y # k /\ ~Under(y, k)
  BY <1>2 DEF Under, IsStrictPrefix
<1>4. k \in DOMAIN m /\ m[k] = v
  BY <1>1 DEF Holds
<1>5. PutValue(values, m, x) = PutWithDot(m, y, u)
  BY <1>1 DEF PutValue
<1>6. CASE \E q \in DOMAIN m : Under(q, y)
  <2>1. PutWithDot(m, y, u) = m
    BY <1>6 DEF PutWithDot
  <2> QED
    BY <1>1, <1>4, <1>5, <2>1 DEF Holds
<1>7. CASE ~ \E q \in DOMAIN m : Under(q, y)
  <2>1. PICK h : h = [q \in {y} \cup {z \in DOMAIN m : ~Under(y, z)} |-> IF q = y THEN u ELSE m[q]]
    OBVIOUS
  <2>2. PutWithDot(m, y, u) = h
    BY <1>7, <2>1 DEF PutWithDot
  <2>3. k \in DOMAIN h /\ h[k] = v
    BY <1>3, <1>4, <2>1
  <2> QED
    BY <1>1, <1>5, <2>2, <2>3 DEF Holds
<1> QED
  BY <1>6, <1>7

(* The loop over the names has a map for each round...                     *)
PutsBy(f, n, o, values) ==
  /\ f \in [0..n -> FormMaps(values)] /\ f[0] = EmptyMap
  /\ \A i \in 1..n : f[i] = PutValue(values, f[i - 1], o[i])
  /\ AllPut(values, o) = f[n]

LEMMA AllPutLoop ==
  ASSUME NEW values, NEW n \in Nat, NEW o \in [1..n -> DOMAIN values]
  PROVE  \E f : PutsBy(f, n, o, values)
<1> DEFINE V == FormMaps(values)
           step == [x \in (1..n) \X V |-> PutValue(values, x[2], o[x[1]])]
           Loop(f) == f = [i \in 0..n |-> IF i = 0 THEN EmptyMap
                                          ELSE PutValue(values, f[i - 1], o[i])]
<1>1. Len(o) = n
  BY LenProperties
<1>2. step \in [(1..n) \X V -> V]
  <2>1. \A i \in 1..n, m \in V : PutValue(values, m, o[i]) \in V
    BY PutMap
  <2> HIDE DEF V
  <2> QED
    BY <2>1
<1>3. EmptyMap \in V
  <2>1. DOMAIN EmptyMap = {} /\ EmptyMap = [k \in DOMAIN EmptyMap |-> EmptyMap[k]]
    BY DEF EmptyMap
  <2> QED
    BY <2>1, FormMap
<1> HIDE DEF V
<1>4. PICK f : LoopsBy(f, V, EmptyMap, n, step)
  <2> HIDE DEF step
  <2> QED
    BY <1>2, <1>3, LoopExists
<1>5. f \in [0..n -> V] /\ f[0] = EmptyMap
  BY <1>4 DEF LoopsBy
<1>6. \A i \in 1..n : f[i] = PutValue(values, f[i - 1], o[i])
  <2> TAKE i \in 1..n
  <2>1. i - 1 \in 0..n
    OBVIOUS
  <2>2. <<i, f[i - 1]>> \in (1..n) \X V
    BY <1>5, <2>1
  <2> QED
    BY <1>4, <2>2 DEF LoopsBy
<1>7. Loop(f)
  <2>1. \A i \in 0..n : f[i] = IF i = 0 THEN EmptyMap ELSE PutValue(values, f[i - 1], o[i])
    <3> TAKE i \in 0..n
    <3>1. CASE i = 0
      BY <1>5, <3>1
    <3>2. CASE i \in 1..n
      BY <1>6, <3>2
    <3> QED
      BY <3>1, <3>2
  <2> QED
    BY <1>5, <2>1
<1> DEFINE g == CHOOSE h : Loop(h)
<1>8. Loop(g)
  <2> HIDE DEF Loop
  <2> QED
    BY <1>7
<1>9. AllPut(values, o) = g[n]
  BY <1>1 DEF AllPut
<1> HIDE DEF g
<1>10. \A i \in 0..n : g[i] = IF i = 0 THEN EmptyMap ELSE PutValue(values, g[i - 1], o[i])
  BY <1>8 DEF Loop
<1> HIDE DEF Loop
<1> DEFINE Same == {i \in Nat : i <= n => g[i] = f[i]}
<1>11. 0 \in Same
  BY <1>5, <1>10
<1>12. ASSUME NEW i \in Nat, i \in Same PROVE i + 1 \in Same
  <2> SUFFICES ASSUME i + 1 <= n PROVE g[i + 1] = f[i + 1]
    OBVIOUS
  <2>1. PICK k \in 1..n : k = i + 1 /\ k - 1 = i /\ k \in 0..n /\ k # 0
    OBVIOUS
  <2>2. g[k - 1] = f[k - 1]
    BY <1>12, <2>1
  <2>3. g[k] = PutValue(values, g[k - 1], o[k])
    BY <1>10, <2>1
  <2> QED
    BY <1>6, <2>1, <2>2, <2>3
<1>13. g[n] = f[n]
  <2> HIDE DEF Same
  <2>1. n \in Same
    BY <1>11, <1>12, NumberInduction
  <2> QED
    BY <2>1 DEF Same
<1> QED
  BY <1>5, <1>6, <1>9, <1>13 DEF PutsBy, V

(* ...and of a name that clashes with no other, the last has the value.    *)
LEMMA AllPutKeeps ==
  ASSUME NEW values, NEW n \in Nat, NEW o \in [1..n -> DOMAIN values],
         NEW p \in DOMAIN values, Alone(p, DOMAIN values),
         IsPrefix(Unbracketed(p), Unbracketed(p)), NEW j \in 1..n, o[j] = p
  PROVE  Holds(AllPut(values, o), Unbracketed(p), FromValues(values[p]))
<1>1. PICK k, v : k = Unbracketed(p) /\ v = FromValues(values[p])
  OBVIOUS
<1>2. PICK f : PutsBy(f, n, o, values)
  BY AllPutLoop
<1> DEFINE S == {i \in Nat : i + j <= n => Holds(f[i + j], k, v)}
<1>3. \A i \in 1..n : /\ f[i - 1] \in FormMaps(values) /\ o[i] \in DOMAIN values
                      /\ f[i] = PutValue(values, f[i - 1], o[i])
  BY <1>2 DEF PutsBy
<1>4. \A i \in 1..n : o[i] = p => Holds(f[i], k, v)
  BY <1>1, <1>3, PutOwn
<1>5. ASSUME NEW i \in 1..n, Holds(f[i - 1], k, v) PROVE Holds(f[i], k, v)
  <2>1. CASE o[i] = p
    BY <1>4, <2>1
  <2>2. CASE o[i] # p
    <3>1. Holds(PutValue(values, f[i - 1], o[i]), k, v)
      BY <1>1, <1>3, <1>5, <2>2, PutOther
    <3> QED
      BY <1>3, <3>1
  <2> QED
    BY <2>1, <2>2
<1>6. 0 \in S
  BY <1>4
<1>7. ASSUME NEW i \in Nat, i \in S PROVE i + 1 \in S
  <2> SUFFICES ASSUME (i + 1) + j <= n PROVE Holds(f[(i + 1) + j], k, v)
    OBVIOUS
  <2>1. PICK l \in 1..n : l = (i + 1) + j /\ l - 1 = i + j /\ i + j <= n
    OBVIOUS
  <2> QED
    BY <1>5, <1>7, <2>1
<1>8. Holds(f[n], k, v)
  <2> HIDE DEF S
  <2>1. n - j \in Nat /\ (n - j) + j = n
    OBVIOUS
  <2>2. n - j \in S
    BY <1>6, <1>7, <2>1, NumberInduction
  <2> QED
    BY <2>1, <2>2 DEF S
<1> QED
  BY <1>1, <1>2, <1>8 DEF PutsBy

(* SetToSeq of the community modules goes through all of a finite set.     *)
LEMMA Enumerated ==
  ASSUME NEW S, IsFiniteSet(S)
  PROVE  /\ Cardinality(S) \in Nat /\ SetToSeq(S) \in [1..Cardinality(S) -> S]
         /\ \A x \in S : \E i \in 1..Cardinality(S) : SetToSeq(S)[i] = x
<1>1. PICK n \in Nat : n = Cardinality(S) /\ ExistsBijection(1..n, S)
  BY FS_CardinalityType
<1>2. PICK b : b \in [1..n -> S] /\ IsInjective(b)
  BY <1>1 DEF ExistsBijection, Bijection, Injection, IsInjective
<1>3. PICK f : f = SetToSeq(S)
  OBVIOUS
<1>4. f \in [1..n -> S] /\ IsInjective(f)
  BY <1>1, <1>2, <1>3 DEF SetToSeq
<1>5. f \in Injection(1..n, S)
  BY <1>4 DEF Injection, IsInjective
<1>6. Cardinality(1..n) = n
  BY FS_Interval
<1>7. f \in Surjection(1..n, S)
  BY <1>1, <1>5, <1>6, FS_Injection
<1> QED
  BY <1>1, <1>3, <1>4, <1>7 DEF Surjection

(* What UnmarshalURLValues makes of the values, whatever order the names   *)
(* have.                                                                   *)
LEMMA UrlRead ==
  ASSUME NEW values, IsFiniteSet(DOMAIN values), NEW got \in UnmarshalURLValues(values)
  PROVE  /\ got \in FormMaps(values)
         /\ \A p \in DOMAIN values :
              Alone(p, DOMAIN values) /\ IsPrefix(Unbracketed(p), Unbracketed(p))
                => Holds(got, Unbracketed(p), FromValues(values[p]))
<1>1. PICK S : S = DOMAIN values
  OBVIOUS
<1>2. PICK C : C = {p \in S : \E q \in S \ {p} : Clash(p, q)}
  OBVIOUS
<1>3. C \in SUBSET S /\ S \ C \in SUBSET S
  BY <1>2
<1>4. IsFiniteSet(C) /\ IsFiniteSet(S \ C)
  BY <1>1, <1>3, FS_Subset
<1>5. PICK c \in Nat : c = Cardinality(C)
  BY <1>4, FS_CardinalityType
<1>6. PICK o \in [1..c -> C] : got = AllPut(values, SetToSeq(S \ C) \o o)
  BY <1>1, <1>2, <1>5 DEF UnmarshalURLValues
<1>m. PICK m \in Nat : m = Cardinality(S \ C)
  BY <1>4, FS_CardinalityType
<1>7. PICK s \in [1..m -> S \ C] :
        s = SetToSeq(S \ C) /\ \A x \in S \ C : \E i \in 1..m : s[i] = x
  <2>1. PICK D : D = S \ C
    OBVIOUS
  <2>2. m = Cardinality(D) /\ IsFiniteSet(D)
    BY <1>4, <1>m, <2>1
  <2>3. PICK s : s = SetToSeq(D)
    OBVIOUS
  <2>4. s \in [1..m -> D] /\ \A x \in D : \E i \in 1..m : s[i] = x
    BY <2>2, <2>3, Enumerated
  <2>5. s \in [1..m -> S \ C]
    BY <2>1, <2>4
  <2>6. s = SetToSeq(S \ C) /\ \A x \in S \ C : \E i \in 1..m : s[i] = x
    BY <2>1, <2>3, <2>4
  <2> QED
    BY <2>5, <2>6
<1>8. s \in Seq(S) /\ Len(s) = m /\ o \in Seq(S) /\ Len(o) = c
  BY <1>3, LenProperties
<1>9. PICK w \in Seq(S) : w = s \o o
  BY <1>8, ConcatProperties
<1>10. Len(w) = m + c /\ \A i \in 1..(m + c) : i <= m => w[i] = s[i]
  BY <1>8, <1>9, ConcatProperties
<1>11. PICK n \in Nat : n = m + c
  OBVIOUS
<1>12. w \in [1..n -> DOMAIN values]
  BY <1>1, <1>10, <1>11, LenProperties, ElementOfSeq
<1>13. got = AllPut(values, w)
  BY <1>6, <1>7, <1>9
<1>14. got \in FormMaps(values)
  <2>1. PICK f : PutsBy(f, n, w, values)
    BY <1>12, AllPutLoop
  <2> QED
    BY <1>13, <2>1 DEF PutsBy
<1>15. ASSUME NEW p \in DOMAIN values, Alone(p, DOMAIN values),
              IsPrefix(Unbracketed(p), Unbracketed(p))
       PROVE  Holds(got, Unbracketed(p), FromValues(values[p]))
  <2>1. p \in S \ C
    BY <1>1, <1>2, <1>15 DEF Alone
  <2>2. PICK i \in 1..m : s[i] = p
    BY <1>7, <2>1
  <2>3. i \in 1..n /\ w[i] = p
    BY <1>10, <1>11, <2>2
  <2>4. Holds(AllPut(values, w), Unbracketed(p), FromValues(values[p]))
    BY <1>12, <1>15, <2>3, AllPutKeeps
  <2> QED
    BY <1>13, <2>4
<1> QED
  BY <1>14, <1>15
-----------------------------------------------------------------------------
(* Names: what clashes has the same first word.                            *)
LEMMA PrefixIs ==
  ASSUME NEW S, NEW a \in Seq(S), NEW b \in Seq(S)
  PROVE  /\ IsPrefix(a, a)
         /\ IsPrefix(a, b) /\ a # <<>> => b # <<>> /\ a[1] = b[1]
<1>1. PICK m, n \in Nat : m = Len(a) /\ n = Len(b)
  BY LenProperties
<1>2. IsPrefix(a, a)
  BY <1>1 DEF IsPrefix
<1>3. ASSUME IsPrefix(a, b), a # <<>> PROVE b # <<>> /\ a[1] = b[1]
  <2>1. m # 0 /\ m <= n /\ SubSeq(a, 1, m) = SubSeq(b, 1, m)
    BY <1>1, <1>3, EmptySeq DEF IsPrefix
  <2>2. (\A i \in 1..m : a[i] \in S) /\ (\A i \in 1..m : b[i] \in S)
    BY <1>1, <2>1, ElementOfSeq
  <2>3. \A i \in 1..m - 1 + 1 : SubSeq(a, 1, m)[i] = a[1 + i - 1]
    BY <2>1, <2>2, SubSeqProperties
  <2>4. \A i \in 1..m - 1 + 1 : SubSeq(b, 1, m)[i] = b[1 + i - 1]
    BY <2>1, <2>2, SubSeqProperties
  <2>5. 1 \in 1..m - 1 + 1 /\ 1 + 1 - 1 = 1
    BY <2>1
  <2> QED
    BY <1>1, <2>1, <2>3, <2>4, <2>5, EmptySeq
<1> QED
  BY <1>2, <1>3

LEMMA WordsFirst ==
  ASSUME NEW w \in Lists(Words), w # <<>>
  PROVE  \E p \in Seq(Words), t \in Lists(Words) :
           p = w[1] /\ FlattenSeq(w) = p \o FlattenSeq(t)
<1>1. PICK V : V = Words /\ w \in Lists(V)
  OBVIOUS
<1>2. \E p \in Seq(V), t \in Lists(V) : FirstOf(w, p, t)
  BY <1>1, FlattenFirst
<1> QED
  BY <1>1, <1>2 DEF FirstOf

LEMMA NameIs ==
  ASSUME NEW p \in NamePaths
  PROVE  /\ Unbracketed(p) \in Seq(Seq(Words)) /\ Unbracketed(p) # <<>>
         /\ Unbracketed(p)[1] = <<p[1][1]>>
         /\ IsPrefix(Unbracketed(p), Unbracketed(p))
<1>1. PICK n \in Nat \ {0} : n = Len(p) /\ \A i \in 1..n : p[i] \in Seq(Words) \ {<<>>}
  BY EmptySeq, ElementOfSeq, LenProperties DEF NamePaths
<1>2. p \in Lists(Words) /\ p # <<>>
  <2>1. p \in [1..n -> Seq(Words)]
    BY <1>1, LenProperties DEF NamePaths
  <2> QED
    BY <1>1, <2>1 DEF Lists, NamePaths
<1>3. PICK a \in Seq(Words), t \in Lists(Words) : a = p[1] /\ FlattenSeq(p) = a \o FlattenSeq(t)
  BY <1>2, WordsFirst
<1>4. PICK b \in Seq(Words) : b = FlattenSeq(t)
  BY FlattenType
<1>5. Len(a) \in Nat \ {0} /\ Len(b) \in Nat
  BY <1>1, <1>3, EmptySeq, LenProperties
<1>6. PICK x \in Seq(Words) : x = a \o b
  BY ConcatProperties
<1>7. Len(x) = Len(a) + Len(b)
      /\ \A i \in 1..Len(a) + Len(b) : x[i] = IF i <= Len(a) THEN a[i] ELSE b[i - Len(a)]
  BY <1>6, ConcatProperties
<1>8. PICK k \in Nat \ {0} : k = Len(x) /\ x[1] = a[1]
  <2>1. 1 \in 1..Len(a) + Len(b) /\ 1 <= Len(a)
    BY <1>5
  <2> QED
    BY <1>5, <1>7, <2>1
<1>9. PICK d : d = [i \in 1..k |-> <<x[i]>>]
  OBVIOUS
<1>10. Unbracketed(p) = d
  BY <1>3, <1>4, <1>6, <1>8, <1>9, LenProperties DEF Unbracketed, Dotted
<1>11. \A i \in 1..k : x[i] \in Words
  BY <1>8, ElementOfSeq
<1>12. d \in [1..k -> Seq(Words)] /\ d[1] = <<a[1]>>
  BY <1>8, <1>9, <1>11
<1>13. d \in Seq(Seq(Words)) /\ d # <<>>
  BY <1>12, LenProperties, EmptySeq
<1> QED
  BY <1>3, <1>10, <1>12, <1>13, PrefixIs

ShardNames == {Partition, ShardKey, Revision}

LEMMA ShardName ==
  ASSUME NEW k \in ShardNames
  PROVE  k \in NamePaths /\ k[1][1] \in {"_p", "_k", "_v"} /\ k[1] = <<k[1][1]>>
<1>1. PICK word \in {"_p", "_k", "_v"} : k = <<<<word>>>>
  BY DEF ShardNames, Partition, ShardKey, Revision, Top
<1>2. <<word>> \in Seq(Words) /\ <<word>> # <<>> /\ <<word>>[1] = word
  <2>1. PICK x \in Words : x = word
    BY DEF Words
  <2>2. <<x>> \in Seq(Words)
    OBVIOUS
  <2>3. <<x>> # <<>> /\ <<x>>[1] = x
    OBVIOUS
  <2> QED
    BY <2>1, <2>2, <2>3
<1>3. PICK e \in Seq(Words) \ {<<>>} : e = <<word>> /\ e[1] = word
  BY <1>2
<1>4. <<e>> \in Seq(Seq(Words) \ {<<>>}) /\ <<e>> # <<>> /\ <<e>>[1] = e
  OBVIOUS
<1> QED
  BY <1>1, <1>3, <1>4 DEF NamePaths

(* A name of the application is apart from those of the shard.             *)
LEMMA NameApart ==
  ASSUME NEW p \in NamePaths, p[1][1] \notin {"_p", "_k", "_v"}, NEW k \in ShardNames
  PROVE  ~Clash(p, k) /\ p # k /\ k[1] # Unbracketed(p)[1]
<1>1. k \in NamePaths /\ k[1][1] \in {"_p", "_k", "_v"} /\ k[1] = <<k[1][1]>>
  BY ShardName
<1>2. /\ Unbracketed(p) \in Seq(Seq(Words)) /\ Unbracketed(p) # <<>>
      /\ Unbracketed(p)[1] = <<p[1][1]>>
  BY NameIs
<1>3. /\ Unbracketed(k) \in Seq(Seq(Words)) /\ Unbracketed(k) # <<>>
      /\ Unbracketed(k)[1] = <<k[1][1]>>
  BY <1>1, NameIs
<1>4. \A u, v : <<u>> = <<v>> => u = v
  OBVIOUS
<1>5. Unbracketed(p)[1] # Unbracketed(k)[1]
  BY <1>1, <1>2, <1>3, <1>4
<1>6. ~IsPrefix(Unbracketed(p), Unbracketed(k)) /\ ~IsPrefix(Unbracketed(k), Unbracketed(p))
  BY <1>2, <1>3, <1>5, PrefixIs
<1> QED
  BY <1>1, <1>2, <1>3, <1>5, <1>6 DEF Clash
-----------------------------------------------------------------------------
(* A map that has the params of an object as the application put them, and *)
(* no other names but those of the shard.                                  *)
Carries(o, m) ==
  /\ \A p \in DOMAIN Params[o] : p \in DOMAIN m /\ m[p] = Params[o][p]
  /\ \A p \in DOMAIN m : p \in DOMAIN Params[o] \/ p \in ShardNames

(* The names that an application uses are names of such words.             *)
LEMMA SeqGrows ==
  ASSUME NEW A, NEW B, A \subseteq B
  PROVE  Seq(A) \subseteq Seq(B)
<1> SUFFICES ASSUME NEW q \in Seq(A) PROVE q \in Seq(B)
  OBVIOUS
<1>1. PICK n \in Nat : n = Len(q) /\ q \in [1..n -> A]
  BY LenProperties
<1>2. q \in [1..n -> B]
  BY <1>1
<1> QED
  BY <1>2, LenProperties

LEMMA AskedNames ==
  ASSUME NEW o \in Objects
  PROVE  /\ IsFiniteSet(Asked(o)) /\ DOMAIN Params[o] \subseteq Asked(o)
         /\ DOMAIN Query[o] \subseteq Asked(o)
         /\ \A p \in Asked(o) : p \in NamePaths /\ p[1][1] \notin {"_p", "_k", "_v"}
<1>1. PICK A : A = Seq(STRING) \ {<<>>}
  OBVIOUS
<1>2. PICK B : B = Seq(Words) \ {<<>>}
  OBVIOUS
<1>3. A \subseteq B
  <2>1. Seq(STRING) \subseteq Seq(Words)
    BY SeqGrows DEF Words
  <2> QED
    BY <1>1, <1>2, <2>1
<1>4. Seq(A) \subseteq Seq(B)
  BY <1>3, SeqGrows
<1>5. /\ IsFiniteSet(Asked(o)) /\ Asked(o) \subseteq Seq(A) \ {<<>>}
      /\ \A p \in Asked(o) : p[1][1] \notin {"_p", "_k", "_v"}
  BY <1>1, WebApiAssumption
<1>6. Asked(o) \subseteq NamePaths
  BY <1>2, <1>4, <1>5 DEF NamePaths
<1> QED
  BY <1>5, <1>6 DEF Asked

LEMMA ShardFirst ==
  ASSUME NEW k \in ShardNames, NEW q \in ShardNames, k[1] = q[1]
  PROVE  k = q
<1>1. \A x \in ShardNames : \E a : x = <<a>>
  BY DEF ShardNames, Partition, ShardKey, Revision, Top
<1>2. PICK a, b : k = <<a>> /\ q = <<b>>
  BY <1>1
<1>3. k[1] = a /\ q[1] = b
  BY <1>2
<1> QED
  BY <1>2, <1>3

LEMMA ShardApart ==
  ASSUME NEW o \in Objects, NEW m, Carries(o, m), NEW q \in DOMAIN m, NEW k \in ShardNames
  PROVE  ~Under(q, k) /\ ~Under(k, q)
<1>1. q \in NamePaths /\ (q[1] = k[1] => q = k)
  <2>1. CASE q \in ShardNames
    BY <2>1, ShardName, ShardFirst
  <2>2. CASE q \in DOMAIN Params[o]
    <3>1. q \in NamePaths /\ q[1][1] \notin {"_p", "_k", "_v"}
      BY <2>2, AskedNames
    <3>2. k[1][1] \in {"_p", "_k", "_v"}
      BY ShardName
    <3> QED
      BY <3>1, <3>2
  <2> QED
    BY <2>1, <2>2 DEF Carries
<1>2. PICK S : S = Seq(Words) \ {<<>>}
  OBVIOUS
<1>3. q \in Seq(S) /\ k \in Seq(S) /\ q # <<>> /\ k # <<>>
  BY <1>1, <1>2, ShardName DEF NamePaths
<1>4. (IsPrefix(q, k) => q[1] = k[1]) /\ (IsPrefix(k, q) => q[1] = k[1])
  BY <1>3, PrefixIs
<1> QED
  BY <1>1, <1>4 DEF Under, IsStrictPrefix

(* MarshalJSON adds a name of the shard, if it is not there.               *)
PutIs(m, k, v, h) ==
  /\ DOMAIN h = DOMAIN m \cup {k}
  /\ h[k] = IF k \in DOMAIN m THEN m[k] ELSE v
  /\ \A p \in DOMAIN m : h[p] = m[p]

LEMMA PutShard ==
  ASSUME NEW o \in Objects, NEW m, Carries(o, m), NEW k \in ShardNames, NEW v
  PROVE  \E h : h = PutIfAbsent(m, k, v) /\ Carries(o, h) /\ PutIs(m, k, v, h)
<1>1. \A q \in DOMAIN m : ~Under(q, k) /\ ~Under(k, q)
  BY ShardApart
<1>2. Exists(m, k) <=> k \in DOMAIN m
  BY <1>1 DEF Exists
<1>3. CASE k \in DOMAIN m
  <2>1. m = PutIfAbsent(m, k, v)
    BY <1>2, <1>3 DEF PutIfAbsent
  <2>2. DOMAIN m = DOMAIN m \cup {k} /\ m[k] = IF k \in DOMAIN m THEN m[k] ELSE v
    BY <1>3
  <2>3. PutIs(m, k, v, m)
    BY <2>2 DEF PutIs
  <2> QED
    BY <2>1, <2>3
<1>4. CASE k \notin DOMAIN m
  <2>1. PICK D : D = {k} \cup {q \in DOMAIN m : ~Under(k, q)}
    OBVIOUS
  <2>2. PICK h : h = [p \in D |-> IF p = k THEN v ELSE m[p]]
    OBVIOUS
  <2>3. D = DOMAIN m \cup {k}
    BY <1>1, <2>1
  <2>4. h = PutIfAbsent(m, k, v)
    BY <1>1, <1>2, <1>4, <2>1, <2>2 DEF PutIfAbsent, PutWithDot
  <2>5. DOMAIN h = DOMAIN m \cup {k} /\ h[k] = v /\ \A p \in DOMAIN m : h[p] = m[p]
    BY <1>4, <2>2, <2>3
  <2>6. Carries(o, h)
    BY <2>5 DEF Carries
  <2>7. PutIs(m, k, v, h)
    BY <1>4, <2>5 DEF PutIs
  <2> QED
    BY <2>4, <2>6, <2>7
<1> QED
  BY <1>3, <1>4

(* What is read of a map for one name of the shard                         *)
Must(m, k, def) == MustInt64(m, k, Text(def)).of[1]

(* A name of the shard is put and read: the one that is there already must *)
(* be right, or none be there.                                             *)
LEMMA MustRead ==
  ASSUME NEW m, NEW h, NEW k, NEW v, NEW def,
         k \in DOMAIN m => h[k] = m[k] /\ Must(m, k, def) = v,
         k \notin DOMAIN m => IF v = def THEN k \in DOMAIN h => h[k] = Text(v)
                              ELSE k \in DOMAIN h /\ h[k] = Text(v),
         k \in DOMAIN m => k \in DOMAIN h
  PROVE  Must(h, k, def) = v
<1>1. \A t : Text(t).of[1] = t
  BY DEF Text
<1>2. CASE k \in DOMAIN m
  BY <1>2 DEF Must, MustInt64
<1>3. CASE k \notin DOMAIN m
  BY <1>1, <1>3 DEF Must, MustInt64
<1> QED
  BY <1>2, <1>3

(* One step of it: the name is left out if the shard has none.             *)
Adds(m, h, k, v, def) ==
  /\ DOMAIN m \subseteq DOMAIN h /\ DOMAIN h \subseteq DOMAIN m \cup {k}
  /\ \A p \in DOMAIN m : h[p] = m[p]
  /\ k \notin DOMAIN m => IF v = def THEN k \notin DOMAIN h
                          ELSE k \in DOMAIN h /\ h[k] = Text(v)

LEMMA AddStep ==
  ASSUME NEW o \in Objects, NEW m, Carries(o, m), NEW k \in ShardNames, NEW v, NEW def
  PROVE  \E h : /\ h = IF v # def THEN PutIfAbsent(m, k, Text(v)) ELSE m
                /\ Carries(o, h) /\ Adds(m, h, k, v, def)
<1>1. CASE v # def
  <2>1. PICK t : t = Text(v)
    OBVIOUS
  <2>2. PICK h : h = PutIfAbsent(m, k, t) /\ Carries(o, h) /\ PutIs(m, k, t, h)
    BY PutShard
  <2>3. Adds(m, h, k, v, def)
    BY <1>1, <2>1, <2>2 DEF Adds, PutIs
  <2> QED
    BY <1>1, <2>1, <2>2, <2>3
<1>2. CASE v = def
  <2>1. Adds(m, m, k, v, def)
    BY <1>2 DEF Adds
  <2> QED
    BY <1>2, <2>1
<1> QED
  BY <1>1, <1>2

LEMMA ShardsApart ==
  /\ Partition \in ShardNames /\ ShardKey \in ShardNames /\ Revision \in ShardNames
  /\ Partition # ShardKey /\ Partition # Revision /\ ShardKey # Revision
<1>1. \A a, b : <<<<a>>>> = <<<<b>>>> => a = b
  OBVIOUS
<1>2. Partition # ShardKey /\ Partition # Revision /\ ShardKey # Revision
  BY <1>1 DEF Partition, ShardKey, Revision, Top
<1> QED
  BY <1>2 DEF ShardNames

(* MarshalJSON leaves the params as they were put, and the shard that is   *)
(* read from them is that of the object: if it was so before, or no name   *)
(* of a shard was there.                                                   *)
LEMMA ShardRead ==
  ASSUME NEW o \in Objects, NEW m, Carries(o, m), NEW shard \in Shards
  PROVE  /\ Carries(o, WithShard(m, shard))
         /\ (\A k \in ShardNames : k \notin DOMAIN m) \/ ShardOf(m) = shard
              => ShardOf(WithShard(m, shard)) = shard
<1>0. shard \in [partition : Seq(STRING), key : Seq(STRING), revision : Seq(STRING)]
  BY WebApiAssumption
<1>1. PICK a, b, c : a = shard.partition /\ b = shard.key /\ c = shard.revision
  OBVIOUS
<1>2. PICK x : /\ x = IF a # NoPartition THEN PutIfAbsent(m, Partition, Text(a)) ELSE m
               /\ Carries(o, x) /\ Adds(m, x, Partition, a, NoPartition)
  BY AddStep, ShardsApart
<1>3. PICK y : /\ y = IF b # NoKey THEN PutIfAbsent(x, ShardKey, Text(b)) ELSE x
               /\ Carries(o, y) /\ Adds(x, y, ShardKey, b, NoKey)
  BY <1>2, AddStep, ShardsApart
<1>4. PICK t : t = Text(c)
  OBVIOUS
<1>5. PICK h : /\ h = PutIfAbsent(y, Revision, t) /\ Carries(o, h)
               /\ DOMAIN h = DOMAIN y \cup {Revision}
               /\ h[Revision] = IF Revision \in DOMAIN y THEN y[Revision] ELSE t
               /\ \A p \in DOMAIN y : h[p] = y[p]
  <2>1. PICK k \in ShardNames : k = Revision
    BY ShardsApart
  <2>2. Carries(o, y)
    BY <1>3
  <2>3. PICK h : h = PutIfAbsent(y, k, t) /\ Carries(o, h) /\ PutIs(y, k, t, h)
    BY <2>2, PutShard
  <2> QED
    BY <2>1, <2>3 DEF PutIs
<1>6. WithShard(m, shard) = h
  BY <1>1, <1>2, <1>3, <1>4, <1>5 DEF WithShard
<1>7. ASSUME (\A k \in ShardNames : k \notin DOMAIN m) \/ ShardOf(m) = shard
      PROVE  ShardOf(h) = shard
  <2>1. /\ Partition \in DOMAIN m => Must(m, Partition, NoPartition) = a
        /\ ShardKey \in DOMAIN m => Must(m, ShardKey, NoKey) = b
        /\ Revision \in DOMAIN m => Must(m, Revision, NoRevision) = c
    <3>1. CASE \A k \in ShardNames : k \notin DOMAIN m
      BY <3>1, ShardsApart
    <3>2. CASE ShardOf(m) = shard
      <4>1. ShardOf(m) = [partition |-> Must(m, Partition, NoPartition),
                          key |-> Must(m, ShardKey, NoKey),
                          revision |-> Must(m, Revision, NoRevision)]
        BY DEF ShardOf, Must
      <4> QED
        BY <1>1, <3>2, <4>1
    <3> QED
      BY <1>7, <3>1, <3>2
  <2>2. Must(h, Partition, NoPartition) = a
    <3>1. Partition \in DOMAIN m => Partition \in DOMAIN h /\ h[Partition] = m[Partition]
      BY <1>2, <1>3, <1>5 DEF Adds
    <3>2. Partition \notin DOMAIN m =>
            IF a = NoPartition THEN Partition \in DOMAIN h => h[Partition] = Text(a)
            ELSE Partition \in DOMAIN h /\ h[Partition] = Text(a)
      BY <1>2, <1>3, <1>5, ShardsApart DEF Adds
    <3> QED
      BY <2>1, <3>1, <3>2, MustRead
  <2>3. Must(h, ShardKey, NoKey) = b
    <3>1. ShardKey \in DOMAIN m => ShardKey \in DOMAIN h /\ h[ShardKey] = m[ShardKey]
      BY <1>2, <1>3, <1>5 DEF Adds
    <3>2. ShardKey \notin DOMAIN m => ShardKey \notin DOMAIN x
      BY <1>2, ShardsApart DEF Adds
    <3>3. ShardKey \notin DOMAIN m =>
            IF b = NoKey THEN ShardKey \in DOMAIN h => h[ShardKey] = Text(b)
            ELSE ShardKey \in DOMAIN h /\ h[ShardKey] = Text(b)
      BY <1>3, <1>5, <3>2, ShardsApart DEF Adds
    <3> QED
      BY <2>1, <3>1, <3>3, MustRead
  <2>4. Must(h, Revision, NoRevision) = c
    <3>1. Revision \in DOMAIN m => Revision \in DOMAIN h /\ h[Revision] = m[Revision]
      BY <1>2, <1>3, <1>5 DEF Adds
    <3>2. Revision \notin DOMAIN m => Revision \notin DOMAIN x
      BY <1>2, ShardsApart DEF Adds
    <3>3. Revision \notin DOMAIN m => Revision \notin DOMAIN y
      BY <1>3, <3>2, ShardsApart DEF Adds
    <3>4. Revision \notin DOMAIN m =>
            IF c = NoRevision THEN Revision \in DOMAIN h => h[Revision] = Text(c)
            ELSE Revision \in DOMAIN h /\ h[Revision] = Text(c)
      BY <1>4, <1>5, <3>3
    <3> QED
      BY <2>1, <3>1, <3>4, MustRead
  <2>5. ShardOf(h) = [partition |-> a, key |-> b, revision |-> c]
    BY <2>2, <2>3, <2>4 DEF ShardOf, Must
  <2> QED
    BY <1>0, <1>1, <2>5
<1> QED
  BY <1>5, <1>6, <1>7
-----------------------------------------------------------------------------
(* What a Request object keeps, and what is under way of it: the params as *)
(* they were put, with the shard once it was sent as JSON (and a loop that *)
(* is blocked sends no more).                                              *)
PacketInv(o) ==
  /\ Carries(o, packet[o].params)
  /\ ~stuck /\ packet[o].id = "" => \A k \in ShardNames : k \notin DOMAIN packet[o].params
  /\ ~stuck /\ packet[o].id # "" /\ o \notin reshard =>
       ShardOf(packet[o].params) = packet[o].shard

WireForm(o, w, m) ==
  IF Verb[o] = "GET"
  THEN w.form = Joined(Query[o], MarshalURL(m)) /\ w.body = EmptyMap
  ELSE w.form = Query[o] /\ w.body = m

WireJson(o, w) ==
  Carries(o, w.params) /\ (o \notin reshard => ShardOf(w.params) = packet[o].shard)

WireHttp(o, w) == \E m : Carries(o, m) /\ WireForm(o, w, m)

WireInv(c) ==
  LET o == api[c].object
      w == onWire[c]
  IN  /\ w.kind # "none" => w.object = o
      /\ w.kind = "json" => WireJson(o, w)
      /\ w.kind = "http" => WireHttp(o, w)

RequestInv == (\A o \in Objects : PacketInv(o)) /\ (\A c \in Calls : WireInv(c))

LEMMA RequestInitially == WebInit => RequestInv
<1> SUFFICES ASSUME WebInit PROVE RequestInv
  OBVIOUS
<1>1. ASSUME NEW o \in Objects PROVE PacketInv(o)
  <2>1. packet[o].id = "" /\ packet[o].params = Params[o]
    BY DEF WebInit
  <2>2. \A k \in ShardNames : k \notin DOMAIN Params[o]
    BY AskedNames, ShardName
  <2>3. Carries(o, Params[o])
    BY DEF Carries
  <2> QED
    BY <2>1, <2>2, <2>3 DEF PacketInv
<1>2. ASSUME NEW c \in Calls PROVE WireInv(c)
  <2>1. onWire[c].kind = "none"
    BY DEF WebInit, Nowhere
  <2> QED
    BY <2>1 DEF WireInv
<1> QED
  BY <1>1, <1>2 DEF RequestInv

LEMMA HttpCallKeeps ==
  ASSUME WebFacts, RequestInv, NEW c \in Calls, NEW o \in Objects, HttpCall(c, o)
  PROVE  RequestInv'
<1>1. /\ packet' = packet /\ reshard' = reshard /\ onWire' = [onWire EXCEPT ![c] = HttpRequest(o)]
      /\ stuck' = stuck
      /\ api' = [api EXCEPT ![c] = [at |-> "waiting", object |-> o, via |-> "http"]]
  BY DEF HttpCall, Starts, loopVars
<1>2. /\ DOMAIN onWire = Calls
      /\ api \in [Calls -> [at : {"idle", "waiting", "answered", "failed", "timedOut"},
                            object : Objects \cup {"none"}, via : {"none", "http", "json"}]]
  BY DEF WebFacts, WebTypes
<1>3. \A p \in Objects : PacketInv(p)'
  BY <1>1 DEF RequestInv, PacketInv
<1>4. ASSUME NEW d \in Calls PROVE WireInv(d)'
  <2>1. CASE d = c
    <3>1. PICK w : w = HttpRequest(o)
      OBVIOUS
    <3>2. onWire'[d] = w /\ api'[d].object = o
      BY <1>1, <1>2, <2>1, <3>1
    <3>3. PICK m : m = packet[o].params
      OBVIOUS
    <3>4. Carries(o, m)
      BY <3>3 DEF RequestInv, PacketInv
    <3>5. w.kind = "http" /\ w.object = o /\ WireForm(o, w, m)
      BY <3>1, <3>3 DEF HttpRequest, WireForm
    <3>6. WireHttp(o, w)
      BY <3>4, <3>5 DEF WireHttp
    <3> QED
      BY <3>2, <3>5, <3>6 DEF WireInv
  <2>2. CASE d # c
    <3>1. onWire'[d] = onWire[d] /\ api'[d].object = api[d].object
      BY <1>1, <1>2, <2>2
    <3>2. WireInv(d)
      BY DEF RequestInv
    <3> QED
      BY <1>1, <3>1, <3>2 DEF WireInv, WireJson
  <2> QED
    BY <2>1, <2>2
<1> QED
  BY <1>3, <1>4 DEF RequestInv

LEMMA JsonCallKeeps ==
  ASSUME WebFacts, RequestInv, NEW c \in Calls, NEW o \in Objects, NEW shard \in Shards,
         NEW s \in BOOLEAN, JsonCall(c, o, shard, s)
  PROVE  RequestInv'
<1>1. /\ DOMAIN packet = Objects /\ DOMAIN onWire = Calls /\ (\A d \in Calls : OneWay(d))
      /\ api \in [Calls -> [at : {"idle", "waiting", "answered", "failed", "timedOut"},
                            object : Objects \cup {"none"}, via : {"none", "http", "json"}]]
  BY DEF WebFacts, WebTypes
<1>2. PICK id, m : /\ id = IF packet[o].id = "" THEN c ELSE packet[o].id
                   /\ m = IF stuck THEN packet[o].params ELSE WithShard(packet[o].params, shard)
  OBVIOUS
<1>3. packet' = [packet EXCEPT ![o] = [id |-> id, shard |-> shard, params |-> m]]
  <2>1. packet' = [packet EXCEPT ![o] =
                     [id |-> IF @.id = "" THEN c ELSE @.id, shard |-> shard,
                      params |-> IF stuck THEN @.params ELSE WithShard(@.params, shard)]]
    BY DEF JsonCall, JsonStarts
  <2> QED
    BY <1>1, <1>2, <2>1
<1>4. /\ packet'[o] = [id |-> id, shard |-> shard, params |-> m]
      /\ \A p \in Objects \ {o} : packet'[p] = packet[p]
  BY <1>1, <1>3
<1>5. id # ""
  BY <1>2, WebApiAssumption
<1>6. PICK w : w = [kind |-> "json", object |-> o, id |-> packet'[o].id,
                    params |-> packet'[o].params]
  OBVIOUS
<1>7. w.kind = "json" /\ w.object = o /\ w.params = m
  BY <1>4, <1>6
<1>8. /\ onWire' = IF stuck THEN onWire ELSE [onWire EXCEPT ![c] = w]
      /\ stuck' = stuck /\ api[c].at = "idle"
      /\ api' = [api EXCEPT ![c] = [at |-> "waiting", object |-> o, via |-> "json"]]
  BY <1>6 DEF JsonCall, JsonStarts, Starts
<1>9. reshard' = IF packet[o].id # "" /\ shard # packet[o].shard THEN reshard \cup {o} ELSE reshard
  BY DEF JsonCall, JsonStarts
<1>10. o \notin reshard' => o \notin reshard /\ (packet[o].id = "" \/ shard = packet[o].shard)
  BY <1>9
<1>11. PacketInv(o)
  BY DEF RequestInv
<1>12. Carries(o, m)
  <2>1. CASE stuck
    BY <1>2, <1>11, <2>1 DEF PacketInv
  <2>2. CASE ~stuck
    BY <1>2, <1>11, <2>2, ShardRead DEF PacketInv
  <2> QED
    BY <2>1, <2>2
<1>13. ~stuck /\ o \notin reshard' => ShardOf(m) = shard
  <2> SUFFICES ASSUME ~stuck, o \notin reshard' PROVE ShardOf(m) = shard
    OBVIOUS
  <2>1. PICK m0 : m0 = packet[o].params
    OBVIOUS
  <2>2. (\A k \in ShardNames : k \notin DOMAIN m0) \/ ShardOf(m0) = shard
    BY <1>10, <1>11, <2>1 DEF PacketInv
  <2> QED
    BY <1>2, <1>11, <2>1, <2>2, ShardRead DEF PacketInv
<1>14. ASSUME NEW p \in Objects PROVE PacketInv(p)'
  <2>1. CASE p = o
    <3>1. packet'[p].id = id /\ packet'[p].params = m /\ packet'[p].shard = shard
      BY <1>4, <2>1
    <3> QED
      BY <1>5, <1>8, <1>12, <1>13, <2>1, <3>1 DEF PacketInv
  <2>2. CASE p # o
    <3>1. packet'[p] = packet[p] /\ (p \in reshard' <=> p \in reshard)
      BY <1>4, <1>9, <2>2
    <3>2. PacketInv(p)
      BY DEF RequestInv
    <3> QED
      BY <1>8, <3>1, <3>2 DEF PacketInv
  <2> QED
    BY <2>1, <2>2
<1>15. ASSUME NEW d \in Calls PROVE WireInv(d)'
  <2>0. CASE d = c /\ stuck
    <3>1. onWire'[d].kind = "none"
      BY <1>1, <1>8, <2>0 DEF OneWay
    <3> QED
      BY <3>1 DEF WireInv
  <2>1. CASE d = c /\ ~stuck
    <3>1. onWire'[d] = w /\ api'[d].object = o /\ packet'[o].shard = shard
      BY <1>1, <1>4, <1>8, <2>1
    <3>2. WireJson(o, w)'
      BY <1>7, <1>12, <1>13, <2>1, <3>1 DEF WireJson
    <3>3. (onWire[d].kind # "none" => onWire[d].object = api[d].object)'
      BY <1>7, <3>1
    <3>4. (onWire[d].kind = "json" => WireJson(api[d].object, onWire[d]))'
      BY <1>7, <1>12, <1>13, <2>1, <3>1 DEF WireJson
    <3>5. onWire'[d].kind # "http"
      BY <1>7, <3>1
    <3> QED
      BY <3>3, <3>4, <3>5 DEF WireInv
  <2>2. CASE d # c
    <3>1. onWire'[d] = onWire[d] /\ api'[d] = api[d]
      BY <1>1, <1>8, <2>2
    <3>2. WireInv(d)
      BY DEF RequestInv
    <3>3. PICK p, v : p = api[d].object /\ v = onWire[d]
      OBVIOUS
    <3>4. ASSUME v.kind = "json" PROVE WireJson(p, v)'
      <4>1. WireJson(p, v)
        BY <3>2, <3>3, <3>4 DEF WireInv
      <4>2. api[d].via = "json" /\ api[d].at # "idle"
        BY <1>1, <3>3, <3>4 DEF OneWay
      <4>3. p \in Objects /\ packet[p].id # ""
        BY <1>1, <3>3, <4>2 DEF OneWay, IdOf
      <4>4. CASE p = o
        <5>1. o \notin reshard' => o \notin reshard /\ packet'[o].shard = packet[o].shard
          <6>1. packet'[o].shard = shard
            BY <1>4
          <6> QED
            BY <1>10, <4>3, <4>4, <6>1
        <5> QED
          BY <4>1, <4>4, <5>1 DEF WireJson
      <4>5. CASE p # o
        <5>1. (p \in reshard' <=> p \in reshard) /\ packet'[p] = packet[p]
          BY <1>4, <1>9, <4>3, <4>5
        <5> QED
          BY <4>1, <5>1 DEF WireJson
      <4> QED
        BY <4>4, <4>5
    <3>5. v.kind = "http" => WireHttp(p, v)
      BY <3>2, <3>3 DEF WireInv
    <3>6. v.kind # "none" => v.object = p
      BY <3>2, <3>3 DEF WireInv
    <3>7. onWire'[d] = v /\ api'[d].object = p
      BY <3>1, <3>3
    <3> QED
      BY <3>4, <3>5, <3>6, <3>7 DEF WireInv, WireJson
  <2> QED
    BY <2>0, <2>1, <2>2
<1> QED
  BY <1>14, <1>15 DEF RequestInv

(* All other steps leave the objects alone, and take requests away.        *)
LEMMA OthersKeep ==
  ASSUME RequestInv, UNCHANGED <<packet, reshard>>, stuck => stuck',
         \A c \in Calls : api'[c].object = api[c].object,
         \A c \in Calls : onWire'[c] = onWire[c] \/ onWire'[c].kind = "none"
  PROVE  RequestInv'
<1>1. \A p \in Objects : PacketInv(p)'
  BY DEF RequestInv, PacketInv
<1>2. ASSUME NEW d \in Calls PROVE WireInv(d)'
  <2>1. WireInv(d)
    BY DEF RequestInv
  <2>2. CASE onWire'[d] = onWire[d]
    BY <2>1, <2>2 DEF WireInv, WireJson
  <2>3. CASE onWire'[d].kind = "none"
    BY <2>3 DEF WireInv
  <2> QED
    BY <2>2, <2>3
<1> QED
  BY <1>1, <1>2 DEF RequestInv

LEMMA RequestStep == ASSUME WebFacts, RequestInv, [WebNext]_webVars PROVE RequestInv'
<1>1. /\ DOMAIN onWire = Calls
      /\ api \in [Calls -> [at : {"idle", "waiting", "answered", "failed", "timedOut"},
                            object : Objects \cup {"none"}, via : {"none", "http", "json"}]]
  BY DEF WebFacts, WebTypes
<1>2. CASE \E c \in Calls, o \in Objects : HttpCall(c, o)
  BY <1>2, HttpCallKeeps
<1>3. CASE \E c \in Calls, o \in Objects, shard \in Shards, s \in BOOLEAN :
             JsonCall(c, o, shard, s)
  BY <1>3, JsonCallKeeps
<1>4. ASSUME NEW c \in Calls, HttpArrives(c) \/ JsonArrives(c) PROVE RequestInv'
  <2>1. /\ UNCHANGED <<packet, api, reshard, stuck>>
        /\ onWire' = [onWire EXCEPT ![c] = Nowhere]
    BY <1>4 DEF HttpArrives, JsonArrives, Arrives, loopVars
  <2>2. Nowhere.kind = "none"
    BY DEF Nowhere
  <2>3. \A d \in Calls : onWire'[d] = onWire[d] \/ onWire'[d].kind = "none"
    BY <1>1, <2>1, <2>2
  <2> QED
    BY <2>1, <2>3, OthersKeep
<1>5. ASSUME NEW c \in Calls, HandlerWrites(c) \/ HandlerReturns(c) \/ Refuse(c) PROVE RequestInv'
  <2>1. UNCHANGED <<packet, api, onWire, reshard, stuck>>
    BY <1>5 DEF HandlerWrites, HandlerReturns, Refuse, loopVars
  <2> QED
    BY <2>1, OthersKeep
<1>6. ASSUME NEW c \in Calls, HttpReads(c) \/ Timeout(c) PROVE RequestInv'
  <2>1. /\ UNCHANGED <<packet, onWire, reshard, stuck>>
        /\ \E at \in {"answered", "failed", "timedOut"} : api' = [api EXCEPT ![c].at = at]
    BY <1>6 DEF HttpReads, Timeout, loopVars
  <2>2. \A d \in Calls : api'[d].object = api[d].object
    BY <1>1, <2>1
  <2> QED
    BY <2>1, <2>2, OthersKeep
<1>7. CASE JsonReads
  <2>1. UNCHANGED <<packet, onWire, reshard>>
    BY <1>7 DEF JsonReads
  <2>2. PICK c : api' = api \/ api' = [api EXCEPT ![c].at = "answered"]
    BY <1>7 DEF JsonReads, Given
  <2>3. \A d \in Calls : api'[d].object = api[d].object
    BY <1>1, <2>2
  <2>4. stuck => stuck'
    BY <1>7 DEF JsonReads
  <2> QED
    BY <2>1, <2>3, <2>4, OthersKeep
<1>8. CASE UNCHANGED webVars
  BY <1>8, OthersKeep DEF webVars, loopVars
<1> QED
  BY <1>2, <1>3, <1>4, <1>5, <1>6, <1>7, <1>8 DEF WebNext, WebServerStep
-----------------------------------------------------------------------------
(* What a list in a url is made of                                         *)
LEMMA TextsGrow == Texts \subseteq Seq(Seq(Words))
<1>1. Seq(STRING) \subseteq Seq(Words)
  BY SeqGrows DEF Words
<1>2. Seq(Seq(STRING)) \subseteq Seq(Seq(Words))
  BY <1>1, SeqGrows
<1> QED
  BY <1>2 DEF Texts

LEMMA RenderedType ==
  ASSUME NEW texts \in Texts PROVE Rendered(texts) \in Seq(Words)
<1>1. texts \in Lists(Words)
  BY TextsGrow DEF Lists
<1>2. PICK f \in Seq(Words) : f = FlattenSeq(texts)
  BY <1>1, FlattenType
<1>3. PICK a \in Seq(Words), b \in Seq(Words) : a = <<"[">> /\ b = <<"]">>
  <2>1. PICK x \in Words, y \in Words : x = "[" /\ y = "]"
    BY DEF Words
  <2>2. <<x>> \in Seq(Words) /\ <<y>> \in Seq(Words)
    OBVIOUS
  <2> QED
    BY <2>1, <2>2
<1>4. a \o f \in Seq(Words)
  BY <1>2, <1>3, ConcatProperties
<1>5. (a \o f) \o b \in Seq(Words)
  BY <1>4, <1>3, ConcatProperties
<1> QED
  BY <1>2, <1>3, <1>5 DEF Rendered

(* A list of texts in a url: the list comes back with more behind it.      *)
LEMMA ListRead ==
  ASSUME NEW texts \in Texts
  PROVE  \E t : /\ t = Append(texts, Rendered(texts)) /\ IsPrefix(texts, FromValues(t).of)
                /\ texts # <<>> => FromValues(t).list
<1>1. PICK r : r = Rendered(texts)
  OBVIOUS
<1>2. r \in Seq(Words)
  BY <1>1, RenderedType
<1>3. PICK S : S = Seq(Words) /\ texts \in Seq(S) /\ r \in S
  BY <1>2, TextsGrow
<1>4. PICK t \in Seq(S) : t = Append(texts, r)
  BY <1>3, AppendProperties
<1>5. PICK n \in Nat : n = Len(texts)
  BY <1>3, LenProperties
<1>6. Len(t) = n + 1 /\ \A i \in 1..n : t[i] = texts[i]
  BY <1>3, <1>4, <1>5, AppendProperties
<1>7. CASE n = 0
  <2>1. texts = <<>>
    BY <1>3, <1>5, <1>7, EmptySeq
  <2>2. PICK e \in S : e = t[1]
    BY <1>6, <1>7, ElementOfSeq
  <2>3. FromValues(t).of = <<e>>
    BY <1>6, <1>7, <2>2 DEF FromValues, Text
  <2>4. IsPrefix(texts, FromValues(t).of)
    <3>1. PICK u \in Seq(S) : u = <<e>> /\ Len(u) = 1
      <4>1. <<e>> \in Seq(S)
        OBVIOUS
      <4>2. Len(<<e>>) = 1
        OBVIOUS
      <4> QED
        BY <4>1, <4>2
    <3>2. SubSeq(u, 1, 0) = <<>> /\ SubSeq(texts, 1, 0) = <<>>
      BY <1>3, <3>1, SubSeqProperties, EmptySeq
    <3> QED
      BY <1>5, <1>7, <2>3, <3>1, <3>2 DEF IsPrefix
  <2> QED
    BY <1>1, <1>4, <2>1, <2>4
<1>8. CASE n # 0
  <2>1. FromValues(t) = List(t)
    BY <1>5, <1>6, <1>8 DEF FromValues
  <2>2. FromValues(t).list /\ FromValues(t).of = t
    BY <2>1 DEF List
  <2>3. PICK x \in Seq(S) : x = SubSeq(t, 1, n) /\ Len(x) = n /\ \A i \in 1..n : x[i] = t[i]
    <3>1. \A i \in 1..n : t[i] \in S
      BY <1>6, ElementOfSeq
    <3>2. \A i \in 1..n - 1 + 1 : SubSeq(t, 1, n)[i] = t[1 + i - 1]
      BY <1>6, <3>1, SubSeqProperties
    <3>3. Len(SubSeq(t, 1, n)) = n /\ SubSeq(t, 1, n) \in Seq(S)
      BY <1>6, <1>8, <3>1, SubSeqProperties
    <3>4. \A i \in 1..n : i \in 1..n - 1 + 1 /\ 1 + i - 1 = i
      OBVIOUS
    <3>5. \A i \in 1..n : SubSeq(t, 1, n)[i] = t[i]
      BY <3>2, <3>4
    <3> QED
      BY <3>3, <3>5
  <2>4. PICK y \in Seq(S) : y = SubSeq(texts, 1, n) /\ Len(y) = n /\ \A i \in 1..n : y[i] = texts[i]
    <3>1. \A i \in 1..n : texts[i] \in S
      BY <1>3, <1>5, ElementOfSeq
    <3>2. \A i \in 1..n - 1 + 1 : SubSeq(texts, 1, n)[i] = texts[1 + i - 1]
      BY <1>5, <3>1, SubSeqProperties
    <3>3. Len(SubSeq(texts, 1, n)) = n /\ SubSeq(texts, 1, n) \in Seq(S)
      BY <1>5, <1>8, <3>1, SubSeqProperties
    <3>4. \A i \in 1..n : i \in 1..n - 1 + 1 /\ 1 + i - 1 = i
      OBVIOUS
    <3>5. \A i \in 1..n : SubSeq(texts, 1, n)[i] = texts[i]
      BY <3>2, <3>4
    <3> QED
      BY <3>3, <3>5
  <2>5. x = y
    BY <1>6, <2>3, <2>4, SeqEqual
  <2>6. IsPrefix(texts, t)
    BY <1>5, <1>6, <2>3, <2>4, <2>5 DEF IsPrefix
  <2> QED
    BY <1>1, <1>4, <2>2, <2>6
<1> QED
  BY <1>7, <1>8

LEMMA OneIs ==
  ASSUME NEW S, NEW q \in Seq(S), Len(q) = 1
  PROVE  q = <<q[1]>>
<1>1. PICK e \in S : e = q[1]
  BY ElementOfSeq
<1>2. <<e>> \in Seq(S)
  OBVIOUS
<1>3. Len(<<e>>) = 1 /\ <<e>>[1] = e
  OBVIOUS
<1>4. PICK w \in Seq(S) : w = <<e>> /\ Len(w) = 1 /\ w[1] = e
  BY <1>2, <1>3
<1>5. q = w
  BY <1>1, <1>4, SeqEqual
<1> QED
  BY <1>1, <1>4, <1>5

(* What a url has for the name p of a param, when it comes back            *)
Brought(v, got, q) ==
  /\ q \in DOMAIN got
  /\ IF v.list THEN IsPrefix(v.of, got[q].of) /\ (v.of # <<>> => got[q].list)
     ELSE got[q] = v

LEMMA ParamRead ==
  ASSUME NEW o \in Objects, NEW m, Carries(o, m), NEW p \in DOMAIN Params[o],
         NEW got, NEW q, Holds(got, q, FromValues(MarshalURL(m)[p]))
  PROVE  Brought(Params[o][p], got, q)
<1>1. PICK v \in [list : BOOLEAN, of : Texts] : v = Params[o][p] /\ (v.list \/ Len(v.of) = 1)
  BY WebApiAssumption DEF Leaf
<1>2. p \in DOMAIN m /\ m[p] = v
  BY <1>1 DEF Carries
<1>3. PICK u : u = MarshalURL(m)[p]
  OBVIOUS
<1>4. u = IF v.list THEN Append(v.of, Rendered(v.of)) ELSE v.of
  BY <1>2, <1>3 DEF MarshalURL
<1>5. q \in DOMAIN got /\ got[q] = FromValues(u)
  BY <1>3 DEF Holds
<1>6. CASE v.list
  <2>1. v.of \in Texts
    OBVIOUS
  <2>2. IsPrefix(v.of, FromValues(u).of) /\ (v.of # <<>> => FromValues(u).list)
    BY <1>4, <1>6, <2>1, ListRead
  <2> QED
    BY <1>1, <1>5, <1>6, <2>2 DEF Brought
<1>7. CASE ~v.list
  <2>1. PICK s \in Texts : s = v.of /\ Len(s) = 1 /\ v.list = FALSE
    BY <1>1, <1>7
  <2>2. PICK e : e = s[1] /\ s = <<e>>
    BY <2>1, OneIs DEF Texts
  <2>3. FromValues(u) = [list |-> FALSE, of |-> s]
    BY <1>4, <1>7, <2>1, <2>2 DEF FromValues, Text
  <2>4. FromValues(u) = v
    BY <2>1, <2>3
  <2> QED
    BY <1>1, <1>5, <1>7, <2>4 DEF Brought
<1> QED
  BY <1>6, <1>7

LEMMA QueryRead ==
  ASSUME NEW texts \in Texts PROVE FromValues(texts).of = texts
<1>1. CASE Len(texts) = 1
  <2>1. PICK e : e = texts[1] /\ texts = <<e>>
    BY <1>1, OneIs DEF Texts
  <2> QED
    BY <1>1, <2>1 DEF FromValues, Text
<1>2. CASE Len(texts) # 1
  BY <1>2 DEF FromValues, List
<1> QED
  BY <1>1, <1>2

LEMMA OverIs ==
  ASSUME NEW m, NEW body
  PROVE  \E got : /\ got = UnmarshalInto(m, body)
                  /\ DOMAIN got \subseteq DOMAIN m \cup DOMAIN body
                  /\ \A p \in DOMAIN body : p \in DOMAIN got /\ got[p] = body[p]
                  /\ \A p \in DOMAIN m :
                       (\A q \in DOMAIN body : p[1] # q[1]) => p \in DOMAIN got /\ got[p] = m[p]
<1>1. PICK kept : kept = {p \in DOMAIN m : \A q \in DOMAIN body : p[1] # q[1]}
  OBVIOUS
<1>2. PICK got : got = [p \in kept \cup DOMAIN body |-> IF p \in DOMAIN body THEN body[p] ELSE m[p]]
  OBVIOUS
<1>3. got = UnmarshalInto(m, body)
  BY <1>1, <1>2 DEF UnmarshalInto
<1>4. DOMAIN got \subseteq DOMAIN m \cup DOMAIN body
  BY <1>1, <1>2
<1>5. \A p \in DOMAIN body : p \in DOMAIN got /\ got[p] = body[p]
  BY <1>2
<1>6. ASSUME NEW p \in DOMAIN m, \A q \in DOMAIN body : p[1] # q[1]
      PROVE  p \in DOMAIN got /\ got[p] = m[p]
  BY <1>1, <1>2, <1>6
<1> QED
  BY <1>3, <1>4, <1>5, <1>6
-----------------------------------------------------------------------------
(* The params that the server makes of a request: of a GET,                *)
LEMMA GetArrives ==
  ASSUME NEW o \in Objects, NEW m, Carries(o, m), NEW w, WireForm(o, w, m), Verb[o] = "GET",
         NEW form \in UnmarshalURLValues(w.form), NEW got, got = UnmarshalInto(form, w.body)
  PROVE  ParamsArrive(o, TRUE, got) /\ QueryArrives(o, got) /\ NothingElse(o, got)
<1>1. PICK Q, u : Q = Query[o] /\ u = MarshalURL(m)
  OBVIOUS
<1>2. DOMAIN u = DOMAIN m
  BY <1>1 DEF MarshalURL
<1>3. PICK values : values = Joined(Q, u)
  OBVIOUS
<1>4. /\ DOMAIN values = DOMAIN Q \cup DOMAIN m
      /\ \A p \in DOMAIN Q \cup DOMAIN m :
           values[p] = (IF p \in DOMAIN Q THEN Q[p] ELSE <<>>)
                         \o (IF p \in DOMAIN m THEN u[p] ELSE <<>>)
  BY <1>2, <1>3 DEF Joined
<1>5. w.form = values /\ w.body = EmptyMap
  BY <1>1, <1>3 DEF WireForm
<1>6. /\ DOMAIN got \subseteq DOMAIN form
      /\ \A p \in DOMAIN form : p \in DOMAIN got /\ got[p] = form[p]
  <2>1. DOMAIN EmptyMap = {}
    BY DEF EmptyMap
  <2> QED
    BY <1>5, <2>1, OverIs
<1>7. DOMAIN values \subseteq Asked(o) \cup ShardNames
  BY <1>1, <1>4, AskedNames DEF Carries
<1>8. IsFiniteSet(DOMAIN values)
  <2>1. IsFiniteSet({Partition}) /\ IsFiniteSet({ShardKey}) /\ IsFiniteSet({Revision})
    BY FS_Singleton
  <2>2. IsFiniteSet({Partition} \cup {ShardKey})
    BY <2>1, FS_Union
  <2>3. IsFiniteSet(({Partition} \cup {ShardKey}) \cup {Revision})
    BY <2>1, <2>2, FS_Union
  <2>4. ShardNames = ({Partition} \cup {ShardKey}) \cup {Revision}
    BY DEF ShardNames
  <2>5. IsFiniteSet(Asked(o) \cup ShardNames)
    BY <2>3, <2>4, AskedNames, FS_Union
  <2> QED
    BY <1>7, <2>5, FS_Subset
<1>9. ASSUME NEW p \in Asked(o), Alone(p, Asked(o)), p \in DOMAIN values
      PROVE  Holds(form, Unbracketed(p), FromValues(values[p]))
  <2>1. p \in NamePaths /\ p[1][1] \notin {"_p", "_k", "_v"}
    BY AskedNames
  <2>2. Alone(p, DOMAIN values)
    BY <1>7, <1>9, <2>1, NameApart DEF Alone
  <2>3. IsPrefix(Unbracketed(p), Unbracketed(p))
    BY <2>1, NameIs
  <2> QED
    BY <1>5, <1>8, <1>9, <2>2, <2>3, UrlRead
<1>10. ParamsArrive(o, TRUE, got)
  <2>1. ASSUME NEW p \in DOMAIN Params[o], Alone(p, Asked(o)), p \notin DOMAIN Query[o]
        PROVE  Brought(Params[o][p], got, Unbracketed(p))
    <3>1. p \in DOMAIN m /\ m[p] = Params[o][p]
      BY DEF Carries
    <3>2. values[p] = <<>> \o u[p]
      BY <1>1, <1>4, <2>1, <3>1
    <3>3. u[p] \in Seq(Seq(Words))
      <4>1. PICK v \in [list : BOOLEAN, of : Texts] : v = Params[o][p]
        BY WebApiAssumption DEF Leaf
      <4>2. u[p] = IF v.list THEN Append(v.of, Rendered(v.of)) ELSE v.of
        BY <1>1, <3>1, <4>1 DEF MarshalURL
      <4>3. CASE v.list
        <5>1. PICK t : t = v.of /\ t \in Texts
          OBVIOUS
        <5>2. Rendered(t) \in Seq(Words) /\ t \in Seq(Seq(Words))
          BY <5>1, RenderedType, TextsGrow
        <5>3. Append(t, Rendered(t)) \in Seq(Seq(Words))
          BY <5>2, AppendProperties
        <5> QED
          BY <4>2, <4>3, <5>1, <5>3
      <4> QED
        BY <4>2, <4>3, TextsGrow
    <3>4. values[p] = u[p]
      BY <3>2, <3>3, ConcatEmptySeq
    <3>5. Holds(form, Unbracketed(p), FromValues(u[p]))
      BY <1>4, <1>9, <2>1, <3>1, <3>4, AskedNames
    <3>6. Holds(got, Unbracketed(p), FromValues(MarshalURL(m)[p]))
      BY <1>1, <1>6, <3>5 DEF Holds
    <3> QED
      BY <3>6, ParamRead
  <2> QED
    BY <2>1 DEF ParamsArrive, Brought
<1>11. QueryArrives(o, got)
  <2>1. ASSUME NEW p \in DOMAIN Query[o], Alone(p, Asked(o)), p \notin DOMAIN Params[o]
        PROVE  Unbracketed(p) \in DOMAIN got /\ got[Unbracketed(p)].of = Query[o][p]
    <3>1. PICK t \in Texts : t = Query[o][p]
      BY WebApiAssumption
    <3>2. p \in Asked(o) /\ p[1][1] \notin {"_p", "_k", "_v"}
      BY AskedNames
    <3>3. p \notin DOMAIN m
      BY <2>1, <3>2, ShardName DEF Carries
    <3>4. values[p] = t \o <<>>
      BY <1>1, <1>4, <3>1, <3>3
    <3>5. values[p] = t
      BY <3>1, <3>4, ConcatEmptySeq DEF Texts
    <3>6. Holds(form, Unbracketed(p), FromValues(t))
      BY <1>1, <1>4, <1>9, <2>1, <3>2, <3>5
    <3>7. Holds(got, Unbracketed(p), FromValues(t))
      BY <1>6, <3>6 DEF Holds
    <3> QED
      BY <3>1, <3>7, QueryRead DEF Holds
  <2> QED
    BY <2>1 DEF QueryArrives
<1>12. NothingElse(o, got)
  <2>1. ASSUME NEW q \in DOMAIN got
        PROVE  \E p \in Asked(o) \cup {Partition, ShardKey, Revision} : q \in {p, Unbracketed(p)}
    <3>1. form \in FormMaps(values)
      BY <1>5, <1>8, UrlRead
    <3>2. PICK p \in DOMAIN values : q = Unbracketed(p)
      BY <1>6, <3>1, FormMapIs
    <3> QED
      BY <1>7, <3>2 DEF ShardNames
  <2> QED
    BY <2>1 DEF NothingElse
<1> QED
  BY <1>10, <1>11, <1>12

(* of another method, whose body holds the params,                         *)
LEMMA BodyArrives ==
  ASSUME NEW o \in Objects, NEW m, Carries(o, m), NEW w, WireForm(o, w, m), Verb[o] # "GET",
         NEW form \in UnmarshalURLValues(w.form), NEW got, got = UnmarshalInto(form, w.body)
  PROVE  ParamsArrive(o, FALSE, got) /\ QueryArrives(o, got) /\ NothingElse(o, got)
<1>1. PICK Q : Q = Query[o] /\ DOMAIN Q \subseteq Asked(o) /\ IsFiniteSet(DOMAIN Q)
  <2>1. DOMAIN Query[o] \in SUBSET Asked(o) /\ IsFiniteSet(Asked(o))
    BY AskedNames
  <2> QED
    BY <2>1, FS_Subset
<1>2. w.form = Q /\ w.body = m
  BY <1>1 DEF WireForm
<1>3. /\ DOMAIN got \subseteq DOMAIN form \cup DOMAIN m
      /\ \A p \in DOMAIN m : p \in DOMAIN got /\ got[p] = m[p]
      /\ \A p \in DOMAIN form :
           (\A q \in DOMAIN m : p[1] # q[1]) => p \in DOMAIN got /\ got[p] = form[p]
  BY <1>2, OverIs
<1>4. /\ form \in FormMaps(Q)
      /\ \A p \in DOMAIN Q :
           Alone(p, DOMAIN Q) /\ IsPrefix(Unbracketed(p), Unbracketed(p))
             => Holds(form, Unbracketed(p), FromValues(Q[p]))
  BY <1>1, <1>2, UrlRead
<1>5. ParamsArrive(o, FALSE, got)
  BY <1>3 DEF ParamsArrive, Carries
<1>6. QueryArrives(o, got)
  <2>1. ASSUME NEW p \in DOMAIN Query[o], Alone(p, Asked(o)), p \notin DOMAIN Params[o],
               ~Replaced(o, p)
        PROVE  Unbracketed(p) \in DOMAIN got /\ got[Unbracketed(p)].of = Query[o][p]
    <3>1. PICK t \in Texts : t = Query[o][p]
      BY WebApiAssumption
    <3>2. p \in NamePaths /\ p[1][1] \notin {"_p", "_k", "_v"}
      BY AskedNames
    <3>3. PICK q : q = Unbracketed(p)
      OBVIOUS
    <3>4. Alone(p, DOMAIN Q) /\ IsPrefix(Unbracketed(p), Unbracketed(p))
      BY <1>1, <2>1, <3>2, NameIs DEF Alone
    <3>5. q \in DOMAIN form /\ form[q] = FromValues(t)
      BY <1>1, <1>4, <3>1, <3>3, <3>4 DEF Holds
    <3>6. \A k \in DOMAIN m : q[1] # k[1]
      <4>1. \A k \in DOMAIN Params[o] : q[1] # k[1]
        BY <2>1, <3>3 DEF Replaced
      <4>2. \A k \in ShardNames : q[1] # k[1]
        BY <3>2, <3>3, NameApart
      <4> QED
        BY <4>1, <4>2 DEF Carries
    <3>7. q \in DOMAIN got /\ got[q] = FromValues(t)
      BY <1>3, <3>5, <3>6
    <3> QED
      BY <3>1, <3>3, <3>7, QueryRead
  <2> QED
    BY <2>1 DEF QueryArrives
<1>7. NothingElse(o, got)
  <2>1. ASSUME NEW q \in DOMAIN got
        PROVE  \E p \in Asked(o) \cup {Partition, ShardKey, Revision} : q \in {p, Unbracketed(p)}
    <3>1. CASE q \in DOMAIN m
      BY <3>1, AskedNames DEF Carries, ShardNames
    <3>2. CASE q \in DOMAIN form
      <4>1. PICK p \in DOMAIN Q : q = Unbracketed(p)
        BY <1>4, <3>2, FormMapIs
      <4> QED
        BY <1>1, <4>1
    <3> QED
      BY <1>3, <3>1, <3>2
  <2> QED
    BY <2>1 DEF NothingElse
<1> QED
  BY <1>5, <1>6, <1>7

(* and of a JSON request.                                                  *)
LEMMA SentArrives ==
  ASSUME NEW o \in Objects, NEW got, Carries(o, got)
  PROVE  ParamsArrive(o, FALSE, got) /\ NothingElse(o, got)
<1>1. ParamsArrive(o, FALSE, got)
  BY DEF ParamsArrive, Carries
<1>2. NothingElse(o, got)
  BY AskedNames DEF NothingElse, Carries, ShardNames
<1> QED
  BY <1>1, <1>2

(* What the handler of a call is given when it begins                      *)
GotRight(o, json, request) ==
  /\ ParamsArrive(o, ~json /\ Verb[o] = "GET", request.params)
  /\ ~json => QueryArrives(o, request.params)
  /\ NothingElse(o, request.params)
  /\ json /\ o \notin reshard => request.shard = packet[o].shard

LEMMA HttpGiven ==
  ASSUME WebFacts, RequestInv, NEW c \in Calls, HttpArrives(c)
  PROVE  GotRight(api[c].object, api[c].via = "json", received'[c])
<1>1. PICK o, w : o = api[c].object /\ w = onWire[c]
  OBVIOUS
<1>2. w.kind = "http"
  BY <1>1 DEF HttpArrives
<1>3. OneWay(c) /\ DOMAIN received = Calls
  BY DEF WebFacts, WebTypes
<1>4. o \in Objects /\ api[c].via = "http"
  BY <1>1, <1>2, <1>3 DEF OneWay
<1>5. PICK m : Carries(o, m) /\ WireForm(o, w, m)
  <2>1. WireInv(c)
    BY DEF RequestInv
  <2> QED
    BY <1>1, <1>2, <2>1 DEF WireInv, WireHttp
<1>6. PICK form \in UnmarshalURLValues(w.form) :
        Arrives(c, [kind |-> KindAt[Uri[w.object]], id |-> "",
                    params |-> UnmarshalInto(form, w.body), shard |-> NewShard])
  BY <1>1 DEF HttpArrives
<1>7. PICK got : got = UnmarshalInto(form, w.body)
  OBVIOUS
<1>8. received'[c].params = got
  BY <1>3, <1>6, <1>7 DEF Arrives
<1>9. /\ ParamsArrive(o, Verb[o] = "GET", got)
      /\ QueryArrives(o, got) /\ NothingElse(o, got)
  <2>1. CASE Verb[o] = "GET"
    <3>1. ParamsArrive(o, TRUE, got) /\ QueryArrives(o, got) /\ NothingElse(o, got)
      BY <1>4, <1>5, <1>7, <2>1, GetArrives
    <3> QED
      BY <2>1, <3>1
  <2>2. CASE Verb[o] # "GET"
    <3>1. ParamsArrive(o, FALSE, got) /\ QueryArrives(o, got) /\ NothingElse(o, got)
      BY <1>4, <1>5, <1>7, <2>2, BodyArrives
    <3> QED
      BY <2>2, <3>1
  <2> QED
    BY <2>1, <2>2
<1>10. api[c].via # "json"
  BY <1>4
<1> QED
  BY <1>1, <1>8, <1>9, <1>10 DEF GotRight

LEMMA JsonGiven ==
  ASSUME WebFacts, RequestInv, NEW c \in Calls, JsonArrives(c)
  PROVE  GotRight(api[c].object, api[c].via = "json", received'[c])
<1>1. PICK o, w : o = api[c].object /\ w = onWire[c]
  OBVIOUS
<1>2. w.kind = "json"
  BY <1>1 DEF JsonArrives
<1>3. OneWay(c) /\ DOMAIN received = Calls
  BY DEF WebFacts, WebTypes
<1>4. o \in Objects /\ api[c].via = "json"
  BY <1>1, <1>2, <1>3 DEF OneWay
<1>5. Carries(o, w.params) /\ (o \notin reshard => ShardOf(w.params) = packet[o].shard)
  <2>1. WireInv(c)
    BY DEF RequestInv
  <2> QED
    BY <1>1, <1>2, <2>1 DEF WireInv, WireJson
<1>6. PICK request : /\ request.params = w.params /\ request.shard = ShardOf(w.params)
                     /\ Arrives(c, request)
  BY <1>1 DEF JsonArrives
<1>7. received'[c].params = w.params /\ received'[c].shard = ShardOf(w.params)
  BY <1>3, <1>6 DEF Arrives
<1>8. ParamsArrive(o, FALSE, w.params) /\ NothingElse(o, w.params)
  BY <1>4, <1>5, SentArrives
<1> QED
  BY <1>1, <1>4, <1>5, <1>7, <1>8 DEF GotRight

(* No other step begins a handler.                                         *)
LEMMA BeginsIs ==
  ASSUME WebFacts, [WebNext]_webVars, NEW c \in Calls, running[c] = "none", running'[c] = "runs"
  PROVE  HttpArrives(c) \/ JsonArrives(c)
<1>1. running \in [Calls -> {"none", "runs", "returned"}]
  BY DEF WebFacts, WebTypes
<1>2. ASSUME NEW d \in Calls, HttpArrives(d) \/ JsonArrives(d) PROVE d = c
  <2>1. running' = [running EXCEPT ![d] = "runs"]
    BY <1>2 DEF HttpArrives, JsonArrives, Arrives
  <2> QED
    BY <1>1, <2>1
<1>3. ASSUME NEW d \in Calls, HandlerWrites(d) \/ HandlerReturns(d) \/ Refuse(d) PROVE FALSE
  <2>1. running' = running \/ running' = [running EXCEPT ![d] = "returned"]
    BY <1>3 DEF HandlerWrites, HandlerReturns, Refuse
  <2> QED
    BY <1>1, <2>1
<1>4. ASSUME \/ \E d \in Calls, o \in Objects :
                  \/ HttpCall(d, o)
                  \/ \E shard \in Shards, s \in BOOLEAN : JsonCall(d, o, shard, s)
             \/ \E d \in Calls : HttpReads(d) \/ Timeout(d)
             \/ JsonReads
             \/ UNCHANGED webVars
      PROVE  FALSE
  <2>1. running' = running
    BY <1>4 DEF HttpCall, JsonCall, JsonStarts, HttpReads, Timeout, JsonReads, webVars, serverVars
  <2> QED
    BY <2>1
<1> QED
  BY <1>2, <1>3, <1>4 DEF WebNext, WebServerStep

(***************************************************************************)
(* RequestCorrect: what the application put into a Request object is what  *)
(* the handler gets, whichever way the call takes, in whatever order maps  *)
(* are gone through (RequestArrives).  The invariant is that the object    *)
(* and what is under way of it always carry these params, and only the     *)
(* shard besides.                                                          *)
(***************************************************************************)
THEOREM RequestCorrect == WebSpec => RequestArrives
<1>1. WebInit => RequestInv
  BY RequestInitially
<1>2. WebInv => WebFacts
  BY DEF WebInv
<1>3. WebFacts /\ RequestInv /\ [WebNext]_webVars => RequestInv'
  BY RequestStep
<1>4. WebFacts /\ RequestInv /\ [WebNext]_webVars =>
        [\A c \in Calls : running[c] = "none" /\ running'[c] = "runs" =>
           LET o    == api[c].object
               got  == received'[c].params
               json == api[c].via = "json"
           IN  /\ ParamsArrive(o, ~json /\ Verb[o] = "GET", got)
               /\ ~json => QueryArrives(o, got)
               /\ NothingElse(o, got)
               /\ json /\ o \notin reshard => received'[c].shard = packet[o].shard]_webVars
  <2> SUFFICES ASSUME WebFacts, RequestInv, [WebNext]_webVars, NEW c \in Calls,
                      running[c] = "none", running'[c] = "runs"
               PROVE  GotRight(api[c].object, api[c].via = "json", received'[c])
    BY DEF GotRight
  <2>1. HttpArrives(c) \/ JsonArrives(c)
    BY BeginsIs
  <2> QED
    BY <2>1, HttpGiven, JsonGiven
<1> QED
  BY <1>1, <1>2, <1>3, <1>4, WebAlways, PTL DEF WebSpec, RequestArrives
=============================================================================
