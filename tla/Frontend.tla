------------------------------ MODULE Frontend ------------------------------
(***************************************************************************)
(* A client and a server talk the binary protocol over one socket:         *)
(* newCheshireConn, WriteRequest and the listener on one side,             *)
(* handleConnection, the router and BinaryWriter.Write on the other.  Both *)
(* decoders read a field at a time and wait until the socket has brought   *)
(* all of it; a write may time out half way, and the client may leave with *)
(* cells under way.                                                        *)
(*                                                                         *)
(* After a request that was cut short the event loop goes on with the      *)
(* next.  Its bytes are no cells for the server any more, which completes  *)
(* what was cut with them.                                                 *)
(***************************************************************************)
EXTENDS BinCodec, Router

CONSTANTS
  Requests,     (* what the client's callers send                          *)
  Reply(_),     (* the response that a controller gives, but for the txn   *)
  Hello,
  Misreadings,  (* what the server may take for a request where one was    *)
                (* cut: its first fields, and any bytes for the others     *)
  MaxRequests   (* bound: requests written, and those misread              *)

ShardFields   == {"partition", "key", "revision"}
ContentFields == {"paramEncoding", "params", "contentEncoding", "content"}
CallFields    == {"txnId", "txnAccept", "method", "uri"} \cup ContentFields
ReplyFields   == {"txnId", "txnStatus", "statusCode", "statusMessage"} \cup ContentFields

(* Longer arrays would wrap their length, and the stream would go on at    *)
(* another place for the reader than for the writer.                       *)
Bytes(v, half) == v \in Seq(Int) /\ Len(v) < half

(* The params of a message are a map, which json has a text for.           *)
ContentFits(m) ==
  m.params \in Json /\ Bytes(m.params, Half32) /\ Bytes(m.content, Half32)

ShardFits(r) ==
  r.partition \in -Half16..(Half16 - 1) /\ Bytes(r.key, Half16) /\ r.revision \in Int

(* A status that the protocol has no number for would end the response     *)
(* where it stands: such are the malformed ones of ServerConn.             *)
ASSUME FrontendAssumption ==
  /\ Hello \in Json /\ Bytes(Hello, Half16)
  /\ \A r \in Requests :
       /\ DOMAIN r \in {CallFields, ShardFields \cup CallFields}
       /\ "partition" \in DOMAIN r => ShardFits(r)
       /\ Bytes(r.txnId, Half16) /\ Bytes(r.uri, Half16) /\ ContentFits(r)
  /\ \A m \in Misreadings :
       /\ DOMAIN m = ShardFields \cup CallFields /\ Bytes(m.txnId, Half16)
  /\ \A c \in Controllers \cup {NotFound} :
       /\ DOMAIN Reply(c) = ReplyFields
       /\ Contains(TXN_STATUS, Reply(c).txnStatus)
       /\ Reply(c).statusCode \in -Half16..(Half16 - 1)
       /\ Bytes(Reply(c).statusMessage, Half16) /\ ContentFits(Reply(c))

VARIABLES
  up, down,     (* cells under way to the server, up to where a request    *)
                (* was cut, and to the client                              *)
  server,       (* "hello", "request" (what it decodes), or "closed"       *)
  serverMsg,    (* the fields that the server has decoded of its message   *)
  client,       (* "open" or "closed"                                      *)
  clientMsg,    (* the fields that the client has decoded of a response    *)
  cut,          (* a request was written in part                           *)
  behind,       (* what was written after it: "nothing", "sent" or "lost"  *)
  misread,      (* the server has read some of that                        *)
  written,      (* history: requests written whole, before any was cut     *)
  dispatched,   (* requests that were handed to a controller               *)
  answered,     (* which of them were answered, in the order of the answers *)
  read          (* responses that the client decoded                       *)

histVars == <<written, dispatched, answered, read>>
tearVars == <<cut, behind, misread>>
vars == <<up, down, server, serverMsg, client, clientMsg, tearVars, histVars>>

(* The controllers are registered before the server listens, see Bootstrap *)
Registered == UNION {EntriesOf(c) : c \in Controllers}

NoFields == [f \in {} |-> <<>>]

Init ==
  /\ up = WriteHello(Hello).cells
  /\ down = <<>>
  /\ server = "hello" /\ client = "open"
  /\ serverMsg = NoFields /\ clientMsg = NoFields
  /\ cut = FALSE /\ behind = "nothing" /\ misread = FALSE
  /\ written = <<>> /\ dispatched = <<>> /\ answered = <<>> /\ read = <<>>

(* A message with one more field                                           *)
With(msg, name, v) ==
  [f \in DOMAIN msg \cup {name} |-> IF f = name THEN v ELSE msg[f]]

(* The next field of a message, when there is one                          *)
Field(format, msg) == format[Cardinality(DOMAIN msg) + 1]
Whole(format, msg) == Cardinality(DOMAIN msg) = Len(format)
Found(format, msg, cells) == ReadField(cells, Field(format, msg)[1], Field(format, msg)[2])
-----------------------------------------------------------------------------
(* The client                                                              *)

(* A request is written where the one before it ended; after one that was  *)
(* cut that is no place for a request, see WriteBehind.                    *)
MayWrite == client = "open" /\ ~cut /\ Len(written) < MaxRequests

SendRequest(r) ==
  LET w == WriteRequest(r)
  IN  /\ MayWrite
      /\ up' = up \o w.cells
      /\ cut' = ~w.ok
      /\ written' = IF w.ok THEN Append(written, r) ELSE written
      /\ UNCHANGED <<down, server, serverMsg, client, clientMsg, behind, misread, dispatched,
                     answered, read>>

(* The write deadline passes: part of the request is written.              *)
WriteTimesOut(r) ==
  LET w == WriteRequest(r).cells
  IN  /\ MayWrite
      /\ \E n \in 1..(Len(w) - 1) : up' = up \o SubSeq(w, 1, n)
      /\ cut' = TRUE
      /\ UNCHANGED <<down, server, serverMsg, client, clientMsg, behind, misread, histVars>>

(* The loop has logged the error, and writes another, whole or in part.    *)
WriteBehind ==
  /\ client = "open" /\ cut
  /\ behind' = "sent"
  /\ UNCHANGED <<up, down, server, serverMsg, client, clientMsg, cut, misread, histVars>>

(* cleanup closes the socket, or the client's process ends: some of what   *)
(* is under way may be lost.                                               *)
ClientCloses ==
  /\ client = "open"
  /\ client' = "closed"
  /\ \E n \in 0..Len(up) : up' = SubSeq(up, 1, n)
  /\ behind' \in CASE behind = "nothing"            -> {"nothing"}
                   [] behind = "sent" /\ up' = up   -> {"sent", "lost"}
                   [] behind = "sent" /\ up' # up   -> {"lost"}
  /\ UNCHANGED <<down, server, serverMsg, clientMsg, cut, misread, histVars>>

(* The listener: DecodeResponse                                            *)
ClientReads ==
  LET f == Found(ResponseFormat, clientMsg, down)
  IN  /\ client = "open"
      /\ ~Whole(ResponseFormat, clientMsg)
      /\ f.state = "ok"
      /\ clientMsg' = With(clientMsg, Field(ResponseFormat, clientMsg)[1], f.val)
      /\ down' = SubSeq(down, f.size + 1, Len(down))
      /\ UNCHANGED <<up, server, serverMsg, client, tearVars, histVars>>

GotResponse ==
  /\ client = "open"
  /\ Whole(ResponseFormat, clientMsg)
  /\ read' = Append(read, clientMsg)
  /\ clientMsg' = NoFields
  /\ UNCHANGED <<up, down, server, serverMsg, client, tearVars, written, dispatched, answered>>
-----------------------------------------------------------------------------
(* The server: handleConnection, with DecodeHello and DecodeRequest        *)

Format == IF server = "hello" THEN HelloFormat ELSE RequestFormat

ServerReads ==
  LET f == Found(Format, serverMsg, up)
  IN  /\ server # "closed"
      /\ ~Whole(Format, serverMsg)
      /\ f.state = "ok"
      /\ serverMsg' = With(serverMsg, Field(Format, serverMsg)[1], f.val)
      /\ up' = SubSeq(up, f.size + 1, Len(up))
      /\ UNCHANGED <<down, server, client, clientMsg, tearVars, histVars>>

GotHello ==
  /\ server = "hello"
  /\ Whole(HelloFormat, serverMsg)
  /\ server' = "request"
  /\ serverMsg' = NoFields
  /\ UNCHANGED <<up, down, client, clientMsg, tearVars, histVars>>

(* HandleRequest is started with the controller that the router finds.     *)
Dispatch ==
  /\ server = "request"
  /\ Whole(RequestFormat, serverMsg)
  /\ \E c \in Match(Registered, serverMsg.method, serverMsg.uri) :
       dispatched' = Append(dispatched, [req |-> serverMsg, to |-> c])
  /\ serverMsg' = NoFields
  /\ UNCHANGED <<up, down, server, client, clientMsg, tearVars, written, answered, read>>

(* What was cut is completed with the bytes behind it, and all that        *)
(* follows is read out of place: there is a request in it, or a length or  *)
(* a place in a table that is none, of which some end the process.         *)
ServerMisreads ==
  /\ server = "request" /\ behind = "sent"
  /\ ~Whole(RequestFormat, serverMsg)
  /\ Found(RequestFormat, serverMsg, up).state = "short"
  /\ up' = <<>>
  /\ misread' = TRUE
  /\ \/ /\ Len(dispatched) < MaxRequests
        /\ serverMsg' \in {m \in Misreadings : \A f \in DOMAIN serverMsg : m[f] = serverMsg[f]}
        /\ UNCHANGED server
     \/ server' = "closed" /\ UNCHANGED serverMsg
  /\ UNCHANGED <<down, client, clientMsg, cut, behind, histVars>>

(* The stream ends within a message or between two, or what was read is no *)
(* message.                                                                *)
ServerCloses ==
  /\ server # "closed"
  /\ ~Whole(Format, serverMsg)
  /\ LET f == Found(Format, serverMsg, up)
     IN  f.state = "bad" \/ (f.state = "short" /\ client = "closed")
  /\ server' = "closed"
  /\ UNCHANGED <<up, down, serverMsg, client, clientMsg, tearVars, histVars>>

Response(i) == [Reply(dispatched[i].to) EXCEPT !.txnId = dispatched[i].req.txnId]

(* HandleRequest runs in a goroutine of its own; the lock of the writer    *)
(* keeps responses apart.                                                  *)
Answer(i) ==
  /\ server = "request"
  /\ ~Contains(answered, i)
  /\ down' = down \o WriteResponse(Response(i)).cells
  /\ answered' = Append(answered, i)
  /\ UNCHANGED <<up, server, serverMsg, client, clientMsg, tearVars, written, dispatched, read>>

Next ==
  \/ \E r \in Requests : SendRequest(r) \/ WriteTimesOut(r)
  \/ WriteBehind \/ ClientCloses \/ ClientReads \/ GotResponse
  \/ ServerReads \/ GotHello \/ Dispatch \/ ServerMisreads \/ ServerCloses
  \/ \E i \in DOMAIN dispatched : Answer(i)

Spec == Init /\ [][Next]_vars

(* The socket delivers, and both decoders and the handlers run.            *)
FairSpec ==
  /\ Spec
  /\ WF_vars(ClientReads \/ GotResponse)
  /\ WF_vars(ServerReads \/ GotHello \/ Dispatch)
  /\ \A i \in 1..MaxRequests : WF_vars(i \in DOMAIN dispatched /\ Answer(i))
-----------------------------------------------------------------------------
TypeOK ==
  /\ server \in {"hello", "request", "closed"} /\ client \in {"open", "closed"}
  /\ DOMAIN serverMsg = {f[1] : f \in ToSet(SubSeq(Format, 1, Cardinality(DOMAIN serverMsg)))}
                        \/ server = "closed"
  /\ cut \in BOOLEAN /\ misread \in BOOLEAN /\ behind \in {"nothing", "sent", "lost"}
  /\ written \in Seq(Requests)
  /\ \A i \in DOMAIN dispatched : dispatched[i].to \in Controllers \cup {NotFound}
  /\ answered \in Seq(DOMAIN dispatched)
  /\ Len(read) <= Len(answered)

(* The server handles the requests that the client wrote, in that order,   *)
(* each with what it said.  One that was written in part or lost in part   *)
(* is not handled, unless more was written behind it: then no more holds   *)
(* than that those before it come first.                                   *)
DispatchedAsWritten ==
  /\ \A i \in DOMAIN dispatched : i <= Len(written) => dispatched[i].req = Sent(written[i])
  /\ Len(dispatched) > Len(written) => behind # "nothing"

(* The client reads the responses as the handlers gave them, in the order  *)
(* in which they were written; one whose encoding is not set arrives       *)
(* without content.                                                        *)
ReadAsAnswered ==
  \A j \in DOMAIN read :
    LET r == Response(answered[j])
    IN  read[j] = Sent(IF r.contentEncoding = "" THEN [r EXCEPT !.content = <<>>] ELSE r)

(* While the client stays, every request that it wrote whole, before any   *)
(* that was cut, is handled without waiting for the next to arrive, and    *)
(* its answer is read; but what is written behind one that was cut may     *)
(* make the server hang up on all of them.                                 *)
WrittenIsAnswered ==
  \A n \in 1..MaxRequests :
    Len(written) >= n ~> \/ \E j \in DOMAIN read : answered[j] = n
                         \/ client = "closed"
                         \/ behind # "nothing" /\ server = "closed"
=============================================================================
