------------------------------ MODULE BinCodec ------------------------------
(***************************************************************************)
(* The binary protocol (cheshire/protocol_bin.go): what is written for a   *)
(* message and what is read back.                                          *)
(*                                                                         *)
(* A stream is a sequence of cells.  A cell is an integer of the protocol  *)
(* (whatever its width) or one byte of an array, and strings are arrays.   *)
(* Both sides go through the fields of a message in the order of the same  *)
(* format.                                                                 *)
(***************************************************************************)
EXTENDS Integers, Sequences, SequencesExt, FiniteSetsExt

CONSTANTS
  Half16, Half32,   (* 2^15 and 2^31: what the lengths of arrays wrap at   *)
  Json,             (* arrays that are json objects                        *)
  EmptyJson         (* the one without a member                            *)

ASSUME CodecAssumption == /\ {Half16, Half32} \subseteq Nat \ {0}
                          /\ EmptyJson \in Json /\ <<>> \notin Json

TXN_ACCEPT       == <<"single", "multi">>
TXN_STATUS       == <<"completed", "continue">>
METHOD           == <<"GET", "POST", "PUT", "DELETE">>
PARAM_ENCODING   == <<"json", "msgpack">>
CONTENT_ENCODING == <<"string", "bytes", "json", "msqpack">>

Table == [TxnAccept |-> TXN_ACCEPT, TxnStatus |-> TXN_STATUS, Method |-> METHOD,
          ParamEncoding |-> PARAM_ENCODING, ContentEncoding |-> CONTENT_ENCODING]

(* intN(n), where half is 2^(N-1)                                          *)
Wrap(n, half) == ((n + half) % (2 * half)) - half

(* Each field and how it is written: an integer, an array whose length is  *)
(* an int16 or an int32, or an entry of a table.                           *)
ShardFormat == << <<"partition", "int16">>, <<"key", "array16">>, <<"revision", "int64">> >>

ContentFormat == << <<"paramEncoding", "ParamEncoding">>, <<"params", "array32">>,
                    <<"contentEncoding", "ContentEncoding">>, <<"content", "array32">> >>

CallFormat == << <<"txnId", "array16">>, <<"txnAccept", "TxnAccept">>,
                 <<"method", "Method">>, <<"uri", "array16">> >> \o ContentFormat

RequestFormat == ShardFormat \o CallFormat

ResponseFormat ==
  << <<"txnId", "array16">>, <<"txnStatus", "TxnStatus">>, <<"statusCode", "int16">>,
     <<"statusMessage", "array16">> >> \o ContentFormat

HelloFormat == << <<"encoding", "ParamEncoding">>, <<"hello", "array16">> >>

Half(kind) == IF kind = "array32" THEN Half32 ELSE Half16
-----------------------------------------------------------------------------
(* Writing: the cells written, and whether all of the message was.         *)

WriteArray(bytes, kind) == <<Wrap(Len(bytes), Half(kind))>> \o bytes

WriteField(kind, v) ==
  CASE kind \in {"array16", "array32"} -> WriteArray(v, kind)
    [] kind = "int16"                  -> <<Wrap(v, Half16)>>
    [] kind = "int64"                  -> <<v>>
    [] OTHER                           -> <<SelectInSeq(Table[kind], LAMBDA e : e = v) - 1>>

(* A value that is not in its table ends the message where it stands.      *)
WriteFields(format, msg) ==
  LET kind(n) == format[n][2]
      v(n)    == msg[format[n][1]]
      unknown == {n \in DOMAIN format :
                    kind(n) \in DOMAIN Table /\ ~Contains(Table[kind(n)], v(n))}
      end     == IF unknown = {} THEN Len(format) ELSE Min(unknown) - 1
  IN  [cells |-> FlattenSeq([n \in 1..end |-> WriteField(kind(n), v(n))]),
       ok    |-> unknown = {}]

WriteHello(hello) == WriteFields(HelloFormat, [encoding |-> "json", hello |-> hello])

(* An encoding that is not set, or not known, is sent as bytes.            *)
Encoding(msg) ==
  IF Contains(CONTENT_ENCODING, msg.contentEncoding) THEN msg.contentEncoding ELSE "bytes"

Sent(msg) == [msg EXCEPT !.contentEncoding = Encoding(msg), !.paramEncoding = "json"]

(* Nothing stands for a nil shard, though the decoder expects one.         *)
WriteRequest(r) ==
  WriteFields(IF "partition" \in DOMAIN r THEN RequestFormat ELSE CallFormat, Sent(r))

(* Mutant: the content goes without its encoding too.                      *)
WriteResponseAlways(r) == WriteFields(ResponseFormat, Sent(r))

(* The content of a response goes only with its encoding.                  *)
WriteResponse(r) ==
  WriteFields(ResponseFormat,
    Sent([r EXCEPT !.content = IF r.contentEncoding = "" THEN <<>> ELSE @]))
-----------------------------------------------------------------------------
(* Reading a field from a stream: the value and how many cells it takes;   *)
(* or state "short" (the reader waits for more), or "bad".                 *)

Took(v, n) == [state |-> "ok", val |-> v, size |-> n]
Fails(why) == [state |-> why, val |-> <<>>, size |-> 0]

(* Mutant: an array that is cut short is taken for the whole.              *)
ReadArrayShort(cells) ==
  IF cells[1] < 0 THEN Fails("bad")
  ELSE Took(SubSeq(cells, 2, Min({cells[1] + 1, Len(cells)})), Min({cells[1] + 1, Len(cells)}))

(* Mutant: the reader waits for one cell more.                             *)
ReadArrayWaits(cells) ==
  CASE cells[1] < 0               -> Fails("bad")
    [] cells[1] + 1 >= Len(cells) -> Fails("short")
    [] OTHER                      -> Took(SubSeq(cells, 2, cells[1] + 1), cells[1] + 1)

ReadArray(cells) ==
  CASE cells[1] < 0           -> Fails("bad")
    [] cells[1] >= Len(cells) -> Fails("short")
    [] OTHER                  -> Took(SubSeq(cells, 2, cells[1] + 1), cells[1] + 1)

ReadTable(cells, table) ==
  IF cells[1] >= Len(table) THEN Fails("bad") ELSE Took(table[cells[1] + 1], 1)

(* ParseParams: no bytes are an empty map, others must be json; the hello  *)
(* must be json too.                                                       *)
ParseParams(f) ==
  IF f.state # "ok" THEN f
  ELSE CASE f.val = <<>>   -> [f EXCEPT !.val = EmptyJson]
         [] f.val \in Json -> f
         [] OTHER          -> Fails("bad")

UnmarshalHello(f) == IF f.state = "ok" /\ f.val \notin Json THEN Fails("bad") ELSE f

ReadField(cells, name, kind) ==
  IF cells = <<>> THEN Fails("short")
  ELSE CASE name = "params"    -> ParseParams(ReadArray(cells))
         [] name = "hello"     -> UnmarshalHello(ReadArray(cells))
         [] kind \in {"array16", "array32"} /\ name \notin {"params", "hello"} -> ReadArray(cells)
         [] kind \in {"int16", "int64"}     -> Took(cells[1], 1)
         [] OTHER                           -> ReadTable(cells, Table[kind])
=============================================================================
