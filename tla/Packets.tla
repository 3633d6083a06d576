------------------------------ MODULE Packets ------------------------------
(***************************************************************************)
(* Requests and responses outside the binary protocol: the JSON of         *)
(* cheshire/strestpackets.go and cheshire/protocols.go, and what           *)
(* client/client.go and cheshire/httplistener.go make of an http request.  *)
(*                                                                         *)
(* A dynmap is given by its leaves, as in DynMap.  Put does not honor the  *)
(* dot, so that a name is a sequence of words: <<"a", "b">> is the name    *)
(* a.b and <<<<"a">>, <<"b">>>> the leaf b of the sub map a.  A leaf is a  *)
(* text or a list of texts, and a text is a sequence of tokens; JSON keeps *)
(* all of this.  Which type a number has is left out.                      *)
(***************************************************************************)
EXTENDS DynMap, FiniteSetsExt

Text(tokens) == [list |-> FALSE, of |-> <<tokens>>]
List(texts)  == [list |-> TRUE, of |-> texts]

(* The leaf with a name without a dot, at the top of the map               *)
Top(word) == <<<<word>>>>

(* Get finds a value or a sub map, Exists says so.                         *)
Exists(m, k) == \E p \in DOMAIN m : p = k \/ Under(k, p)

PutIfAbsent(m, k, v) == IF Exists(m, k) THEN m ELSE PutWithDot(m, k, v)

(* The sub map at the name k, which is empty when there is none            *)
SubMap(m, k) ==
  LET ps == {p \in DOMAIN m : Under(k, p)}
  IN  [q \in {SubSeq(p, Len(k) + 1, Len(p)) : p \in ps} |-> m[k \o q]]

RemoveName(m, word) == [p \in {q \in DOMAIN m : q[1] # <<word>>} |-> m[p]]

(* Get with a dotted key: the literal name first, then the sub maps.       *)
Dotted(words) == [i \in DOMAIN words |-> <<words[i]>>]
MustText(m, words, def) ==
  IF <<words>> \in DOMAIN m THEN m[<<words>>] ELSE MustInt64(m, Dotted(words), def)

(* json.Unmarshal into a map that is not empty replaces whole entries.     *)
UnmarshalInto(m, body) ==
  LET kept == {p \in DOMAIN m : \A q \in DOMAIN body : p[1] # q[1]}
  IN  [p \in kept \cup DOMAIN body |-> IF p \in DOMAIN body THEN body[p] ELSE m[p]]
-----------------------------------------------------------------------------
(* Url encoded parameters                                                  *)

(* fmt.Sprint of a list                                                    *)
Rendered(texts) == <<"[">> \o FlattenSeq(texts) \o <<"]">>

(* url.Values: the texts of each name.  A sub map is a name in brackets    *)
(* and a list the name of each of its elements; after these the whole list *)
(* is added once more, as one text.                                        *)
MarshalURL(m) ==
  [p \in DOMAIN m |-> IF m[p].list THEN Append(m[p].of, Rendered(m[p].of)) ELSE m[p].of]

(* Brackets become dots, and PutWithDot makes sub maps of them.            *)
Unbracketed(p) == Dotted(FlattenSeq(p))

FromValues(texts) == IF Len(texts) = 1 THEN Text(texts[1]) ELSE List(texts)

(* One is the name of a value or a sub map in which the other would lie,   *)
(* or both have become the same.                                           *)
Clash(p, q) == IsPrefix(Unbracketed(p), Unbracketed(q)) \/ IsPrefix(Unbracketed(q), Unbracketed(p))

PutValue(values, m, p) == PutWithDot(m, Unbracketed(p), FromValues(values[p]))

(* The map after all names were put, one after the other                   *)
AllPut(values, names) ==
  LET put[i \in 0..Len(names)] ==
        IF i = 0 THEN EmptyMap ELSE PutValue(values, put[i - 1], names[i])
  IN  put[Len(names)]

(* The names are taken in the order of a Go map, which may be any: the     *)
(* maps that UnmarshalURLValues may give.  The order matters for names     *)
(* that clash only, so the others are put first.                           *)
UnmarshalURLValues(values) ==
  LET clashing == {p \in DOMAIN values : \E q \in DOMAIN values \ {p} : Clash(p, q)}
      Orders == {o \in [1..Cardinality(clashing) -> clashing] : IsInjective(o)}
  IN  {AllPut(values, SetToSeq(DOMAIN values \ clashing) \o o) : o \in Orders}

(* The query of the uri and the parameters, which are joined by '&'        *)
Joined(query, values) ==
  [p \in DOMAIN query \cup DOMAIN values |->
     (IF p \in DOMAIN query THEN query[p] ELSE <<>>)
       \o (IF p \in DOMAIN values THEN values[p] ELSE <<>>)]
-----------------------------------------------------------------------------
(* Requests: a Request object has an id, params and a shard; the uri and   *)
(* the method do not change.                                               *)

Partition == Top("_p")
ShardKey  == Top("_k")
Revision  == Top("_v")

NoPartition == <<"-1">>
NoKey       == <<>>
NoRevision  == <<"-1">>
NewShard    == [partition |-> NoPartition, key |-> NoKey, revision |-> <<"0">>]

(* Mutant: the revision is left out.                                       *)
WithoutRevision(params, shard) ==
  LET p == IF shard.partition # NoPartition
           THEN PutIfAbsent(params, Partition, Text(shard.partition)) ELSE params
  IN  IF shard.key # NoKey THEN PutIfAbsent(p, ShardKey, Text(shard.key)) ELSE p

(* What MarshalJSON leaves in the params of the object: the shard goes     *)
(* there, unless the params have these names already.                      *)
WithShard(params, shard) ==
  LET p == IF shard.partition # NoPartition
           THEN PutIfAbsent(params, Partition, Text(shard.partition)) ELSE params
      k == IF shard.key # NoKey THEN PutIfAbsent(p, ShardKey, Text(shard.key)) ELSE p
  IN  PutIfAbsent(k, Revision, Text(shard.revision))

(* NewRequestDynMap for a request without strest.shard, which no client of *)
(* this repository sends                                                   *)
ShardOf(params) ==
  LET Must(k, def) == MustInt64(params, k, Text(def)).of[1]
  IN  [partition |-> Must(Partition, NoPartition), key |-> Must(ShardKey, NoKey),
       revision |-> Must(Revision, NoRevision)]
-----------------------------------------------------------------------------
(* Responses: [code, status, own], with the keys that the controller put   *)

OK == [code |-> <<"200">>, status |-> "completed"]

IdKey     == Top("strest") \o <<<<"txn">>, <<"id">>>>
StatusKey == Top("strest") \o <<<<"txn">>, <<"status">>>>
CodeKey   == Top("status") \o <<<<"code">>>>

(* The names that Response.MarshalJSON writes first; a key of the          *)
(* controller with one of them comes later and replaces it.                *)
Envelope(id, r) ==
  [p \in {IdKey, StatusKey, CodeKey} |->
     CASE p = IdKey -> Text(<<id>>) [] p = StatusKey -> Text(<<r.status>>) [] p = CodeKey -> Text(r.code)]

MarshalResponse(id, r) == UnmarshalInto(Envelope(id, r), r.own)

(* Mutant: strest is left among the keys of the controller.                *)
KeepsStrest(m) ==
  [id |-> MustText(SubMap(m, Top("strest")), <<"txn", "id">>, Text(<<"">>)).of[1][1],
   status |-> MustText(SubMap(m, Top("strest")), <<"txn", "status">>, Text(<<OK.status>>)).of[1][1],
   code |-> MustText(SubMap(m, Top("status")), <<"code">>, Text(OK.code)).of[1],
   own |-> RemoveName(m, "status")]

NewResponseDynMap(m) ==
  [id |-> MustText(SubMap(m, Top("strest")), <<"txn", "id">>, Text(<<"">>)).of[1][1],
   status |-> MustText(SubMap(m, Top("strest")), <<"txn", "status">>, Text(<<OK.status>>)).of[1][1],
   code |-> MustText(SubMap(m, Top("status")), <<"code">>, Text(OK.code)).of[1],
   own |-> RemoveName(RemoveName(m, "strest"), "status")]
=============================================================================
