------------------------------- MODULE WebApi -------------------------------
(***************************************************************************)
(* Api calls over http and over a JSON connection: the two kinds of client *)
(* (HttpClient and JsonClient in client/client.go), what they make of a    *)
(* Request object, what ToStrestRequest (cheshire/httplistener.go) and     *)
(* DecodeRequest (cheshire/protocols.go) make of it on the other side, and *)
(* the way back of what the handler writes.                                *)
(*                                                                         *)
(* Each http call has a connection of its own; the JSON calls share one,   *)
(* whose event loop finds the call of a response by its txn id.  A JSON    *)
(* call may be synchronous, and is then over with the first response or at *)
(* its timeout, while its request stays in the map of the connection.  An  *)
(* object may be sent again when its call is over, with another shard, and *)
(* keeps its id.  The connection, its window and its loss are in           *)
(* ClientConn.                                                             *)
(***************************************************************************)
EXTENDS Packets

CONSTANTS
  Objects,      (* Request objects of the application                      *)
  Calls,        (* calls, named by the txn id they get if they need one    *)
  Uri,          (* the path of each object...                              *)
  Query,        (* ...and its query, as url.Values                         *)
  Verb,         (* its method                                              *)
  Params,       (* its params, as the application puts them                *)
  Shards,       (* the shards that it may be given                         *)
  KindAt,       (* what is registered for each path: "api" or "html"       *)
  Says,         (* the responses that a handler may write                  *)
  MaxSays       (* bound: how many it writes                               *)

(* The names that the application uses for an object                       *)
Asked(o) == DOMAIN Params[o] \cup DOMAIN Query[o]

Texts   == Seq(Seq(STRING))
Leaf(v) == v \in [list : BOOLEAN, of : Texts] /\ (v.list \/ Len(v.of) = 1)

(* A key is a path of names, a name has words, and those of the shard are  *)
(* left to the library.                                                    *)
ASSUME WebApiAssumption ==
  /\ {"", "none"} \cap Calls = {}
  /\ \A o \in Objects :
       /\ IsFiniteSet(Asked(o))
       /\ Asked(o) \subseteq Seq(Seq(STRING) \ {<<>>}) \ {<<>>}
       /\ \A p \in Asked(o) : p[1][1] \notin {"_p", "_k", "_v"}
       /\ \A p \in DOMAIN Params[o] : Leaf(Params[o][p])
       /\ \A p \in DOMAIN Query[o] : Query[o][p] \in Texts
  /\ Shards \subseteq [partition : Seq(STRING), key : Seq(STRING), revision : Seq(STRING)]
  /\ \A r \in Says : /\ DOMAIN r.own \subseteq Seq(Seq(STRING)) \ {<<>>}
                     /\ r.own = [p \in DOMAIN r.own |-> r.own[p]]
  /\ MaxSays \in Nat

VARIABLES
  packet,       (* the Request objects: [id, params, shard]                *)
  api,          (* where each call stands: [at, object, via]               *)
  onWire,       (* the request of each call, on its way to the server      *)
  received,     (* and as the server has it                                *)
  running,      (* the server's goroutine of each call: "none", "runs",    *)
                (* "returned"                                              *)
  said,         (* what its handler has written                            *)
  jsonDown,     (* responses under way on the JSON connection              *)
  routes,       (* its map of requests: txn ids to calls                   *)
  heard,        (* the responses that each call was given                  *)
  sync,         (* the JSON calls that are synchronous                     *)
  stuck,        (* the loop of the JSON connection is blocked for ever     *)
  reshard       (* history: objects whose shard was changed after they     *)
                (* were sent as JSON                                       *)

serverVars == <<received, running, said>>
loopVars   == <<jsonDown, routes, stuck>>
webVars == <<packet, api, onWire, serverVars, loopVars, heard, sync, reshard>>

Nowhere == [kind |-> "none"]

WebInit ==
  /\ packet = [o \in Objects |-> [id |-> "", params |-> Params[o], shard |-> NewShard]]
  /\ api = [c \in Calls |-> [at |-> "idle", object |-> "none", via |-> "none"]]
  /\ onWire = [c \in Calls |-> Nowhere]
  /\ received = [c \in Calls |-> Nowhere]
  /\ running = [c \in Calls |-> "none"]
  /\ said = [c \in Calls |-> <<>>]
  /\ jsonDown = <<>>
  /\ routes = [id \in {} |-> "none"]
  /\ heard = [c \in Calls |-> <<>>]
  /\ sync = {} /\ stuck = FALSE /\ reshard = {}

InUse(o) == \E c \in Calls : api[c].at = "waiting" /\ api[c].object = o
-----------------------------------------------------------------------------
(* The application and its clients                                         *)

Starts(c, o, via) ==
  /\ api[c].at = "idle"
  /\ ~InUse(o)
  /\ api' = [api EXCEPT ![c] = [at |-> "waiting", object |-> o, via |-> via]]

(* HttpClient.ApiCallSync: GET puts the params into the url, the other     *)
(* methods put them as JSON into the body.  Neither sends the txn id or    *)
(* the shard.                                                              *)
HttpRequest(o) ==
  IF Verb[o] = "GET"
  THEN [kind |-> "http", object |-> o,
        form |-> Joined(Query[o], MarshalURL(packet[o].params)), body |-> EmptyMap]
  ELSE [kind |-> "http", object |-> o, form |-> Query[o], body |-> packet[o].params]

HttpCall(c, o) ==
  /\ Starts(c, o, "http")
  /\ onWire' = [onWire EXCEPT ![c] = HttpRequest(o)]
  /\ UNCHANGED <<packet, serverVars, loopVars, heard, sync, reshard>>

(* The application may have given the object another shard, and makes the  *)
(* call with ApiCall or with ApiCallSync.                                  *)
JsonStarts(c, o, shard, synchronous) ==
  /\ Starts(c, o, "json")
  /\ packet' = [packet EXCEPT ![o] =
                  [id |-> IF @.id = "" THEN c ELSE @.id, shard |-> shard,
                   params |-> IF stuck THEN @.params ELSE WithShard(@.params, shard)]]
  /\ sync' = IF synchronous THEN sync \cup {c} ELSE sync
  /\ reshard' = IF packet[o].id # "" /\ shard # packet[o].shard THEN reshard \cup {o} ELSE reshard
  /\ UNCHANGED <<serverVars, jsonDown, stuck, heard>>

(* JsonClient.doApiCall puts the request into the queue of the connection; *)
(* its loop takes it out, routes the id to the call and writes it, and     *)
(* MarshalJSON changes the params of the object for good.  This is one     *)
(* step: the queue is in order and nobody else looks at it (ClientConn has *)
(* the two apart).  A loop that is blocked takes nothing out.              *)
JsonCall(c, o, shard, synchronous) ==
  /\ JsonStarts(c, o, shard, synchronous)
  /\ IF stuck THEN UNCHANGED <<onWire, routes>>
     ELSE /\ onWire' = [onWire EXCEPT ![c] = [kind |-> "json", object |-> o, id |-> packet'[o].id,
                                              params |-> packet'[o].params]]
          /\ routes' = [id \in DOMAIN routes \cup {packet'[o].id} |->
                          IF id = packet'[o].id THEN c ELSE routes[id]]

(* doApiCallSync waits no longer; HttpClient does not use its timeout.  The*)
(* route of the call stays.                                                *)
Timeout(c) ==
  /\ c \in sync /\ api[c].at = "waiting"
  /\ api' = [api EXCEPT ![c].at = "timedOut"]
  /\ UNCHANGED <<packet, onWire, serverVars, loopVars, heard, sync, reshard>>
-----------------------------------------------------------------------------
(* The server                                                              *)

Arrives(c, request) ==
  /\ received' = [received EXCEPT ![c] = request]
  /\ running' = [running EXCEPT ![c] = "runs"]
  /\ onWire' = [onWire EXCEPT ![c] = Nowhere]
  /\ UNCHANGED <<packet, api, said, loopVars, heard, sync, reshard>>

(* ToStrestRequest: the url's values, and over them the JSON of the body.  *)
HttpArrives(c) ==
  /\ onWire[c].kind = "http"
  /\ \E form \in UnmarshalURLValues(onWire[c].form) :
       Arrives(c, [kind |-> KindAt[Uri[onWire[c].object]], id |-> "",
                   params |-> UnmarshalInto(form, onWire[c].body), shard |-> NewShard])

(* DecodeRequest.  The query is part of the uri that the router sees, for  *)
(* which nothing is registered.                                            *)
JsonArrives(c) ==
  LET o == onWire[c].object
  IN  /\ onWire[c].kind = "json"
      /\ Arrives(c, [kind |-> IF Query[o] = EmptyMap THEN KindAt[Uri[o]] ELSE "none",
                     id |-> onWire[c].id, params |-> onWire[c].params,
                     shard |-> ShardOf(onWire[c].params)])

(* Txn.Write: on a JSON connection the response goes out, on http it is    *)
(* appended to the body (whose header goes out once).                      *)
Write(c, r) ==
  /\ said' = [said EXCEPT ![c] = Append(@, r)]
  /\ jsonDown' = IF api[c].via = "http" THEN jsonDown
                 ELSE Append(jsonDown, MarshalResponse(received[c].id, r))

Error(code) == [code |-> code, status |-> "completed", own |-> EmptyMap]

(* An api handler writes what it likes, then returns.                      *)
HandlerWrites(c) ==
  /\ running[c] = "runs"
  /\ received[c].kind = "api"
  /\ Len(said[c]) < MaxSays
  /\ \E r \in Says : Write(c, r)
  /\ UNCHANGED <<packet, api, onWire, received, running, routes, stuck, heard, sync, reshard>>

HandlerReturns(c) ==
  /\ running[c] = "runs"
  /\ received[c].kind = "api" \/ (received[c].kind = "html" /\ api[c].via = "http")
  /\ running' = [running EXCEPT ![c] = "returned"]
  /\ UNCHANGED <<packet, api, onWire, received, said, loopVars, heard, sync, reshard>>

(* No controller, or a page that is asked for on a JSON connection         *)
Refuse(c) ==
  /\ running[c] = "runs"
  /\ \/ received[c].kind = "none" /\ Write(c, Error(<<"404">>))
     \/ received[c].kind = "html" /\ api[c].via = "json" /\ Write(c, Error(<<"400">>))
  /\ running' = [running EXCEPT ![c] = "returned"]
  /\ UNCHANGED <<packet, api, onWire, received, routes, stuck, heard, sync, reshard>>
-----------------------------------------------------------------------------
(* The way back                                                            *)

Heard(c, m) ==
  LET r == NewResponseDynMap(m)
  IN  heard' = [heard EXCEPT ![c] = Append(@, [code |-> r.code, status |-> r.status, own |-> r.own])]

(* HttpClient reads the body to its end, and it must be one JSON object: a *)
(* page, an empty body or a second response is an error.                   *)
HttpReads(c) ==
  /\ api[c].at = "waiting" /\ api[c].via = "http"
  /\ running[c] = "returned"
  /\ IF Len(said[c]) = 1 /\ received[c].kind # "html"
     THEN /\ Heard(c, MarshalResponse(received[c].id, said[c][1]))
          /\ api' = [api EXCEPT ![c].at = "answered"]
     ELSE /\ api' = [api EXCEPT ![c].at = "failed"]
          /\ UNCHANGED heard
  /\ UNCHANGED <<packet, onWire, serverVars, loopVars, sync, reshard>>

(* Mutant: any response ends the txn.                                      *)
EndsWithAny(r) == TRUE

EndsTxn(r) == r.status = "completed"

(* What a call is given: an asynchronous one every response, a synchronous *)
(* one the first, with which it is over whatever its status.               *)
Given(c, r) ==
  /\ Heard(c, Head(jsonDown))
  /\ api' = IF c \in sync \/ EndsTxn(r) THEN [api EXCEPT ![c].at = "answered"] ELSE api
  /\ routes' = IF EndsTxn(r) THEN [id \in DOMAIN routes \ {r.id} |-> routes[id]] ELSE routes
  /\ UNCHANGED stuck

(* The event loop: what has no route is dropped.  Nobody receives from the *)
(* channel of a synchronous call that is over, and the loop that sends to  *)
(* it stays there.                                                         *)
JsonReads ==
  LET r == NewResponseDynMap(Head(jsonDown))
      c == routes[r.id]
  IN  /\ ~stuck /\ jsonDown # <<>>
      /\ jsonDown' = Tail(jsonDown)
      /\ \/ r.id \notin DOMAIN routes /\ UNCHANGED <<heard, api, routes, stuck>>
         \/ r.id \in DOMAIN routes /\ api[c].at = "waiting" /\ Given(c, r)
         \/ r.id \in DOMAIN routes /\ api[c].at # "waiting"
            /\ stuck' = TRUE /\ UNCHANGED <<heard, api, routes>>
      /\ UNCHANGED <<packet, onWire, serverVars, sync, reshard>>

WebServerStep(c) ==
  HttpArrives(c) \/ JsonArrives(c) \/ HandlerWrites(c) \/ HandlerReturns(c) \/ Refuse(c)

WebNext ==
  \/ \E c \in Calls, o \in Objects :
       HttpCall(c, o) \/ \E shard \in Shards, s \in BOOLEAN : JsonCall(c, o, shard, s)
  \/ \E c \in Calls : WebServerStep(c) \/ HttpReads(c) \/ Timeout(c)
  \/ JsonReads

WebSpec == WebInit /\ [][WebNext]_webVars
-----------------------------------------------------------------------------
WebTypeOK ==
  /\ \A o \in Objects : /\ packet[o].id \in Calls \cup {""}
                        /\ packet[o].shard \in Shards \cup {NewShard}
  /\ \A c \in Calls :
       /\ api[c].at \in {"idle", "waiting", "answered", "failed", "timedOut"}
       /\ running[c] \in {"none", "runs", "returned"}
       /\ said[c] \in Seq(Says \cup {Error(<<"404">>), Error(<<"400">>)})
       /\ api[c].at = "idle" => onWire[c] = Nowhere /\ running[c] = "none" /\ heard[c] = <<>>
       /\ c \in sync => api[c].via = "json"
  /\ \A id \in DOMAIN routes : routes[id] \notin sync => api[routes[id]].at = "waiting"

(* Names of which url encoding makes the same, or of one a value and of    *)
(* the other a sub map, are left out.                                      *)
Alone(p, names) == \A q \in names \ {p} : ~Clash(p, q)

(* The value at p of the params is what was put there; of a list in a url  *)
(* it is the list with more behind it, which is no list if that is all.    *)
ParamsArrive(o, inUrl, got) ==
  \A p \in DOMAIN Params[o] :
    LET q == IF inUrl THEN Unbracketed(p) ELSE p
        v == Params[o][p]
    IN  (inUrl => Alone(p, Asked(o)) /\ p \notin DOMAIN Query[o]) =>
          /\ q \in DOMAIN got
          /\ IF inUrl /\ v.list
             THEN IsPrefix(v.of, got[q].of) /\ (v.of # <<>> => got[q].list)
             ELSE got[q] = v

(* An entry of the body replaces the entry of the query with its name.     *)
Replaced(o, p) ==
  Verb[o] # "GET" /\ \E q \in DOMAIN Params[o] : q[1] = Unbracketed(p)[1]

QueryArrives(o, got) ==
  \A p \in DOMAIN Query[o] :
    Alone(p, Asked(o)) /\ p \notin DOMAIN Params[o] /\ ~Replaced(o, p) =>
      /\ Unbracketed(p) \in DOMAIN got
      /\ got[Unbracketed(p)].of = Query[o][p]

NothingElse(o, got) ==
  \A q \in DOMAIN got :
    \E p \in Asked(o) \cup {Partition, ShardKey, Revision} : q \in {p, Unbracketed(p)}

(* A handler gets the params that the application put into the Request     *)
(* object, and over http the query, and no others but those that stand for *)
(* a shard: whichever way the call takes, in whatever order maps are gone  *)
(* through, and whatever earlier calls have left in the object.  It gets   *)
(* the shard too when the call is made as JSON, unless the object was sent *)
(* before with another one.                                                *)
RequestArrives ==
  [][\A c \in Calls : running[c] = "none" /\ running'[c] = "runs" =>
       LET o    == api[c].object
           got  == received'[c].params
           json == api[c].via = "json"
       IN  /\ ParamsArrive(o, ~json /\ Verb[o] = "GET", got)
           /\ ~json => QueryArrives(o, got)
           /\ NothingElse(o, got)
           /\ json /\ o \notin reshard => received'[c].shard = packet[o].shard]_webVars

Completes(r) == r.status = "completed"

(* The controller's own keys hide a part of the envelope.                  *)
Hides(word, r) == \E p \in DOMAIN r.own : p[1] = <<word>>

(* The handler of d goes on after the answer that ends the txn.            *)
Chatty(d) == \E i \in DOMAIN said[d] : i < Len(said[d]) /\ Completes(said[d][i])

(* The synchronous call d was over before a response completed its txn: at *)
(* its timeout, or with a first response that does not.                    *)
Left(d) ==
  d \in sync /\ (api[d].at = "timedOut" \/ \E i \in DOMAIN heard[d] : ~Completes(heard[d][i]))

NoneHides == \A d \in Calls : \A i \in DOMAIN said[d] : ~Hides("strest", said[d][i])

(* No handler has hidden the txn, none of another call with the object of  *)
(* c, which has the same txn id, went on too long, and none of these calls *)
(* was left.                                                               *)
Undisturbed(c) ==
  /\ NoneHides
  /\ \A d \in Calls \ {c} : api[d].object = api[c].object => ~Chatty(d) /\ ~Left(d)

(* x is what a call is given of the response r that a handler wrote: its   *)
(* status, its own keys and the status code, or the code that the own keys *)
(* stand for if they hide it.                                              *)
IsGiven(x, r) ==
  /\ x.status = r.status
  /\ IF Hides("status", r) THEN x.code = NewResponseDynMap(r.own).code
     ELSE x.code = r.code /\ x.own = r.own

(* A call is given what its own handler wrote, in that order; over http it *)
(* is given the only response, or an error and nothing.  Answers of calls  *)
(* made at the same time, or before with the same object, do not reach it: *)
(* unless an earlier call was left or its handler went on, and then they   *)
(* still are answers to the same object.                                   *)
AnswerArrives ==
  \A c \in Calls :
    /\ Undisturbed(c) =>
         \A i \in DOMAIN heard[c] : i \in DOMAIN said[c] /\ IsGiven(heard[c][i], said[c][i])
    /\ NoneHides =>
         \A i \in DOMAIN heard[c] :
           \E d \in Calls : /\ api[d].object = api[c].object
                            /\ \E k \in DOMAIN said[d] : IsGiven(heard[c][i], said[d][k])
    /\ api[c].via = "http" => Len(heard[c]) = IF api[c].at = "answered" THEN Len(said[c]) ELSE 0

(* An asynchronous call is over when it was given the response that        *)
(* completes it and not before, however many responses come first.         *)
LastOfItsOwn(c) ==
  \A i \in DOMAIN heard[c] :
    (api[c].at = "answered" /\ i = Len(heard[c])) <=> Completes(heard[c][i])

CompletesTxn(c) == \E i \in DOMAIN said[c] : Completes(said[c][i]) /\ ~Hides("strest", said[c][i])

(* How a JSON call ends: an asynchronous one with the response that        *)
(* completes it, a synchronous one with the first, and otherwise with      *)
(* none.  Neither waits on when nothing is under way and its handler has   *)
(* completed the txn, or, of a synchronous one, answered: calls at the     *)
(* same time and stale responses do not change this.  It takes a call that *)
(* was left to stop the loop.                                              *)
CallEnds ==
  /\ \A c \in Calls : api[c].via = "json" =>
       IF c \in sync
       THEN /\ Len(heard[c]) = IF api[c].at = "answered" THEN 1 ELSE 0
            /\ Undisturbed(c) /\ said[c] # <<>> /\ jsonDown = <<>> => api[c].at # "waiting"
       ELSE Undisturbed(c) =>
              /\ LastOfItsOwn(c)
              /\ CompletesTxn(c) /\ jsonDown = <<>> => api[c].at = "answered"
  /\ stuck => \E d \in Calls : Left(d)
=============================================================================
