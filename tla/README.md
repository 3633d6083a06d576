# Goshire, modelled in TLA+

Goshire is a Go framework for STREST, a request/response protocol in which one
connection carries many transactions at the same time and one request may have
many responses. The repository holds a server (`cheshire`), a client with a
connection pool (`client`), and a handful of libraries both use (`stats`, `log`,
`dynmap`, `timeamount`, `closer`).

This directory has the TLA+ modules of the system, the TLC configurations that
check them on small instances, and proofs, checked by TLAPS, of the invariants
that matter most. Paths below are relative to `src/`.

Contents: [inventory](#1-inventory), [modules](#2-modules-and-the-code),
[runs](#3-what-each-run-checks-and-shows), [fairness](#4-fairness),
[proofs](#5-proofs), [findings](#6-where-the-code-and-its-comments-disagree),
[limits](#7-what-is-only-model-checked-and-what-is-not-modelled),
[plan](#8-plan).


## 1. Inventory

| Component | State it keeps | Operations | Hard behaviour |
|---|---|---|---|
| Client connection, `client/connection.go` | the flag `connected`, the map `requests` (txn id to request), `inflightChan`, `outgoingChan`, `incomingChan`, `exitChan`, the socket | `sendRequest`, `Close`, `listener`, `eventLoop`, `cleanup` | two goroutines of its own and any number of callers over four channels; the server may go away, answer late, twice or never; timeouts |
| Connection pool, `client/pool.go` | the channel `clients`, the flag `shutdown` | `NewPool`, `Borrow`, `Return`, `ReturnBroken`, `Cleanup`, `Close` | a flag read without a lock before a send; replacing a broken connection in three steps |
| Pooled client, `client/client.go` | `shutdown`, `pool`, the ping loop | `Connect`, `Close`, `ApiCall`, `ApiCallSync` | `this.pool` read twice around a send; Connect that fails half way; a call that times out |
| Server connections, `cheshire/{json,binary,websocket}listener.go`, `controllers.go` | the socket, `writerLock`, the goroutines of the requests | decode, `HandleRequest`, `Txn.Write`, `Writer.Write` | one goroutine per request, all writing to one stream; a client that does not read; a codec that refuses a response half way |
| Binary protocol, `cheshire/protocol_bin.go` | none (pure, over a stream) | `WriteHello/Request/Response`, `DecodeHello/Request/Response` | no markers between messages; lengths of 16 and 32 bits; short reads; writes cut by a deadline, and more written behind them |
| Packets, `cheshire/strestpackets.go`, `protocols.go` | the fields of a `Request` or `Response` object, which may be sent again | `MarshalJSON`, `NewRequestDynMap`, `NewResponseDynMap` | encoding changes the object; keys of a controller that are also keys of the envelope |
| Http listener, `cheshire/httplistener.go` | the "header written" flag of a request | `ServeHTTP`, `ToStrestRequest`, `HttpWriter.Write` | several responses to one request, or none; parameters from the url and from the body |
| Http client, `client/client.go` | none | `ApiCall`, `ApiCallSync` | params in the url or in the body; a body that is not one JSON object |
| Router, `cheshire/router.go` | maps from method to pattern to controller | `Register`, `Match` | iteration over an unordered map |
| Bootstrap, configuration, `cheshire/bootstrap.go`, `config.go` | the queue of controllers, the configuration | `RegisterApi`, `RegisterHtml`, `Register`, `Start` with its Init methods | two ways to register, at any time, beside what `Start` registers itself |
| Sessions, `cheshire/filters.go`, `html.go` | the sessions in the cache, the cookies in the browser, `txn.Session` | `Before`, `BeforeHtmlWrite`, `Flash`, `Render`, `Redirect` | load at the start, save at the end, nothing held between; requests of one browser overlap; a cookie for each directory; entries and cookies expire; handlers that write more than once |
| Stats, `stats/stats.go` | per timeamount the epoch and a nested map, two channels | `Set`, `Inc`, `Get`, `Start`, the loop | the clock passes an epoch while an item is being counted, or is set back; channels that drop |
| Time amounts, `timeamount/timeamount.go` | none | `ToTrendrrEpoch`, `FromTrendrrEpoch`, parsing | two truncating divisions, one of them of a float64 |
| Dynamic maps, `dynmap/*.go` | a nested map | `Put`, `PutWithDot`, `PutIfAbsent`, `Get`, `Remove`, typed getters, codecs | dotted keys that are names or paths, and a key that lies in another; the order of a Go map |
| Logger, `log/logger.go` | `inchan`, `outchans`, a mutex | `Emit`, `Listen`, `Unlisten`, the forwarder | events sent to a list that changes; listeners that do not read |
| Cache, `cheshire/impl/gocache/cache.go` | what go-cache holds, the lock of `Inc` | `Set`, `SetIfAbsent`, `Delete`, `Inc` | `Inc` is two calls, and the others do not take its lock |
| Closer, `closer/closer.go` | a list of closers | `Register`, the signal goroutine | a list changed without a lock while it is read |
| Examples | none | | none |

How they interact. The pooled client lends a connection to one goroutine for
the length of `sendRequest` and takes it back; the answer arrives later, on the
channel of the request. The connection's event loop owns the map and the socket's
writing side, its listener the reading side; they meet in `incomingChan`, the
callers meet the loop in `inflightChan` and `outgoingChan`, and everyone who wants
the loop to end meets it in `exitChan`. At the other end a goroutine decodes,
asks the router for a controller and starts a goroutine per request, which goes
through the filters (the session filter among them) and writes through the locked
writer of the connection. Stats and logger are services that the server's
goroutines call.

What makes each correct:

* connection: the window of requests in flight is respected and never leaks, a
  txn gets its own responses in order and one final outcome, a connection that
  ends tells everyone it took a request from;
* pool: a connection is used by one goroutine at a time, none that runs is lost, the
  number stays what it was, giving back never blocks;
* server: responses are whole on the stream, answer requests that came, and a
  client that stops reading holds no writer for ever once its connection is closed;
* protocol and router: what is handled is what was written, by the right
  controller, and what is read is what was answered, wherever the stream is cut;
* api calls: a handler gets what was put into the object and a caller what its
  handler wrote, whichever way the call takes, and a call ends with its answer or its
  timeout;
* bootstrap: every controller that was registered is served, by the longest
  pattern, and nothing fails that was registered once;
* sessions: private to a browser, each page starts from what the last left, and
  what is in the cache can be found by its browser;
* cache and closer: no increment is lost, and whatever was registered before the
  signal is closed;
* stats: every epoch holds what was counted in it and is persisted once;
* logger: order is kept, nobody waits for a slow listener, and a channel that has
  left is never sent to.

The hazards behind these properties are listed, line by line, in `PROJECT.json`.


## 2. Modules and the code

```
ClientConn ──implements──> TxnContract         ClientPool ──implements──> LeaseContract
ServerConn ──implements──> ServerContract          (a connection reduced to up / exiting / down)

Frontend = BinCodec + Router                   Stats = DynMap + TimeAmount
WebApi = Packets + DynMap                      Bootstrap = Router
Session                                        Logger, GoCache, Closer

MCWeb       = Session, WebApi                  (one of them in each behavior)
MCLibraries = Logger, GoCache, Closer, Bootstrap

ClientConnProofs   ClientConn                  ClientPoolProofs   ClientPool
ServerProofs       ServerConn, WebApi          SessionProofs      Session
FrontendProofs     Frontend, Bootstrap         StatsProofs        Stats
LibraryProofs      Logger, GoCache, Closer
QueueLemmas        what these proofs share; Slices, a loop that modules and proofs share
```

Every other `MCx` module gives the constants of `x` their values for TLC. MCWeb and
MCLibraries hold parts that share no state: a behavior takes one of them, and the
variables of the others keep their initial values, so that one run checks all. Definitions
whose comment starts with "Mutant:" are not part of a model: each is a plausible
bug in the code, and shows that a property would notice it.

**ClientConn** (`client/connection.go`). A buffered channel is a sequence, or a
count where its values carry nothing (`inflightChan`); a send on a full one is an
action that is not enabled. `exitChan` has no buffer, so a sender stands at
`sendExit` until the loop's `TakeExit` meets it. Each goroutine has a program
counter, with a step wherever another goroutine can come between: `sendRequest`
is `Acquire`/`WaitForRoom`/`InflightTimeout`, `CheckConnected`, `Enqueue`; the
loop's response case is `TakeResponse`, `Deliver` (it may block), `Retire`,
`Release`; its request case `TakeRequest` and `WriteRequest` or `WriteError`; its
exit `TakeExit`, `SetDisconnected`, and `cleanup` in five actions. `Submit` lends
the connection to one caller at a time, as the pool does. The server and the
socket are external: it may answer a request any number of times with either
txn status, in any order, or close. A write that fails may leave the stream
`torn`: no later response is assumed to be decodable by anyone, but the loop goes
on, because it only logs the error.

**TxnContract**: what the user of a transaction relies on (refused or opened;
responses until one completes it; failure only when the connection is down;
nothing afterwards). `ClientConn!ContractSpec` is the refinement.

**ClientPool** (`client/pool.go`, `client/client.go`). One owner calls `Connect`
and `Close` in turn, any number of callers run `doApiCall`: `BorrowCheck` reads
`shutdown`, `BorrowReceive` or `BorrowTimeout` follows; `Send...` is
`sendRequest` as seen from outside; `Return`/`Push` and
`ReturnBroken`/`CreateFresh`/`CreateFails`/`PushFresh`/`CleanCheck`/`CleanExit`
are the two ways back. `this.pool` is read again at each of these, as in the code.
`late` records what came into a channel after `Close` had emptied it.
The connection is ClientConn reduced to three states. **LeaseContract** is the
contract: created, free, lent to one user, back, retired for good.

**ServerConn** (`jsonlistener.go`, `binarylistener.go`, `websocketlistener.go`,
`controllers.go`). A response goes out in `Parts` pieces through a connection that
holds `Window` of them; `Malformed` requests are those whose responses the codec
refuses half way. Handlers and filters are the application's, and write as often
as they like, after the connection is closed too: the Firehose of the repository's
README looks at no error and loops for ever. `Unlock` covers the three ways
`Writer.Write` ends. **ServerContract**
is the contract towards the client, and the only thing that ClientConn takes
for granted about its peer (it takes less: its peer may repeat itself).

**BinCodec, Router, Frontend** (`protocol_bin.go`, `router.go`, the loops that
call them). A stream is a sequence of cells, one for each integer and one for
each byte of a string. Both sides go through the same list of fields
(`RequestFormat`, `ResponseFormat`), which is how the code's write and decode
functions are laid out; lengths wrap at their width, a value that is in no table
ends the message where it stands, and a reader takes a field only when all of it
has arrived. Frontend connects a client and a server by two such streams, with
writes that time out at any cell and a client that leaves at any cell. After a write
that failed the event loop goes on with the next request on the same stream
(`connection.go:219`): `WriteBehind`. Its bytes are no cells for the server any more.
What the server then reads (`ServerMisreads`) may complete the request that was cut, be
a request that nobody wrote, or end the connection or the process; `Misreadings` says
which requests the run takes it for. `Best` is the
loop of the router over the entries of its map, `Better` one turn of it, and `Match`
the set of results over all orders of the map.

**WebApi, Packets** (`client/client.go`, `httplistener.go`, `protocols.go`,
`strestpackets.go`, `dynmap.go`). A `Request` object of the application is sent by
`HttpCall` or `JsonCall`, and may be sent again with another shard when its call is
over. A JSON call is asynchronous (`ApiCall`) or synchronous (`ApiCallSync`): the one is
given every response, the other is over with the first, whatever its status, or at its
`Timeout`, while its request stays in the map of the connection (`Given`, `Left`). A
response for a synchronous call that is over blocks the loop for ever (`stuck`). Packets
says what each side makes of it: `WithShard` is what `MarshalJSON` does to the params of
the object itself, `MarshalURL` and `UnmarshalURLValues` what a url makes of nested maps
and lists (a set of results, over the orders of the Go map), `UnmarshalInto` the JSON
body over the values of the query, `MarshalResponse` and `NewResponseDynMap` the
envelope of a response and what hides it. A map is a function from the keys of its
leaves; a name with a dot in it, which `Put` keeps, is a word sequence of its own, and
so is told from the same words as a path. `HttpArrives` and `JsonArrives` start a
handler, which writes what it likes, as often as it likes (`HandlerWrites`), before it
returns; `Refuse` is a missing controller, or a page asked for over JSON. On http the
answer is the whole body (`HttpReads`); on JSON the loop of the connection looks the txn
id up (`JsonReads`), without the window and the loss of connections, which are in
ClientConn.

**Bootstrap** (`bootstrap.go`, `config.go`, `Router.Register`). `Register` appends to
the queue, `ConfRegister` writes to the router past it, both at any time; `Start`
takes the queue as it is, then `InitController` for each, `InitPing`, and
`InitConfigured` for static files and web sockets. A panic of the router (`Refused`)
ends the process.

**GoCache** (`gocache/cache.go`). `Inc` is `CallInc`, `Increment`, and `SetNumber` or
`GetNumber`, with every other call of the cache, or the expiry of the key, in between.
**Closer** (`closer/closer.go`). `this.items = append(this.items, c)` is a read and a
write, `ReadItems` and `StoreItems`; the signal goroutine ranges over the list as it
was when it started.

**Session** (`filters.go`, `html.go`, `gocache/cache.go`). The cookie is set without a
path, so a browser keeps one for each directory of the site and sends the one of the
longest directory around the page (`Longest`, `Answered`; RFC 6265, 5.1.4 and 5.4). A
request loads (`NewSession`, `LoadSession`), the handler changes its copy (`Handle`), a
page is rendered or redirected to, and `BeforeHtmlWrite` saves, deletes or skips.
`WriteWithoutSaving` is a handler that writes with `SendError` or `Txn.Write`, after
which it may go on and render a page; `SetCookie` reaches the browser only when no
header went out before. `strayed` records the sessions whose cookie the browser has lost
or never got. A session's content is its data, its flash messages, and the flag
`_persisted`.

**Stats, TimeAmount, DynMap** (`stats.go`, `timeamount.go`, `dynmap.go`). The loop
counts an item for one timeamount at a time (`AddOne`) and reads the clock each
time; `Tick`, or `SetBack` to an earlier time, may come in between. In a flood items
come for ever. `Truncated` is the whole timeframes of a time through a float64, which
takes a time up to `Slack` before a boundary for the boundary. A nested map is given by
its leaves.

**Logger** (`log/logger.go`). `Receive`, `Lock`, `Offer` (once for each entry of
the list), `Unlock` are the forwarder; `Leave`/`CallUnlisten`/`Unlisten` split
`Unlisten` at the mutex.


## 3. What each run checks and shows

Symmetry is used only in `pool_safety`. Deadlock is not checked in any run:
in every model the clients may simply stop asking, which is what the programs
around this library do; what must not stop is stated as liveness.

| Run | Instance | Shows |
|---|---|---|
| `conn_safety` | 3 requests, one synchronous, one that cannot be encoded; 2 places in flight, channels of 1, a closer, 2 responses per request | the window (`WindowRespected`, `TokenInv`, `NoTokenLeak`), routing (`GotOwnInOrder`), shutdown (`CleanupMissesNone`), and `TxnContract`: one final outcome, and a failure only when the connection is down |
| `conn_liveness` | 2 requests whose callers go on receiving | the loss of the server ends the connection, each response is delivered or its txn has ended |
| `conn_stranded`, `conn_sync_hangs` | 1 and 2 requests | the two disagreements of section 6 |
| `pool_safety` | 2 callers, pools of 2, two pools one after the other, 4 connections that may die, stall, or not be replaced | `OnePlace`, `SizeKept`, `LeaseContract`, and that a connection whose loop runs can be reached unless a `Return` put it into a channel that `Close` had emptied (`NoneDropped`) |
| `pool_liveness` | 3 callers, 2 connections, a server that neither dies nor stalls | calls return, `Close` ends |
| `pool_nil` | 1 caller | the third disagreement |
| `server` | 3 requests: routed, refused half way by the codec, not routed; 2 pieces per response; a window of 1 | `FramesWhole`, `ServerContract`; closing the connection frees everyone in `Writer.Write` (`WritesEnd`); while the client reads, not-found is answered, whoever else waits for the lock |
| `web`, calls | 2 calls, over http or JSON, synchronous or not, with three objects: GET with a list, a sub map and a name with a dot that clash in a url, POST with a query of which the body replaces one entry, GET of a page with a query and an empty list; 2 shards, 3 responses (continue with a key that hides the status, completed with one that hides the txn, completed), 2 writes per handler | `RequestArrives`, `AnswerArrives`, `CallEnds` |
| `web`, sessions | 2 requests of one browser, for `/a` and `/a/b`, that may overlap, 1 of another, 2 writes per handler | privacy, continuity, flash messages shown once, and which sessions stay in the cache that their browser cannot find (`SessionsReachable`) |
| `stats` | 3 items of {inc a, inc a.b, inc c, set c}, amounts 1s and 2ms with a ms of 1 tick and a second of 2, of which the last is rounded up; a clock of 3 values that may be set back once, one `Get` at a time, channels of 2 and 1; and floods, in which items come for ever | `EpochsRight`, `PersistedOnceInOrder`, `SnapshotsWhole`, `CountedInItsTime`, and that `Get` does not starve in a flood of items, nor items beside Gets without end |
| `frontend` | 2 of 3 requests (two encodings, an unknown method), 4 routes, writes cut at any cell and more written behind | `DispatchedAsWritten`, `ReadAsAnswered`, `WrittenIsAnswered` |
| `libraries`, logger | emitters of 2 and 1 events, an inchan of 1, 2 listeners with channels of 1, a list of 2 | `DeliveredInOrder`, `NothingAfterUnlisten`, `NobodyWaitsForListeners` |
| `libraries`, cache | 3 callers of one key, increments of 1 and 2 | `IncsAddUp` |
| `libraries`, closer | 3 calls of `Register`, a signal at any time | `RegisteredAreClosed` |
| `libraries`, bootstrap | 4 controllers of the application (root, page, a POST ping, a subtree with the route of the static files), each queued, registered directly or both; static files, web sockets | `RoutesAsRegistered` |

Why the bounds are enough to be interesting:

* Connection. Three requests for two places make one wait for room, and channels
  of one make every sender block at some point; two responses per request give a
  "continue" and a "completed", a duplicate, and an answer after the end. The
  capacity in the code is 25; the model uses it only as "full or not".
* Pool. Two callers on a pool of two can hold everything, so both a full and an
  empty channel occur; two pools are the least with which a connection can come
  back to another pool than it was borrowed from; four connections are what two
  pools of two dial, and what is left of them when the first pool replaces its
  broken ones. `Retries = 1` gives two tries of `Borrow`. `SizeKept`
  is stated for the first pool only: see section 6.
* Server. Two pieces are the least that can be interleaved. A window of 1 lets a
  writer block with the lock between them. `MaxResp` bounds the responses on the open
  connection only; on the closed one handlers may write for ever.
* Api calls. Two calls are a pair at the same time, over the same connection, or one
  after the other with the same object; two writes give a response after the one that
  ends the txn, and one for a call that has timed out. The values were chosen for the
  cases in which names meet: the properties say by name (`Clash`, `Hides`, `reshard`,
  `Chatty`) what the code loses in them, and that it loses nothing else (`Replaced`: an
  entry of the body that takes the place of one of the query).
* Sessions. Ids are numbered in the order of `SessionId`, so one for each request
  is all that can be used. Of the two directories one lies in the other, which is
  what it takes for a browser to have two sessions, or to lose one, with one request
  at a time.
* Stats. The clock passes an epoch boundary of each amount, one of them rounded;
  `a` and `a.b` clash in `DynMap`, `c` is set and incremented. When the clock is set
  back one item fewer is counted, which keeps the run small. A flood has no bound on
  its items; no record is kept of them, so that its states are finitely many.
* Frontend. Lengths are wrapped at 16 and not at 2^16; `FrontendAssumption` keeps
  arrays below 8, as callers must keep theirs below 2^15. The requests that the server
  may take the bytes behind a cut for agree with the cut one in its first five or ten
  fields.
* Bootstrap. The routes overlap in each way there is: equal with other methods, equal
  with the same method, one within another, and the default ping with the application's.
* Logger. A list of two holds two listeners, or one of them twice; three events
  are what it takes for an emitter to find `inchan` full while the forwarder is busy.

The bounds are named constants: `MaxResp`, `MaxPools`, `Conns`, `MaxRequests`,
`MaxItems`, `MaxNow`, `MaxEvents`, `MaxOut`, `MaxVal`, `MaxWrites`, `MaxSays`,
`ServerConn!MaxResp`; the other
constants are capacities of the code.


## 4. Fairness

Fairness is assumed for goroutines of the program that can run, and of nothing
else: nobody has to submit, answer, read or close.

* A goroutine with work gets weak fairness (`LoopStep`, `ListenerStep`,
  `CallerStep`, `OwnerStep`, `ReaderStep`): the Go scheduler is preemptive, and
  `time.After` fires.
* Strong fairness stands where a step may be disabled again and again by others
  and the runtime still serves it: cases of one `select` (chosen at random:
  `TakeGet`, `TakeItem`), a `sync.Mutex` (it is handed over when a waiter starves,
  since Go 1.9: `Lock`, `CallUnlisten`), senders of a channel (served first come,
  first served: `Emit`).
* `ServerConn` assumes fairness of the server's own code only: the decoding goroutine,
  `Writer.Write`, and the not-found controller. Filters and handlers are the
  application's and need not return: `WritesEnd` says that they get back from
  `Write`, and nothing of what they do then. `NotFoundAnswered` has the client's
  reading as its premise, not as fairness.
* WebApi, Session, GoCache, Closer and Bootstrap are checked for safety only. `CallEnds`
  is stated without fairness: a call that waits has something of its own under way, or
  its handler has not completed the txn.
* `conn_liveness` has no synchronous callers: with them `EveryResponseDelivered` is
  false (section 6). How synchronous calls end is in `CallEnds`. `pool_liveness` has a
  server that neither dies nor stalls: with others a caller may hang in `Close` (section
  6).


## 5. Proofs

Eight modules hold theorems; `tlapm X.tla` checks each from nothing. They hold for
every value of the constants that the named assumptions allow: any number of
requests, callers, connections, sessions, items, controllers, any capacity of a
channel.

| Theorem | States |
|---|---|
| `ClientConnProofs!TypeCorrect`, `TokenCorrect`, `WindowCorrect` | `TypeOK`; `TokenInv`; `WindowRespected` and `ReleaseNeverBlocks` |
| `ClientConnProofs!ImplementsContract` | `Spec => ContractSpec`: the connection implements `TxnContract` |
| `ClientConnProofs!NoLeakCorrect`, `CleanupCorrect`, `OrderCorrect` | `NoTokenLeak`; `CleanupMissesNone`; `GotOwnInOrder`, when ids are unique |
| `ClientPoolProofs!TypeCorrect`, `OnePlaceCorrect`, `NoneDroppedCorrect`, `SizeKeptCorrect` | `TypeOK`; `OnePlace`; `NoneDropped`; `SizeKept` |
| `ClientPoolProofs!ImplementsLease` | `Spec => LeaseSpec`: the pool implements `LeaseContract` |
| `ServerProofs!TypeCorrect`, `LockCorrect`, `FramesCorrect`, `UnfinishedCorrect` | `TypeOK`; `LockExclusive`; `FramesWhole`; `UnfinishedIsLocked` |
| `ServerProofs!ImplementsServerContract` | `Spec => ContractSpec`: the server implements `ServerContract` |
| `ServerProofs!AnswerCorrect`, `EndsCorrect` | `WebSpec => []AnswerArrives`; `WebSpec => []CallEnds` |
| `ServerProofs!RequestCorrect` | the action property `RequestArrives` of the calls |
| `SessionProofs!TypeCorrect`, `PrivateCorrect`, `LatestCorrect`, `FlashCorrect`, `ReachableCorrect` | `TypeOK`; `SessionsPrivate`; `LoadsLatest`; `FlashShownOnce`; `SessionsReachable` |
| `StatsProofs!TypeCorrect`, `TimesCorrect`, `PersistedCorrect`, `EpochsCorrect`, `SnapshotsCorrect` | `TypeOK`; `CountedInItsTime`; `PersistedOnceInOrder`; `EpochsRight`; `SnapshotsWhole` |
| `LibraryProofs!CacheCorrect` | `CacheSpec => []IncsAddUp` |
| `LibraryProofs!UnlistenCorrect`, `DeliveryCorrect` | the action properties `NothingAfterUnlisten` and `DeliveredInOrder` of the logger |
| `LibraryProofs!ShutdownCorrect` | `CloserSpec => []RegisteredAreClosed` |
| `FrontendProofs!RoutesCorrect` | `BootSpec => []RoutesAsRegistered` |
| `FrontendProofs!DispatchCorrect`, `ReadCorrect` | `DispatchedAsWritten`; `ReadAsAnswered`, when every request has a shard |

All but the type invariants and `UnfinishedIsLocked` are properties that a run
checks as well; those few were checked with TLC while the proofs were written.

None of the properties is inductive as it stands. In each module the invariant
that is proved to be is named at the top, and TLC was asked about it before it was
proved. Where most steps do not touch what a proof is about, that is said once
(`Quiet`, `Calm`, `Alike`), and the proof goes on with the steps that do.

**The window.** `WindowRespected` bounds the map and `outgoingChan`, but the
tokens are put before a request is in either and taken after it has left the map.
`TokenInv` counts everyone who has a token: callers that have acquired and not yet
enqueued, requests in the queue, registered ids, and the loop between `Retire` and
`Release`. Each action moves a request from one of these to the next, adds a token
in front or takes one behind (`TokenMove`). It is inductive together with `TypeOK`,
of which one part matters: what the loop is about to retire is registered, so
`delete` removes one id from the map. The ids need not differ: a request that
reuses an id overwrites the first in the map, which leaves the sum smaller, so the
window holds even then; what no longer holds is that no token is lost.

**The life of a request.** `LifeInv` says where a request is: once in the queue or
registered under its own id, never both, and open as long as it is queued
(`QueueInv`, `MapInv`); and that the flag `connected` is what the loop has made it
(`LinkInv`). It does not need unique ids, and neither does the refinement of
`TxnContract`: every step that moves a request maps to the step of the contract of
that meaning, all others to stuttering. With unique ids (`UniqueTxns`, which
`NewTxnId` provides by counting) a registered request is removed by its own end
only, which is `TrackInv`, and `NoTokenLeak` and `CleanupMissesNone` follow.

**Own responses, in order.** A response travels from the socket through the
listener's hand, `incomingChan` and the loop's hand. `PipeInv` takes these as one
line (`Pipe`): for each registered request it holds exactly the responses that were
not delivered yet, numbered without a gap, and ending with the last one the server
has sent as long as the stream can still be read. A step takes from the head of
the line, puts at its end, hands on within it, or cuts it off for good, and a
request is registered before the server has seen it. `GotOwnInOrder` is what is
left in front of the line.

**One place for each connection.** `PoolInv` ties what a goroutine has to where it
stands (`PcInv`), says that no connection is in two of slots and hands (`Separate`)
and that what was not dialled is nowhere while what still runs is somewhere
(`Accounted`). `OnePlace` follows. `NoneDropped` needs to know who can still get
at a channel: whatever is in the channel of a pool that is neither the client's open one
nor being dialled or drained came there `late` (`Housed`, `LateInv`), and at most one
pool is open (`OpenInv`). `SizeKept` needs `SizeInv` as
well: before `Connect` returns nobody owes the first pool anything; after that each
step keeps the sum of its channel and of the callers that owe it one. For
`LeaseContract` the proof derives a connection's holder from its place
(`HolderFacts`), and a step then changes the holder of one connection at most.

**Whole responses.** `FramesWhole` compares neighbours on the stream, so a step
that appends must know what stands at its end. `EndOfStream` says so: the last
piece is the one that the holder of the lock wrote last, or the end of a response
if the holder has not written or nobody holds the lock. It holds while the socket
is open; when it is closed a writer gives up its lock in mid-response, and then
nothing can be appended, so `FramesWhole` stays. The lock's exclusiveness and the
types are a first invariant (`LockInv`), whose only strengthening is `Counted`: a
goroutine that waits for the lock has not used up the responses that bound it. The
refinement of `ServerContract` sees the stream through `Keep`: a piece that is not
the last of its response changes nothing, one that is appends an answer.

**Calls and answers.** On the JSON connection the txn id is all that leads an answer to
its call, and an object that is sent again keeps its id. `WebInv` says why that is
enough. No two objects have the same id and no two calls wait with the same object
(`IdsApart`), so the ids in the map of requests lead to the calls that wait, or to ones
that were left (`RoutesLead`). The responses under way are, call by call, the ones that
its handler wrote and the client has not read, in order (`Pipe`; the proof keeps, beside
the state, whose each of them is and how many of each call were read). A call that
nothing disturbs has been given the first of its own, and of an earlier call with its
object nothing is under way that could be taken for its own: that call had the response
that completes it, and wrote no more (`Told`). An earlier call that was left (it timed
out, or was content with a response that completes nothing) leaves its route behind, so
its late answer goes to the later call with the object, or stops the loop if there is
none that waits: this is what `Undisturbed` excludes, and what `AnswerArrives` still
says of it is that the answer is one to the same object. `AnswerArrives` and `CallEnds`
compare what was given with what was written, past `MarshalResponse` and
`NewResponseDynMap`. The lemmas on Packets say what that does to a response with any
keys (`ResponseRead`): the txn comes back unless a key `strest` hides it, the code and
the keys unless a key `status` does, and with such a key the code is the one that the
keys stand for. None of the loops of Packets is needed for this, only functions, their
domains and sub maps of sub maps.

**Requests.** `RequestArrives` rests on what a Request object keeps from call to call:
its params are those that the application put, and beside them only names of the shard
(`Carries`), which `MarshalJSON` adds if they are not there; once it was sent as JSON the
shard that they stand for is that of the object, unless it was sent before with another
(`PacketInv`). A request under way was made of such params (`WireInv`). That the handler
then has them is, for JSON, what `ShardRead` says of `WithShard`; for a url it is about
the loop of `UnmarshalURLValues` over a Go map (`AllPut`). Whatever the order, each turn
leaves a map whose values are texts of the url under names of the url (`FormMaps`), so
nothing else can arrive; and a name that clashes with no other is put when its turn
comes (`PutOwn`) and is neither refused nor overwritten by another (`PutOther`,
`UrlRead`). Names of the application clash with none of the shard's, because the first
word stays what it is when brackets become dots (`NameIs`, `NameApart`). Two cases
showed up only when the values were not those of the run any more, and were then added
to it: the empty list, and the query's entry that the body replaces (section 6).

**Sessions.** `SessionsPrivate` rests on `Owned`: an id belongs to the browser of the
request that made it, wherever the id is (cookies, request, cache), and so do the
contents filed under it. `SessInv` adds that an id is met by others only after the
request that made it was answered (`Named`), and, for a browser that has sent one
request at a time, that nobody else has its session in hand (`Alone`). Then `LatestInv`
says that what the cache has under each cookie of the browser is what the last page left
that had its session, `Carried` that the cookie of a request under way is still in the
browser or has `strayed`, and `FlashInv` that a flash message is in one place: the
session that got it, or the copy that is about to be saved without it.

**Stats.** The history `taken` numbers the items counted. `AddInv` places the loop
within an item that some timeamounts have and others have not; `MarksInv` says that
each item was counted in a round that exists, for the epoch of its time;
`SavesInv`, that a save holds what was counted for it and nothing more, for keys
that clash with none (a lemma about `Put` gives the value of a key step by step);
`AnswersInv` and `RoundsInv`, that answers are saves as they were between two items.
`OrderInv` (no epoch ahead of a clock that was never set back) gives the order of
what was persisted. The division in `ToTrendrrEpoch` is bounded by lemmas about
truncation (`Division`, `TimesLess`), for any lengths of the timeframes and any `Slack`
below them. What the floods leave unrecorded `EpochsRight` and `SnapshotsWhole` say
nothing about.

**Libraries.** Cache: whoever is between its two calls has the lock, and what it
will set still agrees with the sum (`CallsKnow`). Logger: whoever is off the list
is off the forwarder's copy too (`ListInv`), and the events under way are those of
each emitter, in order (`OrderInv`). Closer: the list, and each copy that an append
has read, holds all whose `Register` overlapped with no other (`CloserInv`).

**Bootstrap.** The maps hold the entries of the controllers accepted so far, no two
with a method and a route in common (`Serves`, `BootInv`); of those the loop of
`Match` finds the longest in whatever order it meets them, because patterns that
match one path and are equally long are equal (`BestBy`, `IsBest`).

**The binary protocol.** There is no marker between messages, so a reader is right only
as long as it stands where a field begins. `Stream` says that it does: what the server
has of a message is what its first fields were written as, and the cells under way,
followed by those that were lost, are the rest of that message and the whole of each
written after it, with part of one behind if a write was cut. `Back` says the same of
the responses, in the order of the answers. They are inductive because a field that is
read whole is the field that was written, and takes as many cells (`FieldRead`,
`FieldsWritten`, for the three formats), and because of cells that were cut or lost the
reader says "short", never "ok" (`FieldComes`): a part of a field is not taken for it,
since each begins with its length or has one cell. What is written behind a cut is read
only when all before it has been (`BeforeCut`, `PastCut`), so it comes after the
requests that were written whole, and a reader that stays "short" is where it begins.
`DispatchCorrect` is about any number of requests, any values and any lengths below the
wrap. It needs that every request has a shard: nothing at all is written for one that
has none (`protocol_bin.go:398`), and the server, which expects one, takes other fields
for it. `NewRequest` and `NewRequestDynMap` set the shard.

**Loops.** A loop of the code over a slice or a map (`Slices!Keep`, `Stats!Value`,
`Router!Best`) is a function that is recursive over the number of turns made. The
induction theorems of the library take the statement as an operator. `QueueLemmas`
has induction in two forms without: `NumberInduction` is about a set of numbers,
`LoopExists` says that a function defined by its first value and its step exists.
With these `FlattenSeq` of the community modules, which joins the cells of the fields
of a message and the words of a name, is dealt with for every number of them
(`FlattenLoop`), and so are the names of a url (`AllPutLoop`). `STRING` has no elements
for the provers, not even literals, so that proofs about names use a set of words that
contains it (`Words`, `Names`).

Assumptions. Each module that declares constants has one named assumption, and TLC
evaluates them all: ids of requests are ids, capacities are positive, "none" is no value
(`ConnAssumption`, `PoolAssumption`, `ServerAssumption`, `SessionAssumption`,
`LoggerAssumption`, `GoCacheAssumption`, `StatsAssumption`); a timeframe has a positive
number of ticks, and what a float64 rounds up is less than the whole (`TicksAssumption`);
controllers are finitely many, their patterns finite, and `NotFoundHandler` is none of
them (`RouterAssumption`); requests and responses have the fields of their formats,
params that json has a text for, a status that the protocol has a number for, and
lengths that fit their width (`FrontendAssumption`; one that has no such status is a
malformed one of ServerConn); the controllers that `Start` makes are not the
application's, which cannot name them, and the ping has its route and GET
(`BootstrapAssumption`); a handler's keys are paths of names; the params and the query
of an object are finitely many, a param is a text or a list of texts, a name has a word,
and the names of the shard are left to the library, which only `RequestArrives` needs
(`WebApiAssumption`). `UniqueTxns` and `Shards` are hypotheses of the theorems that need
them, and no assumptions of a module.


## 6. Where the code and its comments disagree

Three runs end with the counterexample they are there for:

* `conn_stranded`: `client.go:294` says that transport errors will arrive on the
  channel. `sendRequest` checks `Connected` and then sends on `outgoingChan`; if
  the loop ends and `cleanup` empties the channel in between, the request is
  accepted and its caller never hears of it. `CleanupMissesNone` (in
  `conn_safety`) shows that this is the only way.
* `conn_sync_hangs`: `client.go:20` says that a synchronous call times out. When a
  response comes after its caller has gone, the loop blocks for ever on the unbuffered
  `resultChan`; a later synchronous call, the first that finds no room in flight, waits
  for it, its wait ends, it calls `Close`, and waits on `exitChan` for a loop that is
  stuck. With the one place of the run (the code has at least two) that is the next
  call.
* `pool_nil`: `client.go:295` says that `ApiCall` returns an error if no connection
  is available. After a `Connect` that failed, `closed` is false and `pool` nil:
  `ApiCall` and `Close` dereference it, and `Connect` refuses to try again.

Seen while modelling, without a statement in the repository that a run could
refute; the models behave like the code:

* an error of `WriteRequest` is logged (`connection.go:217`): the request stays in
  the map, with its token, until the connection ends, and the loop goes on with the next
  request on the same stream (`connection.go:219`). Part of the one that failed may be
  there, after a deadline or because the codec refused it half way (an unknown method,
  `protocol_bin.go:518`), and the server completes it with the bytes of the next: it may
  handle a request that nobody wrote, or index `METHOD` out of range
  (`protocol_bin.go:335`), which ends its process;
* two goroutines in `Close` at once (`connection.go:132`), or `Close` while the
  listener reports an error: one of them waits on `exitChan` for ever. The listener
  that loses is a leaked goroutine; a caller that loses is stuck in `sendRequest`;
* `Return` checks `shutdown` and then sends (`pool.go:87`), and so does `ReturnBroken`
  (`pool.go:108`): a connection can be put into the channel of a pool that `Close` has
  just emptied. Nobody can borrow or close it there, and its loop runs on, although
  `pool.go:50` says "Close this pool and clean up all connections". `NoneDropped` shows
  that this race is the only way to lose a connection;
* after `Close` and `Connect`, connections lent by the first pool are returned to
  the second (`client.go:337`), which then has more than its size, and a `Return`
  can block;
* of two overlapping requests of a browser the later save undoes the earlier, and
  can bring a deleted session back; two first requests that overlap get a session
  each, of which one is left in the cache; a session changed by a handler that answers
  with `SendError` or `Txn.Write` is not saved; deleting a session sends a cookie
  with age 0, which browsers keep; a handler that writes anything before the page
  leaves a new session in the cache without a cookie in the browser;
* the cookie `session_id` has no path (`filters.go:115`, `filters.go:132`), so that
  pages of different directories can have different sessions in one browser, and what
  one of them stores the other does not see; a new cookie may also replace that of a
  session still in the cache (a page `/a` beside pages in `/a/`);
* a synchronous call over JSON is over with its first response, also one with the
  status "continue" (`client.go:314`), and leaves its request in the map: the next
  response finds nobody, and blocks the loop;
* a handler that looks at no error, such as the Firehose of the repository's README,
  runs for ever after its connection is closed: `Writer.Write` returns, the handler
  does not;
* a key of stats that is a prefix of another loses one of the two;
* seconds, minutes, hours and days of a time amount go through a float64
  (`timeamount.go:116`), which far from the year 2000 takes the last fraction of a
  microsecond of an interval for the next one;
* `MarshalJSON` puts the shard into the params of the object it encodes
  (`strestpackets.go:217`), so that an object that is sent again keeps its first shard,
  and sends it over http as a parameter. It also keeps its txn id (`client.go:332`): a
  handler that still writes for the earlier call is heard by the later one, and the
  retry of a call that timed out may be given the late answer of the first try. Over http
  neither txn id nor shard is sent;
* a controller's key `strest` hides the txn of its response, a key `status` its code, so
  that a 404 becomes a 200 (`strestpackets.go:389`);
* in a url a list is followed by its own rendering (`dynmap.go:135`, the loop before it
  does not return), so that an empty list arrives as the text `[]`; names that become
  equal, or of which one lies in the other, are lost in an order that is random
  (`dynmap.go:99`);
* the body of a request is read into the map that has its query
  (`httplistener.go:133`): a sub map of the body replaces the whole entry of the query
  with its name, values that the body does not have included;
* JSON and binary connections route on the whole uri, query included, and never parse
  it; a page asked for over JSON is refused, static files and web sockets give no answer
  there at all (`websocketlistener.go:38`), and `Render` or `Redirect` called by an api
  handler on such a connection goes on after its error and dereferences nil
  (`html.go:74`);
* `HttpClient.ApiCallSync` ignores its timeout, and sets a header on a nil request when
  the url is malformed (`client.go:107`); `JsonListen` closes a nil listener when the
  port is taken (`jsonlistener.go:31`);
* a controller that is queued after `Start` has gone through the queue is never served;
  an application with a POST `/ping` only loses the GET `/ping` that clients ask for
  (`bootstrap.go:75`), and one that registers `/ping` past the queue panics;
* a `Register` of the closer that overlaps with another, or comes while a signal is
  handled, may be lost (`closer.go:46`);
* strings of 2^15 bytes or more wrap their length (`protocol_bin.go:694`);
* `cleanPath` (`router.go:89`) has no caller, although `router.go:32` says that
  paths are sanitised; `GoCache.Inc` overwrites what is not a number, where
  `filters.go:46` says it returns an error.


## 7. What is only model-checked, and what is not modelled

Only model-checked: all liveness, and whatever speaks of `ENABLED`: fairness arguments
are out of the prover's reach here. Every safety invariant, action property and
refinement that a run checks is a theorem too.

The type invariants of WebApi and Frontend were checked while the modules were
written; no run repeats them, as they say little that the properties do not (the
invariants of the proofs, `WebInv` and `FrontendInv`, say more).

Not modelled: the accept loops and the reading of the yaml configuration, which are
I/O; the typed getters and `AddToSlice` of `dynmap` and its TOML reader, which nothing
here calls; parsing and formatting of time amounts, the escaping of strings and the
types of JSON numbers, which are text without control; templates, static files,
go-cache and `net/http`, which are other people's code behind one call. A filter's
`Before` may stop a request, and that is all that ServerConn has of filters other than
the session filter. Content and its encoding travel in the binary protocol only: the
JSON encoding drops them, and Packets has none.

Abstractions worth knowing: contents of messages are model values except in
Frontend; a txn id is a model value; what a server makes of the bytes behind a torn
request is left open, within `Misreadings`; the clock of Stats goes back once at most, and
the rounding of its float64s has one size; in WebApi the queue of the connection and the
writing of a request are one step; `JsonClient`'s ping loop is one of the
callers of the pool; a panic in ClientPool ends a goroutine and not the process
(more behaviours than the program has, so safety carries over).


## 8. Plan

Order of modules: connection, pool, server (core); sessions, stats, frontend,
logger; then what is left.

Done: the modules and runs above, and proofs of the three refinements and of every
safety invariant and action property.

What could still be modelled is small: web sockets and static files reached by the
wrong kind of connection, chains of filters that write, a second `Start` of Stats.
