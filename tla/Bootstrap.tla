----------------------------- MODULE Bootstrap -----------------------------
(***************************************************************************)
(* From the controllers of an application to the routes of its server      *)
(* (cheshire/bootstrap.go, cheshire/config.go, Register of router.go).     *)
(* RegisterApi, RegisterHtml and the package's Register put a controller   *)
(* into a queue, which Start goes through once; the Register of the        *)
(* configuration writes to the router itself.  Both can be called at any   *)
(* time.  Start runs the Init methods in the order of their names; a panic *)
(* of any goroutine ends the process.                                      *)
(***************************************************************************)
EXTENDS Router

CONSTANTS
  App,             (* the controllers of the application                   *)
  PingController, StaticFileController, WebsocketController,
  Configured,      (* which of the last two the configuration asks for     *)
  PingRoute,       (* "/ping"                                              *)
  Paths            (* paths that requests may have                         *)

ASSUME BootstrapAssumption ==
  /\ App \cup {PingController, StaticFileController, WebsocketController} \subseteq Controllers
  /\ Configured \subseteq {StaticFileController, WebsocketController}
  /\ {PingController, StaticFileController, WebsocketController} \cap App = {}
  /\ PingController \notin {StaticFileController, WebsocketController}
  /\ StaticFileController # WebsocketController
  /\ Route[PingController] = PingRoute /\ Methods[PingController] = {"GET"}

VARIABLES
  registerQueue,
  routes,          (* the maps of the router: <<method, controller>>       *)
  start,           (* where Start is: "setup" before it, the Init method   *)
                   (* that runs, "listening", or "panic"                   *)
  range,           (* what InitControllers has still to register           *)
  ping,            (* one of them had the route of the ping                *)
  queued,          (* history: what was in the queue when Start came to it *)
  direct           (* history: what was registered past the queue          *)

bootVars == <<registerQueue, routes, start, range, ping, queued, direct>>

BootInit ==
  /\ registerQueue = <<>> /\ routes = {}
  /\ start = "setup" /\ range = <<>> /\ ping = FALSE
  /\ queued = {} /\ direct = {}

(* RegisterApi, RegisterHtml, Register                                     *)
Register(c) ==
  /\ start # "panic"
  /\ ~Contains(registerQueue, c)
  /\ registerQueue' = Append(registerQueue, c)
  /\ UNCHANGED <<routes, start, range, ping, queued, direct>>

(* Router.Register, under the lock of the router                           *)
Put(c, next) ==
  IF Refused(routes, c) THEN start' = "panic" /\ UNCHANGED routes
  ELSE start' = next /\ routes' = routes \cup EntriesOf(c)

(* ServerConfig.Register                                                   *)
ConfRegister(c) ==
  /\ start # "panic"
  /\ c \notin direct
  /\ Put(c, start)
  /\ direct' = direct \cup {c}
  /\ UNCHANGED <<registerQueue, range, ping, queued>>

(* Start calls RunInitMethods; the loop of InitControllers ranges over the *)
(* queue as it is now.                                                     *)
Start ==
  /\ start = "setup"
  /\ start' = "InitControllers"
  /\ range' = registerQueue
  /\ queued' = ToSet(registerQueue)
  /\ UNCHANGED <<registerQueue, routes, ping, direct>>

InitController ==
  /\ start = "InitControllers"
  /\ range # <<>>
  /\ ping' = (ping \/ Route[Head(range)] = PingRoute)
  /\ Put(Head(range), start)
  /\ range' = Tail(range)
  /\ UNCHANGED <<registerQueue, queued, direct>>

(* Mutant: the ping controller is registered whatever was in the queue.    *)
InitPingAlways ==
  /\ start = "InitControllers"
  /\ range = <<>>
  /\ Put(PingController, "InitStaticFiles")
  /\ UNCHANGED <<registerQueue, range, ping, queued, direct>>

InitPing ==
  /\ start = "InitControllers"
  /\ range = <<>>
  /\ IF ping THEN start' = "InitStaticFiles" /\ UNCHANGED routes
     ELSE Put(PingController, "InitStaticFiles")
  /\ UNCHANGED <<registerQueue, range, ping, queued, direct>>

InitConfigured(method, c, next) ==
  /\ start = method
  /\ IF c \in Configured THEN Put(c, next) ELSE start' = next /\ UNCHANGED routes
  /\ UNCHANGED <<registerQueue, range, ping, queued, direct>>

(* When the Init methods are through, the listeners are started.           *)
BootNext ==
  \/ \E c \in App : Register(c) \/ ConfRegister(c)
  \/ Start \/ InitController \/ InitPing
  \/ InitConfigured("InitStaticFiles", StaticFileController, "InitWebSockets")
  \/ InitConfigured("InitWebSockets", WebsocketController, "listening")

BootSpec == BootInit /\ [][BootNext]_bootVars
-----------------------------------------------------------------------------
BootTypeOK ==
  /\ start \in {"setup", "InitControllers", "InitStaticFiles", "InitWebSockets", "listening", "panic"}
  /\ ToSet(range) \subseteq queued /\ queued \subseteq ToSet(registerQueue) /\ direct \subseteq App

(* What the server has to route: the ping is the server's own unless the   *)
(* application has queued one, for whatever method.                        *)
Wanted ==
  queued \cup direct \cup Configured
    \cup IF \E c \in queued : Route[c] = PingRoute THEN {} ELSE {PingController}

SameRoute(c, d) == Route[c] = Route[d] /\ Methods[c] \cap Methods[d] # {}

(* Once requests come in, each goes to the controller with the longest     *)
(* pattern that matches its path, among all that were asked for with its   *)
(* method, in whatever order and way they were registered and whatever the *)
(* order of the maps, and to NotFound when there is none.  Start fails     *)
(* only if two want the same route, or one was registered both ways, or    *)
(* for an unknown method or an empty pattern.                              *)
RoutesAsRegistered ==
  /\ start = "listening" =>
       \A method \in ValidMethods, path \in Paths :
         LET m == {c \in Wanted : method \in Methods[c] /\ PathMatch(Route[c], path)}
         IN  \A h \in Match(routes, method, path) :
               IF m = {} THEN h = NotFound
               ELSE h \in m /\ \A c \in m : Len(Route[c]) <= Len(Route[h])
  /\ start = "panic" =>
       \/ queued \cap direct # {}
       \/ \E c \in Wanted : ~(Methods[c] \subseteq ValidMethods) \/ Route[c] = <<>>
       \/ \E c, d \in Wanted : c # d /\ SameRoute(c, d)
=============================================================================
