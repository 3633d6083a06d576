---------------------------- MODULE MCLibraries ----------------------------
(***************************************************************************)
(* Logger, GoCache, Closer and Bootstrap for TLC: parts without common     *)
(* state, of which a behavior exercises one.  The logger has two emitters  *)
(* and two listeners, the cache three callers of one key, the closer three *)
(* calls of Register, and the application four controllers: the root, a    *)
(* page, a POST ping and a subtree with the route of the static files.     *)
(***************************************************************************)
EXTENDS Logger, GoCache, Closer, Bootstrap

CONSTANTS e1, e2, c1, c2, p, q, r, home, about, pings, images, own, files, sockets

VARIABLE library

TwoAndOne == [e \in Emitters |-> IF e = e1 THEN 2 ELSE 1]

(* 0 is the slash, 1 is ping, 2 is static and 3 is ws.                     *)
Ping == <<0, 1>>
SomeRoutes ==
  (home :> <<0>>) @@ (about :> <<0, 2, 0, 4>>) @@ (pings :> Ping) @@ (images :> <<0, 2, 0>>)
    @@ (own :> Ping) @@ (files :> <<0, 2, 0>>) @@ (sockets :> <<0, 3>>)
SomeMethods ==
  (home :> {"GET", "POST"}) @@ (about :> {"GET"}) @@ (pings :> {"POST"}) @@ (images :> {"GET", "PUT"})
    @@ (own :> {"GET"}) @@ (files :> {"GET"}) @@ (sockets :> {"GET", "POST", "PUT", "DELETE"})
SomePaths == {<<0>>, Ping, <<0, 2>>, <<0, 2, 0>>, <<0, 2, 0, 4>>, <<0, 3>>}

LibrariesInit ==
  /\ Init /\ CacheInit /\ CloserInit /\ BootInit
  /\ library \in {"logger", "cache", "closer", "bootstrap"}

LibrariesNext ==
  /\ \/ library = "logger" /\ Next /\ UNCHANGED <<cacheVars, closerVars, bootVars>>
     \/ library = "cache" /\ CacheNext /\ UNCHANGED <<vars, closerVars, bootVars>>
     \/ library = "closer" /\ CloserNext /\ UNCHANGED <<vars, cacheVars, bootVars>>
     \/ library = "bootstrap" /\ BootNext /\ UNCHANGED <<vars, cacheVars, closerVars>>
  /\ UNCHANGED library

(* Only the logger's goroutines need fairness.                             *)
LibrariesSpec ==
  LibrariesInit /\ [][LibrariesNext]_<<vars, cacheVars, closerVars, bootVars, library>> /\ LoggerFairness
=============================================================================
