------------------------------- MODULE MCWeb -------------------------------
(***************************************************************************)
(* Two ways to look at the web, of which a behavior takes one.             *)
(* Session: requests of one browser for /a and /a/b, and one request of    *)
(* another for /; the directory of / and of /a is /, that of /a/b is /a.   *)
(* WebApi: two calls with a GET and a POST object for an api and a GET     *)
(* object for a page, whose names have dots, sub maps, lists and a query.  *)
(***************************************************************************)
EXTENDS Session, WebApi, TLC

CONSTANTS a1, a2, b1, alice, bob

VARIABLE view

SentBy == [r \in Reqs |-> IF r = b1 THEN bob ELSE alice]

Directories == [r \in Reqs |-> IF r = a2 THEN "/a" ELSE "/"]
Enclosing   == [r \in Reqs |-> IF r = b1 THEN {"/"} ELSE {"/", "/a"}]
IsLonger(d, e) == d = "/a" /\ e = "/"

(* A list, a sub map, and the name e.f beside the sub map e                *)
AskedParams ==
  [get  |-> Top("d") :> List(<<<<"x">>, <<"y">>>>)
              @@ <<<<"e", "f">>>> :> Text(<<"x">>) @@ <<<<"e">>, <<"f">>>> :> Text(<<"y">>),
   post |-> <<<<"e", "f">>>> :> Text(<<"x">>) @@ <<<<"b">>, <<"c">>>> :> Text(<<"y">>),
   page |-> Top("p") :> Text(<<"x">>) @@ Top("l") :> List(<<>>)]
AskedQuery ==
  [get |-> EmptyMap, post |-> Top("q") :> <<<<"x">>, <<"y">>>> @@ <<<<"b", "x">>>> :> <<<<"z">>>>,
   page |-> Top("a") :> <<<<"x">>>>]

Methods == [get |-> "GET", post |-> "POST", page |-> "GET"]
Paths   == [get |-> "/api", post |-> "/api", page |-> "/page"]
Kinds   == ("/api" :> "api") @@ ("/page" :> "html")

TwoShards == {NewShard, [partition |-> <<"1">>, key |-> <<"k">>, revision |-> <<"2">>]}

Says3 ==
  {[code |-> <<"404">>, status |-> "continue", own |-> Top("status") :> Text(<<"y">>)],
   [code |-> <<"404">>, status |-> "completed", own |-> Top("strest") :> Text(<<"y">>)],
   [code |-> <<"404">>, status |-> "completed", own |-> Top("x") :> Text(<<"y">>)]}

TwoViewsInit == Init /\ WebInit /\ view \in {"sessions", "calls"}

TwoViewsNext ==
  /\ \/ view = "sessions" /\ Next /\ UNCHANGED webVars
     \/ view = "calls" /\ WebNext /\ UNCHANGED vars
  /\ UNCHANGED view

TwoViewsSpec == TwoViewsInit /\ [][TwoViewsNext]_<<vars, webVars, view>>
=============================================================================
