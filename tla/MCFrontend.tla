----------------------------- MODULE MCFrontend -----------------------------
(***************************************************************************)
(* Frontend for TLC: a root subtree, the subtree /a/, the page /a/b and a  *)
(* POST route; lengths wrap at 16.  The byte '/' is 0.                     *)
(***************************************************************************)
EXTENDS Frontend

CONSTANTS root, sub, page, form, nobody

FourRoutes  == root :> <<0>> @@ sub :> <<0, 1, 0>> @@ page :> <<0, 1, 0, 2>> @@ form :> <<0, 2>>
FourMethods == root :> {"GET"} @@ sub :> {"GET", "PUT"} @@ page :> {"GET"} @@ form :> {"POST"}

Objects == {<<5, 6>>, <<5, 1, 6>>}
NoMembers == <<5, 6>>

Asks(txn, accept, method, uri, params, encoding, content) ==
  [partition |-> -1, key |-> <<>>, revision |-> 0, txnId |-> txn,
   txnAccept |-> accept, method |-> method, uri |-> uri, paramEncoding |-> "json", params |-> params,
   contentEncoding |-> encoding, content |-> content]

SomeRequests ==
  {Asks(<<1>>, "single", "GET", <<0, 1, 0, 2>>, NoMembers, "zip", <<3>>),
   Asks(<<2>>, "multi", "PUT", <<0, 1, 0, 3>>, <<5, 1, 6>>, "string", <<7>>),
   Asks(<<3>>, "single", "HEAD", <<0>>, NoMembers, "", <<>>)}

(* The shard, the id and the accept of any request, or all but the content *)
(* of one, and then those of another                                       *)
Other == Sent(Asks(<<1>>, "single", "POST", <<0, 2>>, NoMembers, "json", <<4>>))
Upto(r, n) == [f \in DOMAIN Other |->
                 IF \E i \in 1..n : RequestFormat[i][1] = f THEN Sent(r)[f] ELSE Other[f]]
Mixed == {Upto(r, 5) : r \in SomeRequests}
         \cup {Upto(r, 10) : r \in {q \in SomeRequests : q.method = "GET"}}

Codes(c) ==
  [txnId |-> <<>>, txnStatus |-> IF c = sub THEN "continue" ELSE "completed",
   statusCode |-> IF c = nobody THEN 4 ELSE 2, statusMessage |-> <<1>>,
   paramEncoding |-> "json", params |-> NoMembers, contentEncoding |-> IF c = page THEN "" ELSE "json",
   content |-> <<2, 2>>]
=============================================================================
