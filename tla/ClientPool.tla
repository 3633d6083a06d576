----------------------------- MODULE ClientPool -----------------------------
(***************************************************************************)
(* The pooled client: JsonClient (client/client.go) and Pool               *)
(* (client/pool.go).  Any number of goroutines make calls, each of which   *)
(* borrows a connection, sends on it and gives it back; one goroutine owns *)
(* the client and calls Connect and Close in turn.  A ping loop is one     *)
(* more caller.                                                            *)
(*                                                                         *)
(* The connection is module ClientConn reduced to what its pool can see:   *)
(* its loop runs ("up"), has taken an exit but not yet cleared the flag    *)
(* that Connected reads ("exiting"), or has cleared it ("down").           *)
(***************************************************************************)
EXTENDS Naturals, Sequences, FiniteSets

CONSTANTS
  Callers,      (* goroutines in doApiCall                                 *)
  Conns,        (* bound: connections that can ever be dialled             *)
  NoConn,
  Size,         (* PoolSize                                                *)
  Retries,      (* Retries                                                 *)
  MaxPools,     (* bound: successful or failed calls of Connect            *)
  DialMayFail,  (* newCheshireConn may return an error                     *)
  ConnMayDie,   (* the server may close a connection                       *)
  MayStall      (* a connection may have no room in flight for a second    *)

ASSUME PoolAssumption ==
  /\ NoConn \notin Conns
  /\ Size \in Nat \ {0} /\ Retries \in Nat /\ MaxPools \in Nat
  /\ DialMayFail \in BOOLEAN /\ ConnMayDie \in BOOLEAN /\ MayStall \in BOOLEAN

VARIABLES
  closed,     (* JsonClient.shutdown                                       *)
  pool,       (* JsonClient.pool, 0 for nil                                *)
  clients,    (* the channel of each pool                                  *)
  shutdown,   (* the shutdown flag of each pool                            *)
  late,       (* history: what came into a channel after Close emptied it  *)
  conn,       (* state of each connection                                  *)
  pc,         (* where each caller stands                                  *)
  at,         (* the pool whose method the caller is in                    *)
  tries,      (* attempts of connection() so far                           *)
  held,       (* the connection the caller has                             *)
  fresh,      (* the one ReturnBroken dialled to replace it                *)
  owner,      (* where the owner stands                                    *)
  built,      (* number of pools that Connect has begun to make            *)
  work,       (* the pool whose method the owner is in                     *)
  ownerConn   (* the connection the owner is cleaning up                   *)

poolVars   == <<clients, shutdown, late>>
callerVars == <<pc, at, tries, held, fresh>>
ownerVars  == <<closed, pool, owner, built, work, ownerConn>>
vars == <<poolVars, conn, callerVars, ownerVars>>

Pools == 1..MaxPools

Connected(c) == conn[c] \in {"up", "exiting"}

Init ==
  /\ closed = TRUE
  /\ pool = 0
  /\ clients = [p \in Pools |-> <<>>]
  /\ shutdown = [p \in Pools |-> FALSE]
  /\ late = {}
  /\ conn = [c \in Conns |-> "none"]
  /\ pc = [g \in Callers |-> "idle"]
  /\ at = [g \in Callers |-> 0]
  /\ tries = [g \in Callers |-> 0]
  /\ held = [g \in Callers |-> NoConn]
  /\ fresh = [g \in Callers |-> NoConn]
  /\ owner = "idle"
  /\ built = 0
  /\ work = 0
  /\ ownerConn = NoConn

Goto(g, from, to) ==
  /\ pc[g] = from
  /\ pc' = [pc EXCEPT ![g] = to]

(* The caller returns from a method of a pool.                             *)
Leave(g) == at' = [at EXCEPT ![g] = 0]
-----------------------------------------------------------------------------
(* doApiCall: connection(), which tries Retries * PoolSize times.          *)

(* "Remember to call client.Connect": calls come after Connect returned    *)
Call(g) ==
  /\ pool # 0 \/ (built > 0 /\ owner = "idle")
  /\ Goto(g, "idle", "borrow")
  /\ UNCHANGED <<poolVars, conn, at, tries, held, fresh, ownerVars>>

GiveUp(g) ==
  /\ tries[g] = Retries * Size
  /\ Goto(g, "borrow", "idle")
  /\ tries' = [tries EXCEPT ![g] = 0]
  /\ UNCHANGED <<poolVars, conn, at, held, fresh, ownerVars>>

(* Borrow on a nil pool: this.shutdown is a nil dereference                *)
BorrowPanics(g) ==
  /\ tries[g] < Retries * Size
  /\ pool = 0
  /\ Goto(g, "borrow", "panic")
  /\ UNCHANGED <<poolVars, conn, at, tries, held, fresh, ownerVars>>

(* Mutant: an attempt that fails is not counted.                           *)
BorrowUncounted(g) ==
  /\ tries[g] < Retries * Size
  /\ pool # 0
  /\ IF shutdown[pool]
     THEN pc[g] = "borrow" /\ UNCHANGED <<pc, at>>
     ELSE Goto(g, "borrow", "receive") /\ at' = [at EXCEPT ![g] = pool]
  /\ UNCHANGED <<poolVars, conn, tries, held, fresh, ownerVars>>

(* Borrow reads the flag, then waits on the channel                        *)
BorrowCheck(g) ==
  /\ tries[g] < Retries * Size
  /\ pool # 0
  /\ tries' = [tries EXCEPT ![g] = @ + 1]
  /\ IF shutdown[pool]
     THEN pc[g] = "borrow" /\ UNCHANGED <<pc, at>>
     ELSE Goto(g, "borrow", "receive") /\ at' = [at EXCEPT ![g] = pool]
  /\ UNCHANGED <<poolVars, conn, held, fresh, ownerVars>>

BorrowReceive(g) ==
  /\ Goto(g, "receive", "send")
  /\ clients[at[g]] # <<>>
  /\ held' = [held EXCEPT ![g] = Head(clients[at[g]])]
  /\ clients' = [clients EXCEPT ![at[g]] = Tail(@)]
  /\ late' = late \ {Head(clients[at[g]])}
  /\ tries' = [tries EXCEPT ![g] = 0]
  /\ Leave(g)
  /\ UNCHANGED <<shutdown, conn, fresh, ownerVars>>

BorrowTimeout(g) ==
  /\ Goto(g, "receive", "borrow")
  /\ clients[at[g]] = <<>>
  /\ Leave(g)
  /\ UNCHANGED <<poolVars, conn, tries, held, fresh, ownerVars>>
-----------------------------------------------------------------------------
(* doApiCall: sendRequest, seen from outside the connection.               *)

SendAccepted(g) ==
  /\ Goto(g, "send", "return")
  /\ Connected(held[g])
  /\ UNCHANGED <<poolVars, conn, at, tries, held, fresh, ownerVars>>

SendRefused(g) ==
  /\ Goto(g, "send", "returnBroken")
  /\ ~Connected(held[g])
  /\ UNCHANGED <<poolVars, conn, at, tries, held, fresh, ownerVars>>

(* no room in flight: sendRequest calls Close and returns an error         *)
SendStalled(g) ==
  /\ MayStall
  /\ \/ Goto(g, "send", "sendExit") /\ Connected(held[g])
     \/ Goto(g, "send", "returnBroken") /\ ~Connected(held[g])
  /\ UNCHANGED <<poolVars, conn, at, tries, held, fresh, ownerVars>>

(* exitChan has no buffer: only a loop that still runs takes the value     *)
Exit(c) ==
  /\ conn[c] = "up"
  /\ conn' = [conn EXCEPT ![c] = "exiting"]

SendExit(g) ==
  /\ Goto(g, "sendExit", "returnBroken")
  /\ Exit(held[g])
  /\ UNCHANGED <<poolVars, at, tries, held, fresh, ownerVars>>
-----------------------------------------------------------------------------
(* Return and ReturnBroken.  this.pool is read again, after sendRequest.   *)

(* Mutant: a connection that comes back to a closed pool is forgotten.     *)
ReturnForgets(g) ==
  /\ Goto(g, "return", IF shutdown[pool] THEN "idle" ELSE "push")
  /\ held' = IF shutdown[pool] THEN [held EXCEPT ![g] = NoConn] ELSE held
  /\ at' = [at EXCEPT ![g] = IF shutdown[pool] THEN 0 ELSE pool]
  /\ UNCHANGED <<poolVars, conn, tries, fresh, ownerVars>>

Return(g) ==
  /\ Goto(g, "return", IF shutdown[pool] THEN "clean" ELSE "push")
  /\ at' = [at EXCEPT ![g] = IF shutdown[pool] THEN 0 ELSE pool]
  /\ UNCHANGED <<poolVars, conn, tries, held, fresh, ownerVars>>

(* c is put into the channel of the caller's pool.  The flag was read when *)
(* the method began; Close may have set it and drained the channel since.  *)
Put(g, c) ==
  /\ Len(clients[at[g]]) < Size
  /\ clients' = [clients EXCEPT ![at[g]] = Append(@, c)]
  /\ late' = IF shutdown[at[g]] /\ work # at[g] THEN late \cup {c} ELSE late

(* Mutant: no return after this.Return(conn) in ReturnBroken.              *)
PushThenClean(g) ==
  /\ Goto(g, "push", "clean")
  /\ Put(g, held[g])
  /\ Leave(g)
  /\ UNCHANGED <<shutdown, conn, tries, held, fresh, ownerVars>>

Push(g) ==
  /\ Goto(g, "push", "idle")
  /\ Put(g, held[g])
  /\ held' = [held EXCEPT ![g] = NoConn]
  /\ Leave(g)
  /\ UNCHANGED <<shutdown, conn, tries, fresh, ownerVars>>

ReturnBroken(g) ==
  /\ Goto(g, "returnBroken", IF shutdown[pool] THEN "clean" ELSE "create")
  /\ at' = [at EXCEPT ![g] = IF shutdown[pool] THEN 0 ELSE pool]
  /\ UNCHANGED <<poolVars, conn, tries, held, fresh, ownerVars>>

Dial(c) ==
  /\ conn[c] = "none"
  /\ conn' = [conn EXCEPT ![c] = "up"]

CreateFresh(g) ==
  /\ Goto(g, "create", "pushFresh")
  /\ \E c \in Conns : Dial(c) /\ fresh' = [fresh EXCEPT ![g] = c]
  /\ UNCHANGED <<poolVars, at, tries, held, ownerVars>>

(* Mutant: a broken connection that cannot be replaced is not put back.    *)
CreateFailsCleans(g) ==
  /\ DialMayFail
  /\ Goto(g, "create", "clean")
  /\ Leave(g)
  /\ UNCHANGED <<poolVars, conn, tries, held, fresh, ownerVars>>

(* Create fails: this.Return(conn), on the same pool                       *)
CreateFails(g) ==
  /\ DialMayFail
  /\ Goto(g, "create", IF shutdown[at[g]] THEN "clean" ELSE "push")
  /\ IF shutdown[at[g]] THEN Leave(g) ELSE UNCHANGED at
  /\ UNCHANGED <<poolVars, conn, tries, held, fresh, ownerVars>>

(* Mutant: the broken connection is returned beside the new one.           *)
PushBoth(g) ==
  /\ Goto(g, "pushFresh", "push")
  /\ Put(g, fresh[g])
  /\ fresh' = [fresh EXCEPT ![g] = NoConn]
  /\ UNCHANGED <<shutdown, conn, at, tries, held, ownerVars>>

PushFresh(g) ==
  /\ Goto(g, "pushFresh", "clean")
  /\ Put(g, fresh[g])
  /\ fresh' = [fresh EXCEPT ![g] = NoConn]
  /\ Leave(g)
  /\ UNCHANGED <<shutdown, conn, tries, held, ownerVars>>

(* Cleanup(conn) is conn.Close(): reads the flag, then sends the exit      *)
CleanCheck(g) ==
  /\ \/ Goto(g, "clean", "cleanExit") /\ Connected(held[g]) /\ UNCHANGED held
     \/ /\ Goto(g, "clean", "idle") /\ ~Connected(held[g])
        /\ held' = [held EXCEPT ![g] = NoConn]
  /\ UNCHANGED <<poolVars, conn, at, tries, fresh, ownerVars>>

CleanExit(g) ==
  /\ Goto(g, "cleanExit", "idle")
  /\ Exit(held[g])
  /\ held' = [held EXCEPT ![g] = NoConn]
  /\ UNCHANGED <<poolVars, at, tries, fresh, ownerVars>>
-----------------------------------------------------------------------------
(* The owner.  Connect: NewPool dials Size connections, or drains what it  *)
(* has and returns the error; this.pool is assigned on success only.       *)

Connect ==
  /\ owner = "idle" /\ closed
  /\ built < MaxPools
  /\ closed' = FALSE
  /\ built' = built + 1
  /\ work' = built + 1
  /\ owner' = "dial"
  /\ UNCHANGED <<poolVars, conn, callerVars, pool, ownerConn>>

DialOne ==
  /\ owner = "dial"
  /\ Len(clients[work]) < Size
  /\ \E c \in Conns :
       Dial(c) /\ clients' = [clients EXCEPT ![work] = Append(@, c)]
  /\ UNCHANGED <<shutdown, late, callerVars, ownerVars>>

DialFails ==
  /\ DialMayFail
  /\ owner = "dial"
  /\ Len(clients[work]) < Size
  /\ shutdown' = [shutdown EXCEPT ![work] = TRUE]
  /\ owner' = "drain"
  /\ UNCHANGED <<clients, late, conn, callerVars, closed, pool, built, work, ownerConn>>

ConnectDone ==
  /\ owner = "dial"
  /\ Len(clients[work]) = Size
  /\ pool' = work
  /\ work' = 0
  /\ owner' = "idle"
  /\ UNCHANGED <<poolVars, conn, callerVars, closed, built, ownerConn>>

(* Close: pool.Close on a nil pool is a nil dereference                    *)
Close ==
  /\ owner = "idle" /\ ~closed
  /\ closed' = TRUE
  /\ IF pool = 0
     THEN owner' = "panic" /\ UNCHANGED shutdown
     ELSE owner' = "drain" /\ shutdown' = [shutdown EXCEPT ![pool] = TRUE]
  /\ work' = pool
  /\ UNCHANGED <<clients, late, conn, callerVars, pool, built, ownerConn>>

DrainOne ==
  /\ owner = "drain"
  /\ clients[work] # <<>>
  /\ ownerConn' = Head(clients[work])
  /\ clients' = [clients EXCEPT ![work] = Tail(@)]
  /\ late' = late \ {Head(clients[work])}
  /\ owner' = "clean"
  /\ UNCHANGED <<shutdown, conn, callerVars, closed, pool, built, work>>

DrainClean ==
  /\ owner = "clean"
  /\ IF Connected(ownerConn)
     THEN owner' = "cleanExit" /\ UNCHANGED ownerConn
     ELSE owner' = "drain" /\ ownerConn' = NoConn
  /\ UNCHANGED <<poolVars, conn, callerVars, closed, pool, built, work>>

DrainExit ==
  /\ owner = "cleanExit"
  /\ Exit(ownerConn)
  /\ owner' = "drain"
  /\ ownerConn' = NoConn
  /\ UNCHANGED <<poolVars, callerVars, closed, pool, built, work>>

(* Mutant: the select of Pool.Close has no default.                        *)
DrainBlocks == FALSE

DrainEnd ==
  /\ owner = "drain"
  /\ clients[work] = <<>>
  /\ work' = 0
  /\ owner' = "idle"
  /\ UNCHANGED <<poolVars, conn, callerVars, closed, pool, built, ownerConn>>
-----------------------------------------------------------------------------
(* The event loop of a connection.                                         *)

ConnDies(c) ==
  /\ ConnMayDie
  /\ Exit(c)
  /\ UNCHANGED <<poolVars, callerVars, ownerVars>>

ConnDown(c) ==
  /\ conn[c] = "exiting"
  /\ conn' = [conn EXCEPT ![c] = "down"]
  /\ UNCHANGED <<poolVars, callerVars, ownerVars>>
-----------------------------------------------------------------------------
CallStep(g) ==
  \/ GiveUp(g) \/ BorrowPanics(g) \/ BorrowCheck(g) \/ BorrowReceive(g)
  \/ BorrowTimeout(g) \/ SendAccepted(g) \/ SendRefused(g) \/ SendStalled(g)
  \/ SendExit(g) \/ Return(g) \/ Push(g) \/ ReturnBroken(g) \/ CreateFresh(g)
  \/ CreateFails(g) \/ PushFresh(g) \/ CleanCheck(g) \/ CleanExit(g)

OwnerStep ==
  \/ DialOne \/ DialFails \/ ConnectDone
  \/ DrainOne \/ DrainClean \/ DrainExit \/ DrainEnd

(* A panic ends the program.  The steps that other goroutines take here    *)
(* after one are more than the program does, so what holds here holds.     *)
Next ==
  \/ \E g \in Callers : Call(g) \/ CallStep(g)
  \/ Connect \/ Close \/ OwnerStep
  \/ \E c \in Conns : ConnDies(c) \/ ConnDown(c)

Spec == Init /\ [][Next]_vars

(* Goroutines that can run do; nobody has to call anything.                *)
Fairness ==
  /\ \A g \in Callers : WF_vars(CallStep(g))
  /\ WF_vars(OwnerStep)
  /\ \A c \in Conns : WF_vars(ConnDown(c))

FairSpec == Spec /\ Fairness
-----------------------------------------------------------------------------
TypeOK ==
  /\ closed \in BOOLEAN
  /\ pool \in 0..MaxPools /\ built \in 0..MaxPools /\ work \in 0..MaxPools
  /\ clients \in [Pools -> Seq(Conns)]
  /\ \A p \in Pools : Len(clients[p]) <= Size
  /\ shutdown \in [Pools -> BOOLEAN]
  /\ late \subseteq Conns
  /\ conn \in [Conns -> {"none", "up", "exiting", "down"}]
  /\ pc \in [Callers -> {"idle", "borrow", "receive", "send", "sendExit", "return",
                         "push", "returnBroken", "create", "pushFresh", "clean",
                         "cleanExit", "panic"}]
  /\ at \in [Callers -> 0..MaxPools]
  /\ tries \in [Callers -> 0..(Retries * Size)]
  /\ held \in [Callers -> Conns \cup {NoConn}]
  /\ fresh \in [Callers -> Conns \cup {NoConn}]
  /\ owner \in {"idle", "dial", "drain", "clean", "cleanExit", "panic"}
  /\ ownerConn \in Conns \cup {NoConn}

(* Everywhere the program keeps a connection: a slot of a pool's channel,  *)
(* or a local variable of a goroutine.                                     *)
Places(c) ==
  {<<"slot", s>> : s \in {s \in Pools \X (1..Size) :
     s[2] <= Len(clients[s[1]]) /\ clients[s[1]][s[2]] = c}}
  \cup {<<"held", g>> : g \in {g \in Callers : held[g] = c}}
  \cup {<<"fresh", g>> : g \in {g \in Callers : fresh[g] = c}}
  \cup {<<"owner">> : o \in {o \in {0} : ownerConn = c}}

(* A connection is in one place at most: never in two slots, never in a    *)
(* slot and with a goroutine, never with two goroutines.  connection.go:21 *)
(* depends on it ("should only be used in one routine at a time").         *)
OnePlace == \A c \in Conns : Cardinality(Places(c)) <= 1

(* Somebody has the connection, or finds it when he next looks: a caller   *)
(* in the pool of the client while that is open, Connect or Close in the   *)
(* pool that they dial or drain.                                           *)
Reachable(c) ==
  \/ \E g \in Callers : held[g] = c \/ fresh[g] = c
  \/ ownerConn = c
  \/ \E p \in Pools : /\ p = work \/ (p = pool /\ ~shutdown[p])
                     /\ \E i \in 1..Len(clients[p]) : clients[p][i] = c

(* pool.go:50 "Close this pool and clean up all connections".  Only one    *)
(* race breaks it: a Return or ReturnBroken that read the flag before      *)
(* Close set it (pool.go:83, 96) puts the connection into the channel      *)
(* after Close emptied it, and it stays there, its loop running.  By no    *)
(* other way is a connection that runs lost: not by a failing replacement, *)
(* a failing Connect, a second pool, or a Close that drains meanwhile.     *)
NoneDropped == \A c \in Conns : conn[c] = "up" => Reachable(c) \/ c \in late

(* The caller owes the pool a connection.                                  *)
Owing(g) == pc[g] \in {"send", "sendExit", "return", "push",
                       "returnBroken", "create", "pushFresh"}

(* pool.go:94: "we always have the correct # of items in the pool",        *)
(* counting those that are lent.  True of the first pool: a later one also *)
(* gets the connections that were lent when its predecessor was closed.    *)
SizeKept ==
  built = 1 /\ pool = 1 /\ ~shutdown[1] =>
    Len(clients[1]) + Cardinality({g \in Callers : Owing(g)}) = Size

(* With a server that neither dies nor stalls, every call ends, and its    *)
(* connection is back in the pool.                                         *)
CallReturns == \A g \in Callers : pc[g] = "borrow" ~> pc[g] = "idle"

(* Close ends, however many calls are under way, with the same server.     *)
CloseEnds == owner = "drain" ~> owner = "idle"

(* The mapping to LeaseContract: who has the connection.  A broken one is  *)
(* retired from the moment its replacement exists.                         *)
Using(g) == Owing(g) /\ pc[g] # "pushFresh"

Holder(c) ==
  IF conn[c] = "none" THEN "new"
  ELSE IF \E p \in Pools : \E i \in 1..Len(clients[p]) : clients[p][i] = c THEN "free"
  ELSE IF \E g \in Callers : fresh[g] = c THEN "new"
  ELSE IF \E g \in Callers : held[g] = c /\ Using(g)
       THEN CHOOSE g \in Callers : held[g] = c /\ Using(g)
  ELSE "retired"

Lease == INSTANCE LeaseContract WITH Users <- Callers,
                                     holder <- [c \in Conns |-> Holder(c)]

LeaseSpec == Lease!Spec
-----------------------------------------------------------------------------
(* What a comment of the repository promises and the code does not keep.   *)

(* client.go:295 "will return an error immediately if no connection is     *)
(* available": a call ends with an error, not with a panic.                *)
CallNeverPanics == \A g \in Callers : pc[g] # "panic"
=============================================================================
