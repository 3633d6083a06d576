-------------------------- MODULE ClientPoolProofs --------------------------
(***************************************************************************)
(* The pool, for any number of callers, connections, pools and retries: a  *)
(* connection is in one place at a time, none that runs is dropped, the    *)
(* first pool keeps its size, and the pool implements LeaseContract.       *)
(*                                                                         *)
(* Most steps move no connection (Quiet); the proofs are about the others. *)
(***************************************************************************)
EXTENDS ClientPool, QueueLemmas, FiniteSetTheorems

(* What a goroutine has, and which pool it is in, follows from where it    *)
(* stands.                                                                 *)
Carries(g) == pc[g] \in {"send", "sendExit", "return", "push", "returnBroken", "create",
                         "pushFresh", "clean", "cleanExit"}

PcInv ==
  /\ \A g \in Callers :
       /\ Carries(g) <=> held[g] # NoConn
       /\ pc[g] = "pushFresh" <=> fresh[g] # NoConn
       /\ pc[g] \in {"receive", "push", "create", "pushFresh"} => at[g] \in Pools
       /\ Carries(g) \/ pc[g] = "receive" => pool # 0
  /\ owner \in {"dial", "drain", "clean", "cleanExit"} => work \in Pools
  /\ owner \in {"clean", "cleanExit"} <=> ownerConn # NoConn

InSlot(c) == \E p \in Pools : In(clients[p], c)

(* No connection is twice in the slots, in a slot and with a goroutine, or *)
(* with two goroutines.                                                    *)
Separate ==
  /\ \A p \in Pools : Distinct(clients[p])
  /\ \A p, q \in Pools, c \in Conns : In(clients[p], c) /\ In(clients[q], c) => p = q
  /\ \A g \in Callers : held[g] # NoConn =>
       /\ ~InSlot(held[g]) /\ ownerConn # held[g]
       /\ \A h \in Callers : fresh[h] # held[g] /\ (h # g => held[h] # held[g])
  /\ \A g \in Callers : fresh[g] # NoConn =>
       /\ ~InSlot(fresh[g]) /\ ownerConn # fresh[g]
       /\ \A h \in Callers : h # g => fresh[h] # fresh[g]
  /\ ownerConn # NoConn => ~InSlot(ownerConn)

Somewhere(c) ==
  \/ InSlot(c) \/ ownerConn = c
  \/ \E g \in Callers : held[g] = c \/ fresh[g] = c

(* What was not dialled is nowhere; what still runs is somewhere.          *)
Accounted ==
  \A c \in Conns : /\ conn[c] = "none" => ~Somewhere(c)
                   /\ conn[c] = "up" => Somewhere(c)

PoolInv == TypeOK /\ PcInv /\ Separate /\ Accounted

(* The first pool, until it is shut down.  Nobody owes it a connection     *)
(* before Connect has returned.                                            *)
Owers == {g \in Callers : Owing(g)}

SizeInv ==
  /\ pool <= built /\ work <= built /\ \A g \in Callers : at[g] <= built
  /\ IsFiniteSet(Owers)
  /\ pool = 0 => Owers = {}
  /\ built = 0 => \A p \in Pools : ~shutdown[p]
  /\ built = 1 /\ pool = 1 /\ ~shutdown[1] =>
       owner = "idle" /\ Len(clients[1]) + Cardinality(Owers) = Size
-----------------------------------------------------------------------------
(* Taking a connection from the channel of a pool, and putting one in.     *)
LEMMA SlotTaken ==
  ASSUME TypeOK, NEW p \in Pools, clients[p] # <<>>, \A q \in Pools : Distinct(clients[q]),
         clients' = [clients EXCEPT ![p] = Tail(@)]
  PROVE  /\ Head(clients[p]) \in Conns /\ In(clients[p], Head(clients[p]))
         /\ clients' \in [Pools -> Seq(Conns)]
         /\ Len(clients'[p]) = Len(clients[p]) - 1
         /\ \A q \in Pools : Distinct(clients'[q]) /\ Len(clients'[q]) <= Size
         /\ \A q \in Pools, c \in Conns :
              In(clients'[q], c) <=> In(clients[q], c) /\ ~(q = p /\ c = Head(clients[p]))
<1>1. clients \in [Pools -> Seq(Conns)] /\ \A q \in Pools : Len(clients[q]) <= Size
  BY DEF TypeOK
<1>2. clients[p] \in Seq(Conns) /\ Len(clients[p]) \in Nat
  BY <1>1, LenProperties
<1>3. /\ Head(clients[p]) \in Conns /\ In(clients[p], Head(clients[p]))
      /\ Tail(clients[p]) \in Seq(Conns) /\ Len(Tail(clients[p])) = Len(clients[p]) - 1
      /\ \A x : In(clients[p], x) <=> x = Head(clients[p]) \/ In(Tail(clients[p]), x)
  BY <1>2, TakeIn
<1>4. Distinct(Tail(clients[p])) /\ ~In(Tail(clients[p]), Head(clients[p]))
  BY <1>2, TakeDistinct
<1>5. \A q \in Pools : clients'[q] = IF q = p THEN Tail(clients[p]) ELSE clients[q]
  BY <1>1
<1>6. Len(Tail(clients[p])) <= Size
  BY <1>1, <1>2, <1>3, PoolAssumption
<1>7. QED
  BY <1>1, <1>3, <1>4, <1>5, <1>6

LEMMA SlotGiven ==
  ASSUME TypeOK, NEW p \in Pools, NEW c \in Conns, Len(clients[p]) < Size, ~InSlot(c),
         \A q \in Pools : Distinct(clients[q]), clients' = [clients EXCEPT ![p] = Append(@, c)]
  PROVE  /\ clients' \in [Pools -> Seq(Conns)]
         /\ Len(clients'[p]) = Len(clients[p]) + 1
         /\ \A q \in Pools : Distinct(clients'[q]) /\ Len(clients'[q]) <= Size
         /\ \A q \in Pools, d \in Conns :
              In(clients'[q], d) <=> In(clients[q], d) \/ (q = p /\ d = c)
<1>1. clients \in [Pools -> Seq(Conns)] /\ \A q \in Pools : Len(clients[q]) <= Size
  BY DEF TypeOK
<1>2. clients[p] \in Seq(Conns) /\ Len(clients[p]) \in Nat /\ ~In(clients[p], c)
  BY <1>1, LenProperties DEF InSlot
<1>3. /\ Append(clients[p], c) \in Seq(Conns) /\ Len(Append(clients[p], c)) = Len(clients[p]) + 1
      /\ \A x : In(Append(clients[p], c), x) <=> x = c \/ In(clients[p], x)
  BY <1>2, PutIn
<1>4. Distinct(Append(clients[p], c))
  BY <1>2, PutDistinct
<1>5. \A q \in Pools : clients'[q] = IF q = p THEN Append(clients[p], c) ELSE clients[q]
  BY <1>1
<1>6. Len(Append(clients[p], c)) <= Size
  BY <1>1, <1>2, <1>3, PoolAssumption
<1>7. QED
  BY <1>1, <1>3, <1>4, <1>5, <1>6

-----------------------------------------------------------------------------
CallerTypes ==
  /\ pc \in [Callers -> {"idle", "borrow", "receive", "send", "sendExit", "return",
                         "push", "returnBroken", "create", "pushFresh", "clean",
                         "cleanExit", "panic"}]
  /\ at \in [Callers -> 0..MaxPools]
  /\ tries \in [Callers -> 0..(Retries * Size)]
  /\ held \in [Callers -> Conns \cup {NoConn}]
  /\ fresh \in [Callers -> Conns \cup {NoConn}]

LEMMA CallerTypesStep == ASSUME PoolInv, [Next]_vars PROVE CallerTypes'
<1> DEFINE limit == Retries * Size
<1>0. CallerTypes /\ limit \in Nat /\ 0 \in 0..MaxPools
  BY PoolAssumption DEF PoolInv, TypeOK, CallerTypes
<1> HIDE DEF limit
<1>1. tries \in [Callers -> 0..limit]
  BY <1>0 DEF CallerTypes, limit
<1> USE DEF CallerTypes, Goto, Leave
<1>2. ASSUME NEW g \in Callers, Call(g) PROVE CallerTypes'
  BY <1>2, <1>0 DEF Call
<1>3. ASSUME NEW g \in Callers, GiveUp(g) PROVE CallerTypes'
  <2>1. tries' \in [Callers -> 0..limit]
    BY <1>3, <1>0, <1>1 DEF GiveUp
  <2>2. QED
    BY <1>3, <1>0, <2>1 DEF GiveUp, limit
<1>4. ASSUME NEW g \in Callers, BorrowPanics(g) PROVE CallerTypes'
  BY <1>4, <1>0 DEF BorrowPanics
<1>5. ASSUME NEW g \in Callers, BorrowCheck(g) PROVE CallerTypes'
  <2>1. tries[g] + 1 \in 0..limit /\ pool \in 0..MaxPools
    BY <1>5, <1>0, <1>1 DEF BorrowCheck, limit, PoolInv, TypeOK
  <2>2. tries' \in [Callers -> 0..limit]
    BY <1>5, <1>1, <2>1 DEF BorrowCheck
  <2>3. QED
    BY <1>5, <1>0, <2>1, <2>2 DEF BorrowCheck, limit
<1>6. ASSUME NEW g \in Callers, BorrowReceive(g) PROVE CallerTypes'
  <2>1. tries' \in [Callers -> 0..limit]
    BY <1>6, <1>0, <1>1 DEF BorrowReceive
  <2>2. at[g] \in Pools
    BY <1>6 DEF BorrowReceive, PoolInv, PcInv
  <2>3. Head(clients[at[g]]) \in Conns
    BY <1>6, <2>2, TakeIn DEF BorrowReceive, PoolInv, TypeOK
  <2>4. QED
    BY <1>6, <1>0, <2>1, <2>3 DEF BorrowReceive, limit
<1>7. ASSUME NEW g \in Callers, BorrowTimeout(g) PROVE CallerTypes'
  BY <1>7, <1>0 DEF BorrowTimeout
<1>8. ASSUME NEW g \in Callers, SendAccepted(g) PROVE CallerTypes'
  BY <1>8, <1>0 DEF SendAccepted
<1>9. ASSUME NEW g \in Callers, SendRefused(g) PROVE CallerTypes'
  BY <1>9, <1>0 DEF SendRefused
<1>10. ASSUME NEW g \in Callers, SendStalled(g) PROVE CallerTypes'
  BY <1>10, <1>0 DEF SendStalled
<1>11. ASSUME NEW g \in Callers, SendExit(g) PROVE CallerTypes'
  BY <1>11, <1>0 DEF SendExit
<1>12. ASSUME NEW g \in Callers, Return(g) PROVE CallerTypes'
  BY <1>12, <1>0 DEF Return, PoolInv, TypeOK
<1>13. ASSUME NEW g \in Callers, Push(g) PROVE CallerTypes'
  BY <1>13, <1>0 DEF Push
<1>14. ASSUME NEW g \in Callers, ReturnBroken(g) PROVE CallerTypes'
  BY <1>14, <1>0 DEF ReturnBroken, PoolInv, TypeOK
<1>15. ASSUME NEW g \in Callers, CreateFresh(g) PROVE CallerTypes'
  BY <1>15, <1>0 DEF CreateFresh
<1>16. ASSUME NEW g \in Callers, CreateFails(g) PROVE CallerTypes'
  BY <1>16, <1>0 DEF CreateFails
<1>17. ASSUME NEW g \in Callers, PushFresh(g) PROVE CallerTypes'
  BY <1>17, <1>0 DEF PushFresh
<1>18. ASSUME NEW g \in Callers, CleanCheck(g) PROVE CallerTypes'
  BY <1>18, <1>0 DEF CleanCheck
<1>19. ASSUME NEW g \in Callers, CleanExit(g) PROVE CallerTypes'
  BY <1>19, <1>0 DEF CleanExit
<1>20. CASE UNCHANGED callerVars
  BY <1>20, <1>0 DEF callerVars
<1>21. QED
  BY <1>2, <1>3, <1>4, <1>5, <1>6, <1>7, <1>8, <1>9, <1>10, <1>11, <1>12, <1>13, <1>14, <1>15,
     <1>16, <1>17, <1>18, <1>19, <1>20
  DEF Next, CallStep, OwnerStep, Connect, Close, DialOne, DialFails, ConnectDone, DrainOne,
      DrainClean, DrainExit, DrainEnd, ConnDies, ConnDown, vars
-----------------------------------------------------------------------------
(* The steps that leave every connection where it is: its loop may only    *)
(* come nearer to its end.                                                 *)
ConnKeeps ==
  /\ conn' \in [Conns -> {"none", "up", "exiting", "down"}]
  /\ \A c \in Conns : (conn'[c] = "none") <=> (conn[c] = "none")
  /\ \A c \in Conns : conn'[c] = "up" => conn[c] = "up"

Quiet == ConnKeeps /\ UNCHANGED <<clients, late, held, fresh, ownerConn>>

(* A goroutine is done with a connection that has stopped.                 *)
Forgets(g) ==
  /\ ConnKeeps /\ UNCHANGED <<clients, late, fresh, ownerConn>>
  /\ held[g] \in Conns /\ conn'[held[g]] # "up"
  /\ held' = [held EXCEPT ![g] = NoConn] /\ pc'[g] = "idle"

OwnerForgets ==
  /\ ConnKeeps /\ UNCHANGED <<clients, late, held, fresh>>
  /\ ownerConn \in Conns /\ conn'[ownerConn] # "up"
  /\ ownerConn' = NoConn

Moves(g) ==
  \/ BorrowReceive(g) \/ Push(g) \/ CreateFresh(g) \/ PushFresh(g) \/ Forgets(g)

LEMMA StepKinds ==
  ASSUME PoolInv, [Next]_vars
  PROVE  Quiet \/ DialOne \/ DrainOne \/ OwnerForgets \/ \E g \in Callers : Moves(g)
<1>1. /\ conn \in [Conns -> {"none", "up", "exiting", "down"}]
      /\ \A g \in Callers : Carries(g) => held[g] \in Conns
      /\ owner \in {"clean", "cleanExit"} => ownerConn \in Conns
  BY DEF PoolInv, TypeOK, PcInv
<1>2. ASSUME UNCHANGED conn PROVE ConnKeeps
  BY <1>1, <1>2 DEF ConnKeeps
<1>3. ASSUME NEW c \in Conns, Exit(c) PROVE ConnKeeps /\ conn'[c] # "up"
  <2>1. \A d \in Conns : conn'[d] = IF d = c THEN "exiting" ELSE conn[d]
    BY <1>1, <1>3 DEF Exit
  <2>2. conn' \in [Conns -> {"none", "up", "exiting", "down"}]
    BY <1>1, <1>3 DEF Exit
  <2>3. QED
    BY <1>3, <2>1, <2>2 DEF ConnKeeps, Exit
<1>4. ASSUME NEW g \in Callers, Call(g) \/ CallStep(g) PROVE Quiet \/ Moves(g)
  <2>1. Call(g) => Quiet
    BY <1>1, <1>2, <1>3 DEF Call, Quiet, Forgets, poolVars, ownerVars
  <2>2. GiveUp(g) => Quiet
    BY <1>1, <1>2, <1>3 DEF GiveUp, Quiet, Forgets, poolVars, ownerVars
  <2>3. BorrowPanics(g) => Quiet
    BY <1>1, <1>2, <1>3 DEF BorrowPanics, Quiet, Forgets, poolVars, ownerVars
  <2>4. BorrowCheck(g) => Quiet
    BY <1>1, <1>2, <1>3 DEF BorrowCheck, Quiet, Forgets, poolVars, ownerVars
  <2>5. BorrowTimeout(g) => Quiet
    BY <1>1, <1>2, <1>3 DEF BorrowTimeout, Quiet, Forgets, poolVars, ownerVars
  <2>6. SendAccepted(g) => Quiet
    BY <1>1, <1>2, <1>3 DEF SendAccepted, Quiet, Forgets, poolVars, ownerVars
  <2>7. SendRefused(g) => Quiet
    BY <1>1, <1>2, <1>3 DEF SendRefused, Quiet, Forgets, poolVars, ownerVars
  <2>8. SendStalled(g) => Quiet
    BY <1>1, <1>2, <1>3 DEF SendStalled, Quiet, Forgets, poolVars, ownerVars
  <2>9. SendExit(g) => Quiet
    BY <1>1, <1>2, <1>3 DEF SendExit, Quiet, Forgets, poolVars, ownerVars, Goto, Carries
  <2>10. Return(g) => Quiet
    BY <1>1, <1>2, <1>3 DEF Return, Quiet, Forgets, poolVars, ownerVars
  <2>11. ReturnBroken(g) => Quiet
    BY <1>1, <1>2, <1>3 DEF ReturnBroken, Quiet, Forgets, poolVars, ownerVars
  <2>12. CreateFails(g) => Quiet
    BY <1>1, <1>2, <1>3 DEF CreateFails, Quiet, Forgets, poolVars, ownerVars
  <2>13. CleanCheck(g) => Quiet \/ Forgets(g)
    BY <1>1, <1>2, <1>3 DEF CleanCheck, Quiet, Forgets, poolVars, ownerVars, Goto, Carries,
       Connected, PoolInv, TypeOK
  <2>14. CleanExit(g) => Forgets(g)
    BY <1>1, <1>2, <1>3 DEF CleanExit, Quiet, Forgets, poolVars, ownerVars, Goto, Carries,
       PoolInv, TypeOK
  <2>15. QED
    BY <1>4, <2>1, <2>2, <2>3, <2>4, <2>5, <2>6, <2>7, <2>8, <2>9, <2>10, <2>11, <2>12, <2>13,
       <2>14 DEF CallStep, Moves
<1>5. Connect \/ Close \/ DialFails \/ ConnectDone \/ DrainEnd => Quiet
  BY <1>2 DEF Connect, Close, DialFails, ConnectDone, DrainEnd, Quiet, poolVars, callerVars
<1>6. DrainClean => Quiet \/ OwnerForgets
  BY <1>1, <1>2 DEF DrainClean, Connected, Quiet, OwnerForgets, poolVars, callerVars
<1>7. DrainExit => OwnerForgets
  BY <1>1, <1>3 DEF DrainExit, OwnerForgets, poolVars, callerVars
<1>8. ASSUME NEW c \in Conns, ConnDies(c) PROVE Quiet
  BY <1>8, <1>3 DEF ConnDies, Quiet, poolVars, callerVars, ownerVars
<1>9. ASSUME NEW c \in Conns, ConnDown(c) PROVE Quiet
  <2>1. \A d \in Conns : conn'[d] = IF d = c THEN "down" ELSE conn[d]
    BY <1>1, <1>9 DEF ConnDown
  <2>2. conn' \in [Conns -> {"none", "up", "exiting", "down"}]
    BY <1>1, <1>9 DEF ConnDown
  <2>3. ConnKeeps
    BY <1>9, <2>1, <2>2 DEF ConnKeeps, ConnDown
  <2>4. QED
    BY <1>9, <2>3 DEF ConnDown, Quiet, poolVars, callerVars, ownerVars
<1>10. UNCHANGED vars => Quiet
  BY <1>2 DEF vars, Quiet, poolVars, callerVars, ownerVars
<1>11. QED
  BY <1>4, <1>5, <1>6, <1>7, <1>8, <1>9, <1>10 DEF Next, OwnerStep
-----------------------------------------------------------------------------
OwnerTypes ==
  /\ closed \in BOOLEAN
  /\ pool \in 0..MaxPools /\ built \in 0..MaxPools /\ work \in 0..MaxPools
  /\ shutdown \in [Pools -> BOOLEAN]
  /\ owner \in {"idle", "dial", "drain", "clean", "cleanExit", "panic"}
  /\ ownerConn \in Conns \cup {NoConn}

LEMMA OwnerTypesStep == ASSUME PoolInv, [Next]_vars PROVE OwnerTypes'
<1>1. OwnerTypes /\ 0 \in 0..MaxPools
  BY PoolAssumption DEF PoolInv, TypeOK, OwnerTypes
<1> USE DEF OwnerTypes
<1>2. CASE Connect
  <2>1. built + 1 \in 0..MaxPools
    BY <1>1, <1>2, PoolAssumption DEF Connect
  <2>2. QED
    BY <1>1, <1>2, <2>1 DEF Connect, poolVars
<1>3. CASE Close
  BY <1>1, <1>3 DEF Close
<1>4. CASE DialOne
  BY <1>1, <1>4 DEF DialOne, ownerVars
<1>5. CASE DialFails
  BY <1>1, <1>5 DEF DialFails
<1>6. CASE ConnectDone
  BY <1>1, <1>6 DEF ConnectDone, poolVars
<1>7. CASE DrainOne
  <2>1. Head(clients[work]) \in Conns
    BY <1>7, TakeIn DEF DrainOne, PoolInv, PcInv, TypeOK
  <2>2. QED
    BY <1>1, <1>7, <2>1 DEF DrainOne
<1>8. CASE DrainClean
  BY <1>1, <1>8 DEF DrainClean, poolVars
<1>9. CASE DrainExit
  BY <1>1, <1>9 DEF DrainExit, poolVars
<1>10. CASE DrainEnd
  BY <1>1, <1>10 DEF DrainEnd, poolVars
<1>11. CASE UNCHANGED <<shutdown, ownerVars>>
  BY <1>1, <1>11 DEF ownerVars
<1>12. QED
  BY <1>2, <1>3, <1>4, <1>5, <1>6, <1>7, <1>8, <1>9, <1>10, <1>11
  DEF Next, Call, CallStep, OwnerStep, ConnDies, ConnDown, vars, poolVars,
      GiveUp, BorrowPanics, BorrowCheck, BorrowReceive, BorrowTimeout, SendAccepted,
      SendRefused, SendStalled, SendExit, Return, Push, ReturnBroken, CreateFresh,
      CreateFails, PushFresh, CleanCheck, CleanExit

LEMMA PcStep == ASSUME PoolInv, [Next]_vars PROVE PcInv'
<1>1. /\ CallerTypes /\ OwnerTypes /\ PcInv
      /\ clients \in [Pools -> Seq(Conns)] /\ NoConn \notin Conns
      /\ pool # 0 => pool \in Pools
  BY PoolAssumption DEF PoolInv, TypeOK, CallerTypes, OwnerTypes, Pools
<1>2. \A p \in Pools : clients[p] # <<>> => Head(clients[p]) \in Conns
  BY <1>1, TakeIn
<1>3. CallerTypes' /\ OwnerTypes'
  BY CallerTypesStep, OwnerTypesStep
<1> USE DEF PcInv, Carries, CallerTypes, OwnerTypes, Goto, Leave
<1>4. ASSUME NEW g \in Callers, Call(g) PROVE PcInv'
  BY <1>1, <1>2, <1>3, <1>4 DEF Call, ownerVars
<1>5. ASSUME NEW g \in Callers, GiveUp(g) PROVE PcInv'
  BY <1>1, <1>2, <1>3, <1>5 DEF GiveUp, ownerVars
<1>6. ASSUME NEW g \in Callers, BorrowPanics(g) PROVE PcInv'
  BY <1>1, <1>2, <1>3, <1>6 DEF BorrowPanics, ownerVars
<1>7. ASSUME NEW g \in Callers, BorrowCheck(g) PROVE PcInv'
  BY <1>1, <1>2, <1>3, <1>7 DEF BorrowCheck, ownerVars
<1>8. ASSUME NEW g \in Callers, BorrowReceive(g) PROVE PcInv'
  BY <1>1, <1>2, <1>3, <1>8 DEF BorrowReceive, ownerVars
<1>9. ASSUME NEW g \in Callers, BorrowTimeout(g) PROVE PcInv'
  BY <1>1, <1>2, <1>3, <1>9 DEF BorrowTimeout, ownerVars
<1>10. ASSUME NEW g \in Callers, SendAccepted(g) PROVE PcInv'
  BY <1>1, <1>2, <1>3, <1>10 DEF SendAccepted, ownerVars
<1>11. ASSUME NEW g \in Callers, SendRefused(g) PROVE PcInv'
  BY <1>1, <1>2, <1>3, <1>11 DEF SendRefused, ownerVars
<1>12. ASSUME NEW g \in Callers, SendStalled(g) PROVE PcInv'
  <2>1. pc' = [pc EXCEPT ![g] = "sendExit"] \/ pc' = [pc EXCEPT ![g] = "returnBroken"]
    BY <1>12 DEF SendStalled
  <2>2. /\ pc[g] = "send" /\ UNCHANGED <<pool, work, owner, ownerConn, at, held, fresh>>
    BY <1>12 DEF SendStalled, poolVars, ownerVars
  <2> QED
    BY <1>1, <2>1, <2>2
<1>13. ASSUME NEW g \in Callers, SendExit(g) PROVE PcInv'
  BY <1>1, <1>2, <1>3, <1>13 DEF SendExit, ownerVars
<1>14. ASSUME NEW g \in Callers, Return(g) PROVE PcInv'
  BY <1>1, <1>2, <1>3, <1>14 DEF Return, ownerVars
<1>15. ASSUME NEW g \in Callers, Push(g) PROVE PcInv'
  BY <1>1, <1>2, <1>3, <1>15 DEF Push, ownerVars
<1>16. ASSUME NEW g \in Callers, ReturnBroken(g) PROVE PcInv'
  BY <1>1, <1>2, <1>3, <1>16 DEF ReturnBroken, ownerVars
<1>17. ASSUME NEW g \in Callers, CreateFresh(g) PROVE PcInv'
  BY <1>1, <1>2, <1>3, <1>17 DEF CreateFresh, ownerVars
<1>18. ASSUME NEW g \in Callers, CreateFails(g) PROVE PcInv'
  BY <1>1, <1>2, <1>3, <1>18 DEF CreateFails, ownerVars
<1>19. ASSUME NEW g \in Callers, PushFresh(g) PROVE PcInv'
  BY <1>1, <1>2, <1>3, <1>19 DEF PushFresh, ownerVars
<1>20. ASSUME NEW g \in Callers, CleanCheck(g) PROVE PcInv'
  <2>1. /\ pc[g] = "clean" /\ UNCHANGED <<pool, work, owner, ownerConn, at, fresh>>
    BY <1>20 DEF CleanCheck, poolVars, ownerVars
  <2>2. \/ pc' = [pc EXCEPT ![g] = "cleanExit"] /\ held' = held
        \/ pc' = [pc EXCEPT ![g] = "idle"] /\ held' = [held EXCEPT ![g] = NoConn]
    BY <1>20 DEF CleanCheck
  <2>3. CASE pc' = [pc EXCEPT ![g] = "cleanExit"] /\ held' = held
    BY <1>1, <2>1, <2>3
  <2>4. CASE pc' = [pc EXCEPT ![g] = "idle"] /\ held' = [held EXCEPT ![g] = NoConn]
    BY <1>1, <2>1, <2>4
  <2> QED
    BY <2>2, <2>3, <2>4
<1>21. ASSUME NEW g \in Callers, CleanExit(g) PROVE PcInv'
  BY <1>1, <1>2, <1>3, <1>21 DEF CleanExit, ownerVars
<1>22. CASE Connect
  BY <1>1, <1>2, <1>3, <1>22 DEF Connect, callerVars, ownerVars, Pools
<1>23. CASE Close
  BY <1>1, <1>2, <1>3, <1>23 DEF Close, callerVars, ownerVars, Pools
<1>24. CASE DialOne
  BY <1>1, <1>2, <1>3, <1>24 DEF DialOne, callerVars, ownerVars, Pools
<1>25. CASE DialFails
  BY <1>1, <1>2, <1>3, <1>25 DEF DialFails, callerVars, ownerVars, Pools
<1>26. CASE ConnectDone
  BY <1>1, <1>2, <1>3, <1>26 DEF ConnectDone, callerVars, ownerVars, Pools
<1>27. CASE DrainOne
  BY <1>1, <1>2, <1>3, <1>27 DEF DrainOne, callerVars, ownerVars, Pools
<1>28. CASE DrainClean
  BY <1>1, <1>2, <1>3, <1>28 DEF DrainClean, callerVars, ownerVars, Pools
<1>29. CASE DrainExit
  BY <1>1, <1>2, <1>3, <1>29 DEF DrainExit, callerVars, ownerVars, Pools
<1>30. CASE DrainEnd
  BY <1>1, <1>2, <1>3, <1>30 DEF DrainEnd, callerVars, ownerVars, Pools
<1>31. CASE UNCHANGED <<callerVars, ownerVars>>
  BY <1>1, <1>31 DEF callerVars, ownerVars
<1>32. QED
  BY <1>4, <1>5, <1>6, <1>7, <1>8, <1>9, <1>10, <1>11, <1>12, <1>13, <1>14, <1>15, <1>16,
     <1>17, <1>18, <1>19, <1>20, <1>21, <1>22, <1>23, <1>24, <1>25, <1>26, <1>27, <1>28,
     <1>29, <1>30, <1>31
  DEF Next, CallStep, OwnerStep, ConnDies, ConnDown, vars
-----------------------------------------------------------------------------
(* A connection is taken from the channel of a pool, or put in.            *)
Channels ==
  /\ clients \in [Pools -> Seq(Conns)]
  /\ \A q \in Pools : Distinct(clients[q]) /\ Len(clients[q]) <= Size
  /\ late \subseteq Conns

Taken(p, c) ==
  /\ Channels' /\ In(clients[p], c)
  /\ \A q \in Pools, d \in Conns :
       In(clients'[q], d) <=> In(clients[q], d) /\ ~(q = p /\ d = c)

LatePut(p, c) ==
  late' = IF shutdown[p] /\ work # p THEN late \cup {c} ELSE late

Given(p, c) ==
  /\ Channels'
  /\ \A q \in Pools, d \in Conns :
       In(clients'[q], d) <=> In(clients[q], d) \/ (q = p /\ d = c)

(* What the steps that move a connection do to the channels.               *)
LEMMA Receives ==
  ASSUME PoolInv, NEW g \in Callers, BorrowReceive(g)
  PROVE  \E p \in Pools, c \in Conns :
           /\ Taken(p, c) /\ held[g] = NoConn /\ late' = late \ {c}
           /\ held' = [held EXCEPT ![g] = c] /\ UNCHANGED <<conn, fresh, ownerConn>>
<1>1. at[g] \in Pools /\ held[g] = NoConn /\ clients[at[g]] # <<>>
  BY DEF BorrowReceive, Goto, PoolInv, PcInv, Carries, TypeOK
<1>2. /\ clients' = [clients EXCEPT ![at[g]] = Tail(@)]
      /\ held' = [held EXCEPT ![g] = Head(clients[at[g]])]
      /\ late' = late \ {Head(clients[at[g]])}
      /\ UNCHANGED <<conn, fresh, ownerConn>>
  BY DEF BorrowReceive, ownerVars
<1>3. TypeOK /\ \A q \in Pools : Distinct(clients[q])
  BY DEF PoolInv, Separate
<1>4. Taken(at[g], Head(clients[at[g]])) /\ Head(clients[at[g]]) \in Conns
  BY <1>1, <1>2, <1>3, SlotTaken DEF Taken, Channels, TypeOK
<1>5. QED
  BY <1>1, <1>2, <1>3, <1>4

LEMMA Drains ==
  ASSUME PoolInv, DrainOne
  PROVE  \E p \in Pools, c \in Conns :
           /\ Taken(p, c) /\ ownerConn = NoConn /\ late' = late \ {c}
           /\ ownerConn' = c /\ UNCHANGED <<conn, held, fresh>>
<1>1. work \in Pools /\ ownerConn = NoConn /\ clients[work] # <<>>
  BY DEF DrainOne, PoolInv, PcInv, TypeOK
<1>2. /\ clients' = [clients EXCEPT ![work] = Tail(@)]
      /\ ownerConn' = Head(clients[work]) /\ late' = late \ {Head(clients[work])}
      /\ UNCHANGED <<conn, held, fresh>>
  BY DEF DrainOne, callerVars
<1>3. TypeOK /\ \A q \in Pools : Distinct(clients[q])
  BY DEF PoolInv, Separate
<1>4. Taken(work, Head(clients[work])) /\ Head(clients[work]) \in Conns
  BY <1>1, <1>2, <1>3, SlotTaken DEF Taken, Channels, TypeOK
<1>5. QED
  BY <1>1, <1>2, <1>3, <1>4

LEMMA Gives ==
  ASSUME PoolInv, NEW g \in Callers, Push(g)
  PROVE  \E p \in Pools, c \in Conns :
           /\ ~InSlot(c) /\ held[g] = c /\ fresh[g] = NoConn
           /\ held' = [held EXCEPT ![g] = NoConn] /\ UNCHANGED <<conn, fresh, ownerConn>>
           /\ Given(p, c) /\ LatePut(p, c) /\ p = at[g]
<1>1. /\ at[g] \in Pools /\ held[g] \in Conns /\ fresh[g] = NoConn
      /\ Len(clients[at[g]]) < Size
  BY DEF Push, Put, Goto, PoolInv, PcInv, Carries, TypeOK
<1>2. /\ clients' = [clients EXCEPT ![at[g]] = Append(@, held[g])]
      /\ held' = [held EXCEPT ![g] = NoConn] /\ LatePut(at[g], held[g])
      /\ UNCHANGED <<conn, fresh, ownerConn>>
  BY DEF Push, Put, LatePut, ownerVars
<1>3. TypeOK /\ (\A q \in Pools : Distinct(clients[q])) /\ ~InSlot(held[g])
  BY <1>1, PoolAssumption DEF PoolInv, Separate
<1>4. Given(at[g], held[g]) /\ held[g] \in Conns
  BY <1>1, <1>2, <1>3, SlotGiven DEF Given, Channels, PoolInv, TypeOK, LatePut
<1>5. QED
  BY <1>1, <1>2, <1>3, <1>4

LEMMA GivesFresh ==
  ASSUME PoolInv, NEW g \in Callers, PushFresh(g)
  PROVE  \E p \in Pools, c \in Conns :
           /\ ~InSlot(c) /\ fresh[g] = c
           /\ fresh' = [fresh EXCEPT ![g] = NoConn] /\ UNCHANGED <<conn, held, ownerConn>>
           /\ Given(p, c) /\ LatePut(p, c) /\ p = at[g]
<1>1. at[g] \in Pools /\ fresh[g] \in Conns /\ Len(clients[at[g]]) < Size
  BY DEF PushFresh, Put, Goto, PoolInv, PcInv, TypeOK
<1>2. /\ clients' = [clients EXCEPT ![at[g]] = Append(@, fresh[g])]
      /\ fresh' = [fresh EXCEPT ![g] = NoConn] /\ LatePut(at[g], fresh[g])
      /\ UNCHANGED <<conn, held, ownerConn>>
  BY DEF PushFresh, Put, LatePut, ownerVars
<1>3. TypeOK /\ (\A q \in Pools : Distinct(clients[q])) /\ ~InSlot(fresh[g])
  BY <1>1, PoolAssumption DEF PoolInv, Separate
<1>4. Given(at[g], fresh[g]) /\ fresh[g] \in Conns
  BY <1>1, <1>2, <1>3, SlotGiven DEF Given, Channels, PoolInv, TypeOK, LatePut
<1>5. QED
  BY <1>1, <1>2, <1>3, <1>4

LEMMA Dials ==
  ASSUME PoolInv, DialOne
  PROVE  \E p \in Pools, c \in Conns :
           /\ ~Somewhere(c) /\ conn[c] = "none" /\ conn' = [conn EXCEPT ![c] = "up"]
           /\ UNCHANGED <<held, fresh, ownerConn, late>>
           /\ Given(p, c) /\ p = work
<1>1. PICK c \in Conns : Dial(c) /\ clients' = [clients EXCEPT ![work] = Append(@, c)]
  BY DEF DialOne
<1>2. work \in Pools /\ Len(clients[work]) < Size /\ UNCHANGED <<held, fresh, ownerConn, late>>
  BY DEF DialOne, PoolInv, PcInv, callerVars, ownerVars
<1>3. conn[c] = "none" /\ conn' = [conn EXCEPT ![c] = "up"] /\ ~Somewhere(c)
  BY <1>1 DEF Dial, PoolInv, Accounted
<1>4. TypeOK /\ (\A q \in Pools : Distinct(clients[q])) /\ ~InSlot(c)
  BY <1>3 DEF PoolInv, Separate, Somewhere
<1>5. Given(work, c) /\ c \in Conns
  BY <1>1, <1>2, <1>3, <1>4, SlotGiven DEF Given, Channels, TypeOK
<1>6. QED
  BY <1>1, <1>2, <1>3, <1>4, <1>5

LEMMA Creates ==
  ASSUME PoolInv, NEW g \in Callers, CreateFresh(g)
  PROVE  \E c \in Conns :
           /\ ~Somewhere(c) /\ conn[c] = "none" /\ conn' = [conn EXCEPT ![c] = "up"]
           /\ fresh[g] = NoConn /\ fresh' = [fresh EXCEPT ![g] = c]
           /\ UNCHANGED <<clients, held, ownerConn, late>>
  BY DEF CreateFresh, Dial, Goto, PoolInv, PcInv, Accounted, poolVars, ownerVars

-----------------------------------------------------------------------------
(* The channels keep their types and lengths, whatever moves.              *)
LEMMA ChannelStep ==
  ASSUME PoolInv, [Next]_vars
  PROVE  Channels' /\ conn' \in [Conns -> {"none", "up", "exiting", "down"}]
<1>1. Channels /\ conn \in [Conns -> {"none", "up", "exiting", "down"}]
  BY DEF PoolInv, TypeOK, Separate, Channels
<1>2. Quiet \/ DialOne \/ DrainOne \/ OwnerForgets \/ \E g \in Callers : Moves(g)
  BY StepKinds
<1>3. CASE Quiet \/ OwnerForgets
  BY <1>1, <1>3 DEF Quiet, OwnerForgets, ConnKeeps, Channels
<1>4. CASE DialOne
  BY <1>1, <1>4, Dials DEF Taken, Given
<1>5. CASE DrainOne
  BY <1>1, <1>5, Drains DEF Taken, Given
<1>6. ASSUME NEW g \in Callers, Moves(g)
      PROVE  Channels' /\ conn' \in [Conns -> {"none", "up", "exiting", "down"}]
  <2>1. CASE BorrowReceive(g)
    BY <1>1, <2>1, Receives DEF Taken, Given
  <2>2. CASE Push(g)
    BY <1>1, <2>2, Gives DEF Taken, Given
  <2>3. CASE CreateFresh(g)
    BY <1>1, <2>3, Creates DEF Channels
  <2>4. CASE PushFresh(g)
    BY <1>1, <2>4, GivesFresh DEF Taken, Given
  <2>5. CASE Forgets(g)
    BY <1>1, <2>5 DEF Forgets, ConnKeeps, Channels
  <2>6. QED
    BY <1>6, <2>1, <2>2, <2>3, <2>4, <2>5 DEF Moves
<1>7. QED
  BY <1>2, <1>3, <1>4, <1>5, <1>6

LEMMA TypeStep == ASSUME PoolInv, [Next]_vars PROVE TypeOK'
  BY CallerTypesStep, OwnerTypesStep, ChannelStep
  DEF TypeOK, CallerTypes, OwnerTypes, Channels
-----------------------------------------------------------------------------
LEMMA SeparateStep == ASSUME PoolInv, [Next]_vars PROVE Separate'
<1>1. /\ held \in [Callers -> Conns \cup {NoConn}] /\ fresh \in [Callers -> Conns \cup {NoConn}]
      /\ ownerConn \in Conns \cup {NoConn} /\ Separate /\ NoConn \notin Conns
  BY PoolAssumption DEF PoolInv, TypeOK
<1>2. Quiet \/ DialOne \/ DrainOne \/ OwnerForgets \/ \E g \in Callers : Moves(g)
  BY StepKinds
<1>3. \A p \in Pools : Distinct(clients'[p])
  BY ChannelStep DEF Channels
<1> USE DEF Separate, InSlot
<1>4. CASE Quiet
  BY <1>1, <1>3, <1>4 DEF Quiet
<1>5. CASE OwnerForgets
  BY <1>1, <1>3, <1>5 DEF OwnerForgets
<1>6. CASE DialOne
  <2>1. PICK p \in Pools, c \in Conns :
          ~Somewhere(c) /\ Given(p, c) /\ UNCHANGED <<held, fresh, ownerConn>>
    BY <1>6, Dials
  <2>2. QED
    BY <1>1, <1>3, <2>1 DEF Given, Somewhere
<1>7. CASE DrainOne
  <2>1. PICK p \in Pools, c \in Conns :
          Taken(p, c) /\ ownerConn' = c /\ UNCHANGED <<held, fresh>>
    BY <1>7, Drains
  <2>2. QED
    BY <1>1, <1>3, <2>1 DEF Taken
<1>8. ASSUME NEW g \in Callers, BorrowReceive(g) PROVE Separate'
  <2>1. PICK p \in Pools, c \in Conns :
          /\ Taken(p, c) /\ held[g] = NoConn /\ held' = [held EXCEPT ![g] = c]
          /\ UNCHANGED <<fresh, ownerConn>>
    BY <1>8, Receives
  <2>2. /\ \A h \in Callers : held'[h] = IF h = g THEN c ELSE held[h]
        /\ ~InSlot(c)' /\ ownerConn' # c /\ \A h \in Callers : fresh'[h] # c /\ held[h] # c
    BY <1>1, <2>1 DEF Taken
  <2>3. QED
    BY <1>1, <1>3, <2>1, <2>2 DEF Taken
<1>9. ASSUME NEW g \in Callers, Push(g) PROVE Separate'
  <2>1. PICK p \in Pools, c \in Conns :
          /\ ~InSlot(c) /\ Given(p, c) /\ held[g] = c /\ held' = [held EXCEPT ![g] = NoConn]
          /\ UNCHANGED <<fresh, ownerConn>>
    BY <1>9, Gives
  <2>2. \A h \in Callers : held'[h] = IF h = g THEN NoConn ELSE held[h]
    BY <1>1, <2>1
  <2>3. QED
    BY <1>1, <1>3, <2>1, <2>2 DEF Given
<1>10. ASSUME NEW g \in Callers, PushFresh(g) PROVE Separate'
  <2>1. PICK p \in Pools, c \in Conns :
          /\ ~InSlot(c) /\ Given(p, c) /\ fresh[g] = c /\ fresh' = [fresh EXCEPT ![g] = NoConn]
          /\ UNCHANGED <<held, ownerConn>>
    BY <1>10, GivesFresh
  <2>2. \A h \in Callers : fresh'[h] = IF h = g THEN NoConn ELSE fresh[h]
    BY <1>1, <2>1
  <2>3. QED
    BY <1>1, <1>3, <2>1, <2>2 DEF Given
<1>11. ASSUME NEW g \in Callers, CreateFresh(g) PROVE Separate'
  <2>1. PICK c \in Conns :
          /\ ~Somewhere(c) /\ fresh' = [fresh EXCEPT ![g] = c]
          /\ UNCHANGED <<clients, held, ownerConn>>
    BY <1>11, Creates
  <2>2. \A h \in Callers : fresh'[h] = IF h = g THEN c ELSE fresh[h]
    BY <1>1, <2>1
  <2>3. QED
    BY <1>1, <1>3, <2>1, <2>2 DEF Somewhere
<1>12. ASSUME NEW g \in Callers, Forgets(g) PROVE Separate'
  <2>1. \A h \in Callers : held'[h] = IF h = g THEN NoConn ELSE held[h]
    BY <1>1, <1>12 DEF Forgets
  <2>2. QED
    BY <1>1, <1>3, <1>12, <2>1 DEF Forgets
<1>13. QED
  BY <1>2, <1>4, <1>5, <1>6, <1>7, <1>8, <1>9, <1>10, <1>11, <1>12 DEF Moves

LEMMA AccountedStep == ASSUME PoolInv, [Next]_vars PROVE Accounted'
<1>1. /\ held \in [Callers -> Conns \cup {NoConn}] /\ fresh \in [Callers -> Conns \cup {NoConn}]
      /\ conn \in [Conns -> {"none", "up", "exiting", "down"}]
      /\ Accounted /\ NoConn \notin Conns
  BY PoolAssumption DEF PoolInv, TypeOK
<1>2. Quiet \/ DialOne \/ DrainOne \/ OwnerForgets \/ \E g \in Callers : Moves(g)
  BY StepKinds
<1> USE DEF Accounted, Somewhere, InSlot
<1>3. CASE Quiet
  BY <1>1, <1>3 DEF Quiet, ConnKeeps
<1>4. CASE OwnerForgets
  BY <1>1, <1>4 DEF OwnerForgets, ConnKeeps
<1>5. CASE DialOne
  <2>1. PICK p \in Pools, c \in Conns :
          /\ Given(p, c) /\ conn' = [conn EXCEPT ![c] = "up"]
          /\ UNCHANGED <<held, fresh, ownerConn>>
    BY <1>5, Dials
  <2>2. \A d \in Conns : conn'[d] = IF d = c THEN "up" ELSE conn[d]
    BY <1>1, <2>1
  <2>3. QED
    BY <1>1, <2>1, <2>2 DEF Given
<1>6. CASE DrainOne
  <2>1. PICK p \in Pools, c \in Conns :
          /\ Taken(p, c) /\ ownerConn = NoConn /\ ownerConn' = c
          /\ UNCHANGED <<conn, held, fresh>>
    BY <1>6, Drains
  <2>2. QED
    BY <1>1, <2>1 DEF Taken
<1>7. ASSUME NEW g \in Callers, BorrowReceive(g) PROVE Accounted'
  <2>1. PICK p \in Pools, c \in Conns :
          /\ Taken(p, c) /\ held[g] = NoConn /\ held' = [held EXCEPT ![g] = c]
          /\ UNCHANGED <<conn, fresh, ownerConn>>
    BY <1>7, Receives
  <2>2. \A h \in Callers : held'[h] = IF h = g THEN c ELSE held[h]
    BY <1>1, <2>1
  <2>3. QED
    BY <1>1, <2>1, <2>2 DEF Taken
<1>8. ASSUME NEW g \in Callers, Push(g) PROVE Accounted'
  <2>1. PICK p \in Pools, c \in Conns :
          /\ Given(p, c) /\ held[g] = c /\ held' = [held EXCEPT ![g] = NoConn]
          /\ UNCHANGED <<conn, fresh, ownerConn>>
    BY <1>8, Gives
  <2>2. \A h \in Callers : held'[h] = IF h = g THEN NoConn ELSE held[h]
    BY <1>1, <2>1
  <2>3. QED
    BY <1>1, <2>1, <2>2 DEF Given
<1>9. ASSUME NEW g \in Callers, PushFresh(g) PROVE Accounted'
  <2>1. PICK p \in Pools, c \in Conns :
          /\ Given(p, c) /\ fresh[g] = c /\ fresh' = [fresh EXCEPT ![g] = NoConn]
          /\ UNCHANGED <<conn, held, ownerConn>>
    BY <1>9, GivesFresh
  <2>2. \A h \in Callers : fresh'[h] = IF h = g THEN NoConn ELSE fresh[h]
    BY <1>1, <2>1
  <2>3. QED
    BY <1>1, <2>1, <2>2 DEF Given
<1>10. ASSUME NEW g \in Callers, CreateFresh(g) PROVE Accounted'
  <2>1. PICK c \in Conns :
          /\ conn' = [conn EXCEPT ![c] = "up"] /\ fresh[g] = NoConn
          /\ fresh' = [fresh EXCEPT ![g] = c] /\ UNCHANGED <<clients, held, ownerConn>>
    BY <1>10, Creates
  <2>2. /\ \A h \in Callers : fresh'[h] = IF h = g THEN c ELSE fresh[h]
        /\ \A d \in Conns : conn'[d] = IF d = c THEN "up" ELSE conn[d]
    BY <1>1, <2>1
  <2>3. QED
    BY <1>1, <2>1, <2>2
<1>11. ASSUME NEW g \in Callers, Forgets(g) PROVE Accounted'
  <2>1. \A h \in Callers : held'[h] = IF h = g THEN NoConn ELSE held[h]
    BY <1>1, <1>11 DEF Forgets
  <2>2. QED
    BY <1>1, <1>11, <2>1 DEF Forgets, ConnKeeps
<1>12. QED
  BY <1>2, <1>3, <1>4, <1>5, <1>6, <1>7, <1>8, <1>9, <1>10, <1>11 DEF Moves

LEMMA PoolInit == Init => PoolInv
<1> SUFFICES ASSUME Init PROVE PoolInv
  OBVIOUS
<1>1. Len(<<>>) = 0 /\ Retries * Size \in Nat /\ 0 <= Size
  BY PoolAssumption
<1>2. \A p \in Pools : clients[p] = <<>> /\ clients[p] \in Seq(Conns) /\ Len(clients[p]) = 0
  BY DEF Init
<1>3. TypeOK
  <2> DEFINE limit == Retries * Size
  <2>1. limit \in Nat
    BY <1>1
  <2> HIDE DEF limit
  <2>2. tries \in [Callers -> 0..limit]
    BY <2>1 DEF Init
  <2>3. clients \in [Pools -> Seq(Conns)] /\ \A p \in Pools : Len(clients[p]) <= Size
    BY <1>1, <1>2 DEF Init
  <2>4. QED
    BY <2>2, <2>3, PoolAssumption DEF Init, TypeOK, limit
<1>4. \A p \in Pools : Distinct(clients[p]) /\ \A c : ~In(clients[p], c)
  BY <1>2 DEF Distinct, In
<1>5. QED
  BY <1>3, <1>4, PoolAssumption
  DEF Init, PoolInv, PcInv, Carries, Separate, Accounted, Somewhere, InSlot

LEMMA PoolAlways == Spec => []PoolInv
<1>1. PoolInv /\ [Next]_vars => PoolInv'
  BY TypeStep, PcStep, SeparateStep, AccountedStep DEF PoolInv
<1>2. QED
  BY PoolInit, <1>1, PTL DEF Spec
-----------------------------------------------------------------------------
(* The types of the whole state.                                           *)
THEOREM TypeCorrect == Spec => []TypeOK
<1>1. PoolInv => TypeOK
  BY DEF PoolInv
<1>2. QED
  BY <1>1, PoolAlways, PTL

Slots(c) == {s \in Pools \X (1..Size) :
               s[2] <= Len(clients[s[1]]) /\ clients[s[1]][s[2]] = c}

LEMMA SlotsHold ==
  ASSUME TypeOK, NEW c, NEW s \in Slots(c)
  PROVE  s = <<s[1], s[2]>> /\ s[1] \in Pools /\ s[2] \in 1..Len(clients[s[1]])
         /\ clients[s[1]][s[2]] = c /\ In(clients[s[1]], c) /\ InSlot(c)
<1>1. /\ s = <<s[1], s[2]>> /\ s[1] \in Pools /\ s[2] \in 1..Size
      /\ s[2] <= Len(clients[s[1]]) /\ clients[s[1]][s[2]] = c
  BY DEF Slots
<1>2. clients[s[1]] \in Seq(Conns) /\ Len(clients[s[1]]) \in Nat
  BY <1>1, LenProperties DEF TypeOK
<1>3. s[2] \in 1..Len(clients[s[1]])
  BY <1>1, <1>2, PoolAssumption
<1>4. In(clients[s[1]], c)
  BY <1>1, <1>3 DEF In
<1>5. QED
  BY <1>1, <1>3, <1>4 DEF InSlot

LEMMA OneSlot ==
  ASSUME TypeOK, Separate, NEW c \in Conns, NEW s \in Slots(c), NEW t \in Slots(c)
  PROVE  s = t
<1>1. /\ s = <<s[1], s[2]>> /\ s[1] \in Pools /\ s[2] \in 1..Len(clients[s[1]])
      /\ clients[s[1]][s[2]] = c /\ In(clients[s[1]], c)
  BY SlotsHold
<1>2. /\ t = <<t[1], t[2]>> /\ t[1] \in Pools /\ t[2] \in 1..Len(clients[t[1]])
      /\ clients[t[1]][t[2]] = c /\ In(clients[t[1]], c)
  BY SlotsHold
<1>3. s[1] = t[1]
  BY <1>1, <1>2 DEF Separate
<1>4. s[2] = t[2]
  BY <1>1, <1>2, <1>3 DEF Separate, Distinct
<1>5. QED
  BY <1>1, <1>2, <1>3, <1>4

LEMMA PlacesAre ==
  ASSUME NEW c
  PROVE  \A x : x \in Places(c) <=> \/ \E s \in Slots(c) : x = <<"slot", s>>
                                    \/ \E g \in Callers : held[g] = c /\ x = <<"held", g>>
                                    \/ \E g \in Callers : fresh[g] = c /\ x = <<"fresh", g>>
                                    \/ ownerConn = c /\ x = <<"owner">>
  BY DEF Places, Slots

(* A connection is in one place at most: one slot of one pool, or one      *)
(* local variable of one goroutine.                                        *)
THEOREM OnePlaceCorrect == Spec => []OnePlace
<1>1. ASSUME PoolInv, NEW c \in Conns PROVE Cardinality(Places(c)) <= 1
  <2>1. TypeOK /\ Separate /\ c # NoConn
    BY <1>1, PoolAssumption DEF PoolInv
  <2>2. \A s \in Slots(c) : InSlot(c)
    BY <2>1, SlotsHold
  <2>3. \A s, t \in Slots(c) : s = t
    BY <2>1, OneSlot
  <2>4. \A g, h \in Callers : held[g] = c /\ held[h] = c => g = h
    BY <2>1 DEF Separate
  <2>5. \A g, h \in Callers : fresh[g] = c /\ fresh[h] = c => g = h
    BY <2>1 DEF Separate
  <2>6. \A g \in Callers : held[g] = c =>
          ~InSlot(c) /\ ownerConn # c /\ \A h \in Callers : fresh[h] # c
    BY <2>1 DEF Separate
  <2>7. \A g \in Callers : fresh[g] = c => ~InSlot(c) /\ ownerConn # c
    BY <2>1 DEF Separate
  <2>8. ownerConn = c => ~InSlot(c)
    BY <2>1 DEF Separate
  <2>9. \A x, y \in Places(c) : x = y
    BY <2>2, <2>3, <2>4, <2>5, <2>6, <2>7, <2>8, PlacesAre
  <2>10. Places(c) = {} \/ \E x : Places(c) = {x}
    BY <2>9
  <2>11. Places(c) = {} => Cardinality(Places(c)) = 0
    BY FS_EmptySet
  <2>12. ASSUME NEW x, Places(c) = {x} PROVE Cardinality(Places(c)) = 1
    BY <2>12, FS_Singleton
  <2>13. QED
    BY <2>10, <2>11, <2>12
<1>2. PoolInv => OnePlace
  BY <1>1 DEF OnePlace
<1>3. QED
  BY <1>2, PoolAlways, PTL
-----------------------------------------------------------------------------
(* What a step of a caller does to the number of connections that are owed *)
(* to the pool: only a shutdown writes one off.                            *)
OwedAlike == UNCHANGED clients /\ Owers' = Owers

WrittenOff(g) ==
  /\ UNCHANGED clients /\ g \in Owers /\ Owers' = Owers \ {g}
  /\ shutdown[pool] \/ (at[g] \in Pools /\ shutdown[at[g]])

OwesMore(g) ==
  /\ at[g] \in Pools /\ clients[at[g]] # <<>> /\ clients' = [clients EXCEPT ![at[g]] = Tail(@)]
  /\ g \notin Owers /\ Owers' = Owers \cup {g}

OwesLess(g) ==
  /\ at[g] \in Pools
  /\ \E c \in Conns : clients' = [clients EXCEPT ![at[g]] = Append(@, c)]
  /\ g \in Owers /\ Owers' = Owers \ {g}

LEMMA OwersMove ==
  ASSUME PoolInv, NEW g \in Callers, Call(g) \/ CallStep(g)
  PROVE  /\ UNCHANGED <<pool, built, work, shutdown, owner>>
         /\ \A h \in Callers : at'[h] = at[h] \/ at'[h] = 0 \/ at'[h] = pool
         /\ OwedAlike \/ WrittenOff(g) \/ OwesMore(g) \/ OwesLess(g)
         /\ OwesMore(g) => pool # 0
<1> DEFINE Kept == /\ UNCHANGED <<pool, built, work, shutdown, owner>>
                   /\ \A h \in Callers : at'[h] = at[h] \/ at'[h] = 0 \/ at'[h] = pool
<1>1. /\ pc \in [Callers -> {"idle", "borrow", "receive", "send", "sendExit", "return",
                             "push", "returnBroken", "create", "pushFresh", "clean",
                             "cleanExit", "panic"}]
      /\ at \in [Callers -> 0..MaxPools]
      /\ held \in [Callers -> Conns \cup {NoConn}] /\ fresh \in [Callers -> Conns \cup {NoConn}]
      /\ PcInv
  BY DEF PoolInv, TypeOK
<1>2. ASSUME NEW to, pc' = [pc EXCEPT ![g] = to]
      PROVE  \A h \in Callers : pc'[h] = IF h = g THEN to ELSE pc[h]
  BY <1>1, <1>2
<1> USE DEF Goto, Leave, Owers, Owing, poolVars, ownerVars
<1>3. ASSUME Call(g) PROVE Kept /\ OwedAlike
  BY <1>1, <1>3, PoolAssumption DEF Call, OwedAlike
<1>4. ASSUME GiveUp(g) PROVE Kept /\ OwedAlike
  BY <1>1, <1>4, PoolAssumption DEF GiveUp, OwedAlike
<1>5. ASSUME BorrowPanics(g) PROVE Kept /\ OwedAlike
  BY <1>1, <1>5, PoolAssumption DEF BorrowPanics, OwedAlike
<1>6. ASSUME BorrowCheck(g) PROVE Kept /\ OwedAlike
  BY <1>1, <1>6, PoolAssumption DEF BorrowCheck, OwedAlike
<1>7. ASSUME BorrowReceive(g) PROVE Kept /\ OwesMore(g) /\ pool # 0
  BY <1>1, <1>7, PoolAssumption DEF BorrowReceive, OwesMore, PcInv, Carries
<1>8. ASSUME BorrowTimeout(g) PROVE Kept /\ OwedAlike
  BY <1>1, <1>8, PoolAssumption DEF BorrowTimeout, OwedAlike
<1>9. ASSUME SendAccepted(g) PROVE Kept /\ OwedAlike
  BY <1>1, <1>9, PoolAssumption DEF SendAccepted, OwedAlike
<1>10. ASSUME SendRefused(g) PROVE Kept /\ OwedAlike
  BY <1>1, <1>10, PoolAssumption DEF SendRefused, OwedAlike
<1>11. ASSUME SendStalled(g) PROVE Kept /\ OwedAlike
  BY <1>1, <1>11, PoolAssumption DEF SendStalled, OwedAlike
<1>12. ASSUME SendExit(g) PROVE Kept /\ OwedAlike
  BY <1>1, <1>12, PoolAssumption DEF SendExit, OwedAlike
<1>13. ASSUME Return(g) PROVE Kept /\ (OwedAlike \/ WrittenOff(g))
  <2>1. CASE shutdown[pool]
    <3>1. Owers' = Owers \ {g} /\ g \in Owers
      BY <1>1, <1>13, <2>1 DEF Return
    <3> HIDE DEF Owers, Owing
    <3>2. WrittenOff(g)
      BY <1>13, <2>1, <3>1 DEF Return, WrittenOff
    <3>3. Kept
      BY <1>1, <1>13 DEF Return
    <3>4. QED
      BY <3>2, <3>3
  <2>2. CASE ~shutdown[pool]
    <3>1. Owers' = Owers
      BY <1>1, <1>13, <2>2 DEF Return
    <3>2. QED
      BY <1>1, <1>13, <2>2, <3>1 DEF Return, OwedAlike
  <2>3. QED
    BY <2>1, <2>2
<1>14. ASSUME Push(g) PROVE Kept /\ OwesLess(g)
  BY <1>1, <1>14, PoolAssumption DEF Push, Put, OwesLess, PcInv, Carries
<1>15. ASSUME ReturnBroken(g) PROVE Kept /\ (OwedAlike \/ WrittenOff(g))
  <2>1. CASE shutdown[pool]
    <3>1. Owers' = Owers \ {g} /\ g \in Owers
      BY <1>1, <1>15, <2>1 DEF ReturnBroken
    <3> HIDE DEF Owers, Owing
    <3>2. WrittenOff(g)
      BY <1>15, <2>1, <3>1 DEF ReturnBroken, WrittenOff
    <3>3. Kept
      BY <1>1, <1>15 DEF ReturnBroken
    <3>4. QED
      BY <3>2, <3>3
  <2>2. CASE ~shutdown[pool]
    <3>1. Owers' = Owers
      BY <1>1, <1>15, <2>2 DEF ReturnBroken
    <3>2. QED
      BY <1>1, <1>15, <2>2, <3>1 DEF ReturnBroken, OwedAlike
  <2>3. QED
    BY <2>1, <2>2
<1>16. ASSUME CreateFresh(g) PROVE Kept /\ OwedAlike
  BY <1>1, <1>16, PoolAssumption DEF CreateFresh, OwedAlike
<1>17. ASSUME CreateFails(g) PROVE Kept /\ (OwedAlike \/ WrittenOff(g))
  BY <1>1, <1>17, PoolAssumption DEF CreateFails, OwedAlike, WrittenOff, PcInv, Carries
<1>18. ASSUME PushFresh(g) PROVE Kept /\ OwesLess(g)
  BY <1>1, <1>18, PoolAssumption DEF PushFresh, Put, OwesLess, PcInv, Carries
<1>19. ASSUME CleanCheck(g) PROVE Kept /\ OwedAlike
  BY <1>1, <1>19, PoolAssumption DEF CleanCheck, OwedAlike
<1>20. ASSUME CleanExit(g) PROVE Kept /\ OwedAlike
  BY <1>1, <1>20, PoolAssumption DEF CleanExit, OwedAlike
<1>21. OwedAlike \/ WrittenOff(g) => ~OwesMore(g)
  BY DEF OwedAlike, WrittenOff, OwesMore
<1>22. OwesLess(g) => ~OwesMore(g)
  BY DEF OwesLess, OwesMore
<1>23. QED
  BY <1>3, <1>4, <1>5, <1>6, <1>7, <1>8, <1>9, <1>10, <1>11, <1>12, <1>13, <1>14, <1>15,
     <1>16, <1>17, <1>18, <1>19, <1>20, <1>21, <1>22 DEF CallStep

SizeKeeps == Len(clients[1]) + Cardinality(Owers) = Size
FirstPool == built = 1 /\ pool = 1 /\ ~shutdown[1]

LEMMA CallerSizeStep ==
  ASSUME PoolInv, SizeInv, NEW g \in Callers, Call(g) \/ CallStep(g)
  PROVE  SizeInv'
<1>1. /\ UNCHANGED <<pool, built, work, shutdown, owner>>
      /\ \A h \in Callers : at'[h] = at[h] \/ at'[h] = 0 \/ at'[h] = pool
      /\ OwedAlike \/ WrittenOff(g) \/ OwesMore(g) \/ OwesLess(g)
      /\ OwesMore(g) => pool # 0
  BY OwersMove
<1>2. /\ pool \in 0..MaxPools /\ built \in 0..MaxPools
      /\ clients \in [Pools -> Seq(Conns)]
      /\ FirstPool => 1 \in Pools /\ clients[1] \in Seq(Conns) /\ Len(clients[1]) \in Nat
      /\ IsFiniteSet(Owers) /\ Cardinality(Owers) \in Nat
      /\ FirstPool => owner = "idle" /\ SizeKeeps
  BY LenProperties, FS_CardinalityType, PoolAssumption
  DEF PoolInv, TypeOK, Pools, FirstPool, SizeInv, SizeKeeps
<1>3. pool' <= built' /\ work' <= built' /\ \A h \in Callers : at'[h] <= built'
  BY <1>1, <1>2, PoolAssumption DEF SizeInv
<1>4. (built' = 0 => \A p \in Pools : ~shutdown'[p]) /\ FirstPool' = FirstPool
  BY <1>1 DEF SizeInv, FirstPool
<1>5. /\ IsFiniteSet(Owers')
      /\ pool' = 0 => Owers' = {}
      /\ FirstPool => SizeKeeps'
  <2>1. CASE OwedAlike
    BY <1>1, <1>2, <2>1 DEF OwedAlike, SizeInv, SizeKeeps
  <2>2. CASE WrittenOff(g)
    <3>1. ~FirstPool
      BY <1>2, <2>2, PoolAssumption DEF WrittenOff, FirstPool, SizeInv, Pools
    <3>2. QED
      BY <1>1, <1>2, <2>2, <3>1, FS_RemoveElement DEF WrittenOff, SizeInv
  <2>3. CASE OwesMore(g)
    <3>1. IsFiniteSet(Owers') /\ Cardinality(Owers') = Cardinality(Owers) + 1
      BY <1>2, <2>3, FS_AddElement DEF OwesMore
    <3>2. FirstPool => at[g] = 1
      BY <1>2, <2>3, PoolAssumption DEF OwesMore, FirstPool, SizeInv, Pools
    <3>3. FirstPool => Len(clients'[1]) = Len(clients[1]) - 1
      BY <1>2, <2>3, <3>2, TakeIn DEF OwesMore
    <3>4. QED
      BY <1>1, <1>2, <2>3, <3>1, <3>3, PoolAssumption DEF SizeKeeps
  <2>4. CASE OwesLess(g)
    <3>1. IsFiniteSet(Owers') /\ Cardinality(Owers') = Cardinality(Owers) - 1
      BY <1>2, <2>4, FS_RemoveElement DEF OwesLess
    <3>2. FirstPool => at[g] = 1
      BY <1>2, <2>4, PoolAssumption DEF OwesLess, FirstPool, SizeInv, Pools
    <3>3. FirstPool => Len(clients'[1]) = Len(clients[1]) + 1
      BY <1>2, <2>4, <3>2, PutIn DEF OwesLess
    <3>4. pool = 0 => Owers' = {}
      BY <2>4 DEF OwesLess, SizeInv
    <3>5. QED
      BY <1>1, <1>2, <3>1, <3>3, <3>4, PoolAssumption DEF SizeKeeps
  <2>5. QED
    BY <1>1, <2>1, <2>2, <2>3, <2>4
<1>6. QED
  BY <1>1, <1>2, <1>3, <1>4, <1>5 DEF SizeInv, FirstPool, SizeKeeps

LEMMA OwnerSizeStep ==
  ASSUME PoolInv, SizeInv, Connect \/ Close \/ OwnerStep
  PROVE  SizeInv'
<1>1. /\ pool \in 0..MaxPools /\ built \in 0..MaxPools /\ work \in 0..MaxPools
      /\ shutdown \in [Pools -> BOOLEAN] /\ MaxPools \in Nat
      /\ at \in [Callers -> 0..MaxPools]
      /\ owner = "dial" \/ owner = "drain" => work \in Pools
      /\ pool # 0 => pool \in Pools
  BY PoolAssumption DEF PoolInv, TypeOK, PcInv, Pools
<1>2. FirstPool => owner = "idle" /\ SizeKeeps
  BY DEF SizeInv, FirstPool, SizeKeeps
<1>3. UNCHANGED callerVars => Owers' = Owers /\ at' = at
  BY DEF callerVars, Owers, Owing
<1>4. ASSUME Owers' = Owers, at' = at, built <= built', built' \in Nat,
             pool' <= built', work' <= built', pool' = 0 => pool = 0,
             built' = 0 => \A p \in Pools : ~shutdown'[p],
             FirstPool' => owner' = "idle" /\ SizeKeeps'
      PROVE  SizeInv'
  BY <1>1, <1>4 DEF SizeInv, FirstPool, SizeKeeps
<1> USE DEF FirstPool
<1>5. CASE Connect
  BY <1>1, <1>3, <1>4, <1>5 DEF Connect, SizeInv, poolVars
<1>6. CASE Close
  BY <1>1, <1>2, <1>3, <1>4, <1>6 DEF Close, SizeInv, SizeKeeps
<1>7. CASE DialOne
  BY <1>1, <1>2, <1>3, <1>4, <1>7 DEF DialOne, SizeInv, ownerVars
<1>8. CASE DialFails
  BY <1>1, <1>2, <1>3, <1>4, <1>8 DEF DialFails, SizeInv, Pools
<1>9. CASE ConnectDone
  <2>1. FirstPool' => Len(clients'[1]) = Size /\ Owers = {} /\ owner' = "idle"
    BY <1>1, <1>2, <1>9 DEF ConnectDone, SizeInv, poolVars, Pools
  <2>2. FirstPool' => Owers' = {} /\ Cardinality(Owers') = 0
    BY <2>1, <1>3, <1>9, FS_EmptySet DEF ConnectDone
  <2>3. FirstPool' => SizeKeeps'
    BY <2>1, <2>2, PoolAssumption DEF SizeKeeps
  <2>4. Owers' = Owers /\ at' = at /\ work \in Pools /\ work # 0
    BY <1>1, <1>3, <1>9 DEF ConnectDone, Pools
  <2>5. /\ built' = built /\ pool' = work /\ work' = 0 /\ shutdown' = shutdown
        /\ work <= built /\ built # 0
    BY <1>1, <1>9, <2>4 DEF ConnectDone, SizeInv, poolVars, Pools
  <2>6. QED
    BY <1>1, <1>4, <2>1, <2>3, <2>4, <2>5
<1>10. CASE DrainOne
  BY <1>1, <1>2, <1>3, <1>4, <1>10 DEF DrainOne, SizeInv
<1>11. CASE DrainClean
  BY <1>1, <1>2, <1>3, <1>4, <1>11 DEF DrainClean, SizeInv, poolVars
<1>12. CASE DrainExit
  BY <1>1, <1>2, <1>3, <1>4, <1>12 DEF DrainExit, SizeInv, poolVars
<1>13. CASE DrainEnd
  BY <1>1, <1>2, <1>3, <1>4, <1>13 DEF DrainEnd, SizeInv, poolVars
<1>14. QED
  BY <1>5, <1>6, <1>7, <1>8, <1>9, <1>10, <1>11, <1>12, <1>13 DEF OwnerStep

LEMMA SizeAlways == Spec => []SizeInv
<1>1. Init => SizeInv
  <2> SUFFICES ASSUME Init PROVE SizeInv
    OBVIOUS
  <2>1. Owers = {}
    BY DEF Init, Owers, Owing
  <2>2. QED
    BY <2>1, FS_EmptySet DEF Init, SizeInv
<1>2. PoolInv /\ SizeInv /\ [Next]_vars => SizeInv'
  <2> SUFFICES ASSUME PoolInv, SizeInv, [Next]_vars PROVE SizeInv'
    OBVIOUS
  <2>1. ASSUME NEW g \in Callers, Call(g) \/ CallStep(g) PROVE SizeInv'
    BY <2>1, CallerSizeStep
  <2>2. CASE Connect \/ Close \/ OwnerStep
    BY <2>2, OwnerSizeStep
  <2>3. CASE UNCHANGED <<poolVars, callerVars, ownerVars>>
    BY <2>3 DEF SizeInv, Owers, Owing, poolVars, callerVars, ownerVars
  <2>4. QED
    BY <2>1, <2>2, <2>3 DEF Next, ConnDies, ConnDown, vars
<1>3. QED
  BY <1>1, <1>2, PoolAlways, PTL DEF Spec

(* Until it is shut down, the first pool has its Size connections, in its  *)
(* channel or with the callers that owe it one: a broken one is replaced,  *)
(* or comes back.                                                          *)
THEOREM SizeKeptCorrect == Spec => []SizeKept
<1>1. SizeInv => SizeKept
  BY DEF SizeInv, SizeKept, Owers
<1>2. QED
  BY <1>1, SizeAlways, PTL
-----------------------------------------------------------------------------
(* The pools that somebody still looks into, and what the owner relies on: *)
(* at most one is open, and the one that Connect fills is not shut down.   *)
Housed(p) == p = work \/ (p = pool /\ ~shutdown[p])

OpenInv ==
  /\ owner \in {"idle", "panic"} => work = 0
  /\ closed \/ owner = "dial" => pool = 0 \/ shutdown[pool]
  /\ owner = "dial" => ~shutdown[work] /\ ~closed
  /\ owner \in {"drain", "clean", "cleanExit"} => shutdown[work]
  /\ \A p \in Pools : IF p > built THEN ~shutdown[p] ELSE shutdown[p] \/ p = pool \/ p = work

LateInv ==
  \A p \in Pools, c \in Conns : In(clients[p], c) => Housed(p) \/ c \in late

LEMMA OpenStep == ASSUME PoolInv, SizeInv, OpenInv, [Next]_vars PROVE OpenInv'
<1>1. /\ pool \in 0..MaxPools /\ built \in 0..MaxPools /\ work \in 0..MaxPools
      /\ shutdown \in [Pools -> BOOLEAN] /\ MaxPools \in Nat /\ Pools = 1..MaxPools
      /\ pool <= built /\ work <= built
      /\ owner \in {"dial", "drain", "clean", "cleanExit"} => work \in Pools
  BY PoolAssumption DEF PoolInv, TypeOK, PcInv, SizeInv, Pools
<1>2. ASSUME UNCHANGED <<closed, pool, built, work, owner, shutdown>> PROVE OpenInv'
  BY <1>2 DEF OpenInv
<1> USE DEF OpenInv
<1>3. CASE Connect
  BY <1>1, <1>3 DEF Connect, poolVars
<1>4. CASE Close
  BY <1>1, <1>4 DEF Close
<1>5. CASE DialFails
  BY <1>1, <1>5 DEF DialFails
<1>6. CASE ConnectDone
  <2>1. /\ owner = "dial" /\ owner' = "idle" /\ pool' = work /\ work' = 0 /\ work \in Pools
        /\ UNCHANGED <<closed, shutdown, built>>
    BY <1>1, <1>6 DEF ConnectDone, poolVars
  <2>2. ~closed
    BY <2>1
  <2>3. QED
    BY <1>1, <2>1
<1>7. CASE DrainOne
  BY <1>1, <1>7 DEF DrainOne
<1>8. CASE DrainClean
  BY <1>1, <1>8 DEF DrainClean, poolVars
<1>9. CASE DrainExit
  BY <1>1, <1>9 DEF DrainExit, poolVars
<1>10. CASE DrainEnd
  BY <1>1, <1>10 DEF DrainEnd, poolVars
<1>11. ASSUME NEW g \in Callers, Call(g) \/ CallStep(g) PROVE OpenInv'
  <2>1. UNCHANGED <<pool, built, work, shutdown, owner>>
    BY <1>11, OwersMove
  <2>2. UNCHANGED closed
    BY <1>11 DEF ownerVars, Call, CallStep, GiveUp, BorrowPanics, BorrowCheck, BorrowReceive,
       BorrowTimeout, SendAccepted, SendRefused, SendStalled, SendExit, Return, Push,
       ReturnBroken, CreateFresh, CreateFails, PushFresh, CleanCheck, CleanExit
  <2>3. QED
    BY <2>1, <2>2, <1>2
<1>12. CASE UNCHANGED <<poolVars, ownerVars>> \/ DialOne
  BY <1>2, <1>12 DEF poolVars, ownerVars, DialOne
<1>13. QED
  BY <1>3, <1>4, <1>5, <1>6, <1>7, <1>8, <1>9, <1>10, <1>11, <1>12
  DEF Next, OwnerStep, ConnDies, ConnDown, vars

(* The steps that move no connection keep the pools of the others in view, *)
(* or leave them empty.                                                    *)
LEMMA HousedStep ==
  ASSUME PoolInv, SizeInv, OpenInv, [Next]_vars, NEW p \in Pools, Housed(p)
  PROVE  Housed(p)' \/ (UNCHANGED clients /\ clients[p] = <<>>)
<1>1. /\ pool \in 0..MaxPools /\ work \in 0..MaxPools /\ Pools = 1..MaxPools
      /\ shutdown \in [Pools -> BOOLEAN] /\ MaxPools \in Nat
      /\ owner \in {"dial", "drain", "clean", "cleanExit"} => work \in Pools
  BY PoolAssumption DEF PoolInv, TypeOK, PcInv, Pools
<1>2. ASSUME UNCHANGED <<pool, work, shutdown>> PROVE Housed(p)'
  BY <1>2 DEF Housed
<1> USE DEF OpenInv, Housed
<1>3. CASE Connect
  BY <1>1, <1>3 DEF Connect, poolVars
<1>4. CASE Close
  BY <1>1, <1>4 DEF Close
<1>5. CASE DialFails
  BY <1>1, <1>5 DEF DialFails
<1>6. CASE ConnectDone
  BY <1>1, <1>6 DEF ConnectDone, poolVars
<1>7. CASE DrainEnd
  BY <1>1, <1>7 DEF DrainEnd, poolVars
<1>8. CASE DrainOne \/ DrainClean \/ DrainExit \/ DialOne
  BY <1>2, <1>8 DEF DrainOne, DrainClean, DrainExit, DialOne, poolVars, ownerVars
<1>9. ASSUME NEW g \in Callers, Call(g) \/ CallStep(g) PROVE Housed(p)'
  BY <1>2, <1>9, OwersMove
<1>10. CASE UNCHANGED <<poolVars, ownerVars>>
  BY <1>2, <1>10 DEF poolVars, ownerVars
<1>11. QED
  BY <1>3, <1>4, <1>5, <1>6, <1>7, <1>8, <1>9, <1>10
  DEF Next, OwnerStep, ConnDies, ConnDown, vars

LEMMA LateStep == ASSUME PoolInv, SizeInv, OpenInv, LateInv, [Next]_vars PROVE LateInv'
<1> SUFFICES ASSUME NEW p \in Pools, NEW c \in Conns, In(clients'[p], c), c \notin late'
             PROVE  Housed(p)'
  BY DEF LateInv
<1>1. ASSUME In(clients[p], c), c \notin late PROVE Housed(p)'
  <2>1. Housed(p)
    BY <1>1 DEF LateInv
  <2>2. clients[p] # <<>>
    BY <1>1 DEF In
  <2>3. QED
    BY <2>1, <2>2, HousedStep
<1>2. Quiet \/ DialOne \/ DrainOne \/ OwnerForgets \/ \E g \in Callers : Moves(g)
  BY StepKinds
<1>3. CASE Quiet \/ OwnerForgets \/ \E g \in Callers : Forgets(g)
  BY <1>1, <1>3 DEF Quiet, OwnerForgets, Forgets
<1>4. CASE DialOne
  <2>1. PICK q \in Pools, d \in Conns : Given(q, d) /\ q = work /\ UNCHANGED <<late, work>>
    BY <1>4, Dials DEF DialOne, ownerVars
  <2>2. QED
    BY <1>1, <2>1 DEF Given, Housed
<1>5. CASE DrainOne
  <2>1. PICK q \in Pools, d \in Conns : Taken(q, d) /\ late' = late \ {d}
    BY <1>5, Drains
  <2>2. c # d \/ p # q
    BY <2>1 DEF Taken
  <2>3. In(clients[p], c) /\ In(clients[q], d)
    BY <2>1 DEF Taken
  <2>4. c # d
    BY <2>2, <2>3 DEF PoolInv, Separate
  <2>5. QED
    BY <1>1, <2>1, <2>3, <2>4
<1>6. ASSUME NEW g \in Callers, BorrowReceive(g) PROVE Housed(p)'
  <2>1. PICK q \in Pools, d \in Conns : Taken(q, d) /\ late' = late \ {d}
    BY <1>6, Receives
  <2>2. c # d \/ p # q
    BY <2>1 DEF Taken
  <2>3. In(clients[p], c) /\ In(clients[q], d)
    BY <2>1 DEF Taken
  <2>4. c # d
    BY <2>2, <2>3 DEF PoolInv, Separate
  <2>5. QED
    BY <1>1, <2>1, <2>3, <2>4
<1>7. ASSUME NEW g \in Callers, Push(g) \/ PushFresh(g) PROVE Housed(p)'
  <2>1. PICK q \in Pools, d \in Conns : Given(q, d) /\ LatePut(q, d) /\ q = at[g]
    BY <1>7, Gives, GivesFresh
  <2>2. CASE In(clients[p], c)
    BY <1>1, <2>1, <2>2 DEF LatePut
  <2>3. CASE ~In(clients[p], c)
    <3>1. p = q /\ c = d
      BY <2>1, <2>3 DEF Given
    <3>2. ~shutdown[p] \/ work = p
      BY <2>1, <3>1 DEF LatePut
    <3>3. UNCHANGED <<pool, work, shutdown>>
      BY <1>7 DEF Push, PushFresh, ownerVars
    <3>4. ~shutdown[p] => p = pool \/ p = work
      BY <2>1, <3>1 DEF SizeInv, OpenInv, PoolInv, TypeOK, Pools
    <3>5. QED
      BY <3>2, <3>3, <3>4 DEF Housed
  <2>4. QED
    BY <2>2, <2>3
<1>8. ASSUME NEW g \in Callers, CreateFresh(g) PROVE Housed(p)'
  BY <1>1, <1>8, Creates
<1>9. QED
  BY <1>2, <1>3, <1>4, <1>5, <1>6, <1>7, <1>8 DEF Moves

(* A connection whose loop runs can still be used or closed, unless a      *)
(* Return that read the flag before Close set it came when Close was done. *)
THEOREM NoneDroppedCorrect == Spec => []NoneDropped
<1>1. ASSUME PoolInv, LateInv, NEW c \in Conns, conn[c] = "up"
      PROVE  Reachable(c) \/ c \in late
  <2>1. InSlot(c) \/ ownerConn = c \/ \E g \in Callers : held[g] = c \/ fresh[g] = c
    BY <1>1 DEF PoolInv, Accounted, Somewhere
  <2>2. ASSUME NEW p \in Pools, In(clients[p], c), c \notin late PROVE Reachable(c)
    BY <1>1, <2>2 DEF LateInv, Housed, Reachable, In
  <2>3. QED
    BY <2>1, <2>2 DEF Reachable, InSlot
<1>2. PoolInv /\ LateInv => NoneDropped
  BY <1>1 DEF NoneDropped
<1>3. Init => OpenInv /\ LateInv
  <2> SUFFICES ASSUME Init PROVE OpenInv /\ LateInv
    OBVIOUS
  <2>1. OpenInv
    BY PoolAssumption DEF Init, OpenInv, Pools
  <2>2. \A p \in Pools : \A c : ~In(clients[p], c)
    BY DEF Init, In
  <2>3. QED
    BY <2>1, <2>2 DEF LateInv
<1>4. PoolInv /\ SizeInv /\ OpenInv /\ LateInv /\ [Next]_vars => OpenInv' /\ LateInv'
  BY OpenStep, LateStep
<1>5. QED
  BY <1>2, <1>3, <1>4, PoolAlways, SizeAlways, PTL DEF Spec
-----------------------------------------------------------------------------
(* Who has a connection, as LeaseContract sees it, follows from where it   *)
(* is.                                                                     *)
IsFresh(c) == \E g \in Callers : fresh[g] = c
User(g, c) == held[g] = c /\ Using(g)

HolderFacts ==
  \A c \in Conns :
    /\ conn[c] = "none" => Holder(c) = "new"
    /\ conn[c] # "none" /\ InSlot(c) => Holder(c) = "free"
    /\ IsFresh(c) => Holder(c) = "new"
    /\ \A g \in Callers : User(g, c) =>
         Holder(c) = g /\ conn[c] # "none" /\ ~InSlot(c) /\ ~IsFresh(c)
    /\ conn[c] # "none" /\ ~InSlot(c) /\ ~IsFresh(c) /\ (\A g \in Callers : ~User(g, c)) =>
         Holder(c) = "retired"

LEMMA HolderIs == PoolInv => HolderFacts
<1> SUFFICES ASSUME PoolInv, NEW c \in Conns
             PROVE
    /\ conn[c] = "none" => Holder(c) = "new"
    /\ conn[c] # "none" /\ InSlot(c) => Holder(c) = "free"
    /\ IsFresh(c) => Holder(c) = "new"
    /\ \A g \in Callers : User(g, c) =>
         Holder(c) = g /\ conn[c] # "none" /\ ~InSlot(c) /\ ~IsFresh(c)
    /\ conn[c] # "none" /\ ~InSlot(c) /\ ~IsFresh(c) /\ (\A g \in Callers : ~User(g, c)) =>
         Holder(c) = "retired"
  BY DEF HolderFacts
<1>1. Holder(c) = IF conn[c] = "none" THEN "new"
                  ELSE IF InSlot(c) THEN "free"
                  ELSE IF IsFresh(c) THEN "new"
                  ELSE IF \E g \in Callers : User(g, c)
                       THEN CHOOSE g \in Callers : User(g, c)
                  ELSE "retired"
  BY DEF Holder, InSlot, In, IsFresh, User
<1>2. /\ c # NoConn /\ Separate
      /\ conn[c] = "none" => ~Somewhere(c)
  BY PoolAssumption DEF PoolInv, Accounted
<1>3. IsFresh(c) => ~InSlot(c)
  BY <1>2 DEF Separate, IsFresh
<1>4. ASSUME NEW g \in Callers, User(g, c)
      PROVE  Holder(c) = g /\ conn[c] # "none" /\ ~InSlot(c) /\ ~IsFresh(c)
  <2>1. conn[c] # "none" /\ ~InSlot(c) /\ ~IsFresh(c)
    BY <1>2, <1>4 DEF Separate, Somewhere, IsFresh, User
  <2>2. \A h \in Callers : User(h, c) => h = g
    BY <1>2, <1>4 DEF Separate, User
  <2>3. (CHOOSE h \in Callers : User(h, c)) = g
    BY <1>4, <2>2
  <2>4. QED
    BY <1>1, <1>4, <2>1, <2>3
<1>5. QED
  BY <1>1, <1>3, <1>4

(* What a step leaves as it was has the same holder.                       *)
Alike(c) ==
  /\ conn'[c] = "none" <=> conn[c] = "none"
  /\ InSlot(c)' <=> InSlot(c)
  /\ IsFresh(c)' <=> IsFresh(c)
  /\ \A g \in Callers : User(g, c)' <=> User(g, c)

LEMMA HolderStays ==
  ASSUME HolderFacts, HolderFacts', NEW c \in Conns, Alike(c)
  PROVE  Holder(c)' = Holder(c)
<1>1. CASE conn[c] = "none"
  BY <1>1 DEF HolderFacts, Alike
<1>2. CASE conn[c] # "none" /\ InSlot(c)
  BY <1>2 DEF HolderFacts, Alike
<1>3. CASE IsFresh(c)
  BY <1>3 DEF HolderFacts, Alike
<1>4. ASSUME NEW g \in Callers, User(g, c) PROVE Holder(c)' = Holder(c)
  BY <1>4 DEF HolderFacts, Alike
<1>5. CASE conn[c] # "none" /\ ~InSlot(c) /\ ~IsFresh(c) /\ \A g \in Callers : ~User(g, c)
  BY <1>5 DEF HolderFacts, Alike
<1>6. QED
  BY <1>1, <1>2, <1>3, <1>4, <1>5

LEMMA PassStep ==
  ASSUME HolderFacts, HolderFacts', NEW c \in Conns, NEW from, NEW to,
         Holder(c) = from, Holder(c)' = to, \A d \in Conns : d # c => Alike(d)
  PROVE  Lease!Pass(c, from, to)
<1>1. \A d \in Conns : d # c => Holder(d)' = Holder(d)
  BY HolderStays
<1>2. QED
  BY <1>1 DEF Lease!Pass

LEMMA StayStep ==
  ASSUME HolderFacts, HolderFacts', \A c \in Conns : Alike(c)
  PROVE  [c \in Conns |-> Holder(c)]' = [c \in Conns |-> Holder(c)]
<1>1. \A c \in Conns : Holder(c)' = Holder(c)
  BY HolderStays
<1>2. QED
  BY <1>1
-----------------------------------------------------------------------------
(* Which callers use what they hold changes by one caller at a time.       *)
UseAlike  == \A h \in Callers : Using(h)' <=> Using(h)
UseBut(g) == \A h \in Callers : h # g => (Using(h)' <=> Using(h))
Stops(g)  == UseBut(g) /\ Using(g) /\ ~Using(g)'

LEMMA CallerUse ==
  ASSUME PoolInv, NEW g \in Callers, Call(g) \/ CallStep(g)
  PROVE  \/ UseAlike
         \/ Stops(g) /\ (Quiet \/ CreateFresh(g) \/ Push(g))
         \/ BorrowReceive(g)
<1>1. pc \in [Callers -> {"idle", "borrow", "receive", "send", "sendExit", "return",
                          "push", "returnBroken", "create", "pushFresh", "clean",
                          "cleanExit", "panic"}]
      /\ conn \in [Conns -> {"none", "up", "exiting", "down"}]
  BY DEF PoolInv, TypeOK
<1>2. UNCHANGED conn => ConnKeeps
  BY <1>1 DEF ConnKeeps
<1> USE DEF Goto, Using, Owing
<1>3. ASSUME Call(g) PROVE UseAlike
  BY <1>1, <1>3 DEF Call, UseAlike
<1>4. ASSUME GiveUp(g) PROVE UseAlike
  BY <1>1, <1>4 DEF GiveUp, UseAlike
<1>5. ASSUME BorrowPanics(g) PROVE UseAlike
  BY <1>1, <1>5 DEF BorrowPanics, UseAlike
<1>6. ASSUME BorrowCheck(g) PROVE UseAlike
  BY <1>1, <1>6 DEF BorrowCheck, UseAlike
<1>7. ASSUME BorrowTimeout(g) PROVE UseAlike
  BY <1>1, <1>7 DEF BorrowTimeout, UseAlike
<1>8. ASSUME SendAccepted(g) PROVE UseAlike
  BY <1>1, <1>8 DEF SendAccepted, UseAlike
<1>9. ASSUME SendRefused(g) PROVE UseAlike
  BY <1>1, <1>9 DEF SendRefused, UseAlike
<1>10. ASSUME SendStalled(g) PROVE UseAlike
  BY <1>1, <1>10 DEF SendStalled, UseAlike
<1>11. ASSUME SendExit(g) PROVE UseAlike
  BY <1>1, <1>11 DEF SendExit, UseAlike
<1>12. ASSUME PushFresh(g) PROVE UseAlike
  BY <1>1, <1>12 DEF PushFresh, UseAlike
<1>13. ASSUME CleanCheck(g) PROVE UseAlike
  BY <1>1, <1>13 DEF CleanCheck, UseAlike
<1>14. ASSUME CleanExit(g) PROVE UseAlike
  BY <1>1, <1>14 DEF CleanExit, UseAlike
<1>15. ASSUME Return(g) PROVE UseAlike \/ (Stops(g) /\ Quiet)
  <2>1. Quiet
    BY <1>2, <1>15 DEF Return, Quiet, poolVars, ownerVars
  <2>2. UseAlike \/ Stops(g)
    BY <1>1, <1>15 DEF Return, UseAlike, UseBut, Stops
  <2>3. QED
    BY <2>1, <2>2
<1>16. ASSUME ReturnBroken(g) PROVE UseAlike \/ (Stops(g) /\ Quiet)
  <2>1. Quiet
    BY <1>2, <1>16 DEF ReturnBroken, Quiet, poolVars, ownerVars
  <2>2. UseAlike \/ Stops(g)
    BY <1>1, <1>16 DEF ReturnBroken, UseAlike, UseBut, Stops
  <2>3. QED
    BY <2>1, <2>2
<1>17. ASSUME CreateFails(g) PROVE UseAlike \/ (Stops(g) /\ Quiet)
  <2>1. Quiet
    BY <1>2, <1>17 DEF CreateFails, Quiet, poolVars, ownerVars
  <2>2. UseAlike \/ Stops(g)
    BY <1>1, <1>17 DEF CreateFails, UseAlike, UseBut, Stops
  <2>3. QED
    BY <2>1, <2>2
<1>18. ASSUME Push(g) PROVE Stops(g)
  BY <1>1, <1>18 DEF Push, UseBut, Stops
<1>19. ASSUME CreateFresh(g) PROVE Stops(g)
  BY <1>1, <1>19 DEF CreateFresh, UseBut, Stops
<1>20. QED
  BY <1>3, <1>4, <1>5, <1>6, <1>7, <1>8, <1>9, <1>10, <1>11, <1>12, <1>13, <1>14, <1>15,
     <1>16, <1>17, <1>18, <1>19 DEF CallStep

LEMMA UseStep ==
  ASSUME PoolInv, [Next]_vars
  PROVE  \/ UseAlike
         \/ \E g \in Callers : Stops(g) /\ (Quiet \/ CreateFresh(g) \/ Push(g))
         \/ \E g \in Callers : BorrowReceive(g)
<1>1. ASSUME NEW g \in Callers, Call(g) \/ CallStep(g)
      PROVE  \/ UseAlike
             \/ Stops(g) /\ (Quiet \/ CreateFresh(g) \/ Push(g))
             \/ BorrowReceive(g)
  BY <1>1, CallerUse
<1>2. UNCHANGED pc => UseAlike
  BY DEF UseAlike, Using, Owing
<1>3. Connect \/ Close \/ OwnerStep => UNCHANGED pc
  BY DEF Connect, Close, OwnerStep, DialOne, DialFails, ConnectDone, DrainOne, DrainClean,
         DrainExit, DrainEnd, callerVars
<1>4. QED
  BY <1>1, <1>2, <1>3 DEF Next, ConnDies, ConnDown, vars, callerVars
-----------------------------------------------------------------------------
LeaseStep == [Lease!Next]_([c \in Conns |-> Holder(c)])

LEMMA StillStep ==
  ASSUME PoolInv, HolderFacts, HolderFacts', UseAlike,
         Quiet \/ OwnerForgets \/ \E g \in Callers : Forgets(g)
  PROVE  LeaseStep
<1>1. ASSUME NEW c \in Conns PROVE Alike(c)
  <2>1. CASE Quiet \/ OwnerForgets
    BY <2>1 DEF Alike, Quiet, OwnerForgets, ConnKeeps, InSlot, IsFresh, User, UseAlike
  <2>2. ASSUME NEW g \in Callers, Forgets(g) PROVE Alike(c)
    <3>1. ~Using(g) /\ ~Using(g)'
      BY <2>2 DEF Forgets, UseAlike, Using, Owing
    <3>2. \A h \in Callers : held'[h] = IF h = g THEN NoConn ELSE held[h]
      BY <2>2 DEF Forgets, PoolInv, TypeOK
    <3>3. \A h \in Callers : User(h, c)' <=> User(h, c)
      BY <3>1, <3>2 DEF User, UseAlike
    <3>4. QED
      BY <2>2, <3>3 DEF Alike, Forgets, ConnKeeps, InSlot, IsFresh
  <2>3. QED
    BY <2>1, <2>2
<1>2. QED
  BY <1>1, StayStep DEF LeaseStep

LEMMA StopStep ==
  ASSUME PoolInv, HolderFacts, HolderFacts', NEW g \in Callers, Stops(g), Quiet
  PROVE  LeaseStep
<1>1. held[g] \in Conns /\ User(g, held[g])
  BY DEF Stops, User, Using, Owing, PoolInv, PcInv, Carries, TypeOK
<1> DEFINE c == held[g]
<1>2. \A d \in Conns : d # c => Alike(d)
  BY DEF Alike, Quiet, ConnKeeps, InSlot, IsFresh, User, Stops, UseBut
<1>3. Holder(c) = g /\ conn[c] # "none" /\ ~InSlot(c) /\ ~IsFresh(c)
  BY <1>1 DEF HolderFacts
<1>4. PICK e \in Conns : e = held[g]
  BY <1>1
<1>5. /\ conn'[e] # "none" /\ ~InSlot(e)' /\ ~IsFresh(e)'
      /\ \A h \in Callers : ~User(h, e)'
  <2>1. \A h \in Callers : held[h] = e => h = g
    BY <1>4, PoolAssumption DEF PoolInv, Separate
  <2>2. QED
    BY <1>3, <1>4, <2>1 DEF Quiet, ConnKeeps, InSlot, IsFresh, User, Stops
<1>6. Holder(e)' = "retired"
  BY <1>5 DEF HolderFacts
<1>7. Lease!Pass(e, g, "retired")
  BY <1>2, <1>3, <1>4, <1>6, PassStep
<1>8. QED
  BY <1>7 DEF LeaseStep, Lease!Next, Lease!Retire

LEMMA DialStep ==
  ASSUME PoolInv, HolderFacts, HolderFacts', UseAlike, DialOne
  PROVE  LeaseStep
<1>1. PICK p \in Pools, c \in Conns :
        /\ ~Somewhere(c) /\ conn[c] = "none" /\ conn' = [conn EXCEPT ![c] = "up"]
        /\ UNCHANGED <<held, fresh, ownerConn>> /\ Given(p, c)
  BY Dials
<1>2. \A d \in Conns : conn'[d] = IF d = c THEN "up" ELSE conn[d]
  BY <1>1 DEF PoolInv, TypeOK
<1>3. \A d \in Conns : d # c => Alike(d)
  BY <1>1, <1>2 DEF Alike, Given, InSlot, IsFresh, User, UseAlike
<1>4. conn'[c] # "none" /\ InSlot(c)'
  BY <1>1, <1>2 DEF Given, InSlot
<1>5. Holder(c) = "new" /\ Holder(c)' = "free"
  BY <1>1, <1>4 DEF HolderFacts
<1>6. QED
  BY <1>3, <1>5, PassStep DEF LeaseStep, Lease!Next, Lease!Create

LEMMA DrainStep ==
  ASSUME PoolInv, HolderFacts, HolderFacts', UseAlike, DrainOne
  PROVE  LeaseStep
<1>1. PICK p \in Pools, c \in Conns :
        /\ ownerConn = NoConn /\ ownerConn' = c /\ UNCHANGED <<conn, held, fresh>>
        /\ Taken(p, c)
  BY Drains
<1>2. \A d \in Conns : d # c => Alike(d)
  BY <1>1 DEF Alike, Taken, InSlot, IsFresh, User, UseAlike
<1>3. /\ InSlot(c) /\ conn[c] # "none" /\ ~InSlot(c)'
      /\ \A g \in Callers : held[g] # c /\ fresh[g] # c
  BY <1>1, PoolAssumption DEF PoolInv, Accounted, Somewhere, Separate, Taken, InSlot
<1>4. ~IsFresh(c)' /\ \A g \in Callers : ~User(g, c)'
  BY <1>1, <1>3 DEF IsFresh, User
<1>5. Holder(c) = "free" /\ Holder(c)' = "retired"
  BY <1>1, <1>3, <1>4 DEF HolderFacts
<1>6. QED
  BY <1>2, <1>5, PassStep DEF LeaseStep, Lease!Next, Lease!Retire

LEMMA LendStep ==
  ASSUME PoolInv, HolderFacts, HolderFacts', NEW g \in Callers, BorrowReceive(g)
  PROVE  LeaseStep
<1>1. PICK p \in Pools, c \in Conns :
        /\ held[g] = NoConn /\ held' = [held EXCEPT ![g] = c]
        /\ UNCHANGED <<conn, fresh, ownerConn>> /\ Taken(p, c)
  BY Receives
<1>2. /\ UseBut(g) /\ Using(g)' /\ \A h \in Callers : held'[h] = IF h = g THEN c ELSE held[h]
  BY <1>1 DEF BorrowReceive, Goto, UseBut, Using, Owing, PoolInv, TypeOK
<1>3. \A d \in Conns : d # c => Alike(d)
  <2>1. NoConn \notin Conns
    BY PoolAssumption
  <2>2. \A d \in Conns, h \in Callers : d # c => (User(h, d)' <=> User(h, d))
    BY <1>1, <1>2, <2>1 DEF User, UseBut
  <2>3. QED
    BY <1>1, <2>2 DEF Alike, Taken, InSlot, IsFresh
<1>4. InSlot(c) /\ conn[c] # "none" /\ User(g, c)'
  BY <1>1, <1>2 DEF PoolInv, Accounted, Somewhere, Taken, InSlot, User
<1>5. Holder(c) = "free" /\ Holder(c)' = g
  BY <1>4 DEF HolderFacts
<1>6. QED
  BY <1>3, <1>5, PassStep DEF LeaseStep, Lease!Next, Lease!Lend

LEMMA GiveBackStep ==
  ASSUME PoolInv, HolderFacts, HolderFacts', NEW g \in Callers, Push(g)
  PROVE  LeaseStep
<1>1. PICK p \in Pools, c \in Conns :
        /\ ~InSlot(c) /\ held[g] = c /\ held' = [held EXCEPT ![g] = NoConn]
        /\ UNCHANGED <<conn, fresh, ownerConn>> /\ Given(p, c)
  BY Gives
<1>2. /\ UseBut(g) /\ Using(g)
      /\ \A h \in Callers : held'[h] = IF h = g THEN NoConn ELSE held[h]
  BY <1>1 DEF Push, Goto, UseBut, Using, Owing, PoolInv, TypeOK
<1>3. \A d \in Conns : d # c => Alike(d)
  <2>1. NoConn \notin Conns
    BY PoolAssumption
  <2>2. \A d \in Conns, h \in Callers : d # c => (User(h, d)' <=> User(h, d))
    BY <1>1, <1>2, <2>1 DEF User, UseBut
  <2>3. QED
    BY <1>1, <2>2 DEF Alike, Given, InSlot, IsFresh
<1>4. User(g, c) /\ InSlot(c)'
  BY <1>1, <1>2 DEF Given, InSlot, User
<1>5. Holder(c) = g /\ Holder(c)' = "free"
  BY <1>1, <1>4 DEF HolderFacts
<1>6. QED
  BY <1>3, <1>5, PassStep DEF LeaseStep, Lease!Next, Lease!GiveBack

LEMMA CreateStep ==
  ASSUME PoolInv, HolderFacts, HolderFacts', NEW g \in Callers, CreateFresh(g), Stops(g)
  PROVE  LeaseStep
<1>1. PICK n \in Conns :
        /\ ~Somewhere(n) /\ conn[n] = "none" /\ conn' = [conn EXCEPT ![n] = "up"]
        /\ fresh[g] = NoConn /\ fresh' = [fresh EXCEPT ![g] = n]
        /\ UNCHANGED <<clients, held, ownerConn>>
  BY Creates
<1>2. PICK c \in Conns : c = held[g] /\ User(g, c)
  BY DEF Stops, User, Using, Owing, PoolInv, PcInv, Carries, TypeOK
<1>3. /\ \A d \in Conns : conn'[d] = IF d = n THEN "up" ELSE conn[d]
      /\ \A h \in Callers : fresh'[h] = IF h = g THEN n ELSE fresh[h]
      /\ NoConn \notin Conns
  BY <1>1, PoolAssumption DEF PoolInv, TypeOK
<1>4. \A d \in Conns : d # c /\ d # n => Alike(d)
  <2>1. \A d \in Conns, h \in Callers : d # c => (User(h, d)' <=> User(h, d))
    BY <1>1, <1>2 DEF User, UseBut, Stops
  <2>2. \A d \in Conns : d # n => (IsFresh(d)' <=> IsFresh(d))
    BY <1>1, <1>3 DEF IsFresh
  <2>3. QED
    BY <1>1, <1>3, <2>1, <2>2 DEF Alike, InSlot
<1>5. c # n
  BY <1>1, <1>2 DEF Somewhere
<1>6. Holder(c) = g /\ conn[c] # "none" /\ ~InSlot(c) /\ ~IsFresh(c)
  BY <1>2 DEF HolderFacts
<1>7. \A h \in Callers : held[h] = c => h = g
  BY <1>2, <1>3 DEF PoolInv, Separate
<1>8. conn'[c] # "none" /\ ~InSlot(c)' /\ ~IsFresh(c)' /\ \A h \in Callers : ~User(h, c)'
  BY <1>1, <1>3, <1>5, <1>6, <1>7 DEF InSlot, IsFresh, User, Stops
<1>9. Holder(c)' = "retired"
  BY <1>8 DEF HolderFacts
<1>10. Holder(n)' = "new" /\ Holder(n) = "new"
  BY <1>1, <1>3 DEF HolderFacts, IsFresh
<1>11. \A d \in Conns : d # c => Holder(d)' = Holder(d)
  BY <1>4, <1>10, HolderStays
<1>12. Lease!Pass(c, g, "retired")
  BY <1>6, <1>9, <1>11 DEF Lease!Pass
<1>13. QED
  BY <1>12 DEF LeaseStep, Lease!Next, Lease!Retire

LEMMA ReplaceStep ==
  ASSUME PoolInv, HolderFacts, HolderFacts', UseAlike, NEW g \in Callers, PushFresh(g)
  PROVE  LeaseStep
<1>1. PICK p \in Pools, c \in Conns :
        /\ ~InSlot(c) /\ fresh[g] = c /\ fresh' = [fresh EXCEPT ![g] = NoConn]
        /\ UNCHANGED <<conn, held, ownerConn>> /\ Given(p, c)
  BY GivesFresh
<1>2. /\ \A h \in Callers : fresh'[h] = IF h = g THEN NoConn ELSE fresh[h]
      /\ NoConn \notin Conns
  BY <1>1, PoolAssumption DEF PoolInv, TypeOK
<1>3. \A d \in Conns : d # c => Alike(d)
  <2>1. \A d \in Conns : d # c => (IsFresh(d)' <=> IsFresh(d))
    BY <1>1, <1>2 DEF IsFresh
  <2>2. QED
    BY <1>1, <2>1 DEF Alike, Given, InSlot, User, UseAlike
<1>4. IsFresh(c) /\ InSlot(c)' /\ conn'[c] # "none"
  BY <1>1 DEF IsFresh, Given, InSlot, PoolInv, Accounted, Somewhere
<1>5. Holder(c) = "new" /\ Holder(c)' = "free"
  BY <1>4 DEF HolderFacts
<1>6. QED
  BY <1>3, <1>5, PassStep DEF LeaseStep, Lease!Next, Lease!Create

LEMMA RefinesStep == PoolInv /\ HolderFacts /\ HolderFacts' /\ [Next]_vars => LeaseStep
<1> SUFFICES ASSUME PoolInv, HolderFacts, HolderFacts', [Next]_vars PROVE LeaseStep
  OBVIOUS
<1>1. Quiet \/ DialOne \/ DrainOne \/ OwnerForgets \/ \E g \in Callers : Moves(g)
  BY StepKinds
<1>2. CASE UseAlike
  <2>1. ASSUME NEW g \in Callers, Moves(g) PROVE LeaseStep
    <3>1. ~CreateFresh(g)
      BY <1>2 DEF CreateFresh, Goto, UseAlike, Using, Owing, PoolInv, TypeOK
    <3>2. QED
      BY <1>2, <2>1, <3>1, LendStep, GiveBackStep, ReplaceStep, StillStep DEF Moves
  <2>2. QED
    BY <1>1, <1>2, <2>1, StillStep, DialStep, DrainStep
<1>3. ASSUME NEW g \in Callers, Stops(g), Quiet \/ CreateFresh(g) \/ Push(g) PROVE LeaseStep
  BY <1>3, StopStep, CreateStep, GiveBackStep
<1>4. ASSUME NEW g \in Callers, BorrowReceive(g) PROVE LeaseStep
  BY <1>4, LendStep
<1>5. QED
  BY <1>2, <1>3, <1>4, UseStep

LEMMA RefinesInit == Init => Lease!Init
<1> SUFFICES ASSUME Init PROVE Lease!Init
  OBVIOUS
<1>1. \A c \in Conns : Holder(c) = "new"
  BY DEF Init, Holder
<1>2. QED
  BY <1>1 DEF Lease!Init

(* The pool lends a connection to one caller at a time, and one that it    *)
(* retired it never lends again: it implements LeaseContract.              *)
THEOREM ImplementsLease == Spec => LeaseSpec
<1>1. HolderFacts /\ HolderFacts' /\ PoolInv /\ [Next]_vars =>
        [Lease!Next]_([c \in Conns |-> Holder(c)])
  BY RefinesStep DEF LeaseStep
<1>2. QED
  BY RefinesInit, HolderIs, <1>1, PoolAlways, PTL DEF Spec, LeaseSpec, Lease!Spec
=============================================================================
