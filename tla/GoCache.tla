------------------------------ MODULE GoCache ------------------------------
(***************************************************************************)
(* The cache (cheshire/impl/gocache/cache.go): each call of go-cache is    *)
(* atomic, but Inc makes two of them, under a lock that only other calls   *)
(* of Inc take.  Set, SetIfAbsent, Delete and the expiry of a key may come *)
(* between the two.                                                        *)
(***************************************************************************)
EXTENDS Naturals

CONSTANTS
  Callers,     (* goroutines, each of which makes one call                 *)
  CacheKeys,
  MaxVal       (* bound: Inc is called with 1..MaxVal                      *)

ASSUME GoCacheAssumption == MaxVal \in Nat

VARIABLES
  cached,      (* what go-cache holds for each key: a number from Inc,     *)
               (* bytes, or nothing                                        *)
  incLock,     (* who holds the lock of Inc                                *)
  call,        (* where each caller stands, and the key and value of its Inc *)
  result,      (* what Inc returned, and (history) the sum that its own    *)
               (* value completed                                          *)
  sum          (* history: for each key the sum of the values that were    *)
               (* given to Inc since the key last had no number            *)

cacheVars == <<cached, incLock, call, result, sum>>

IsNumber(k) == cached[k].is = "number"
Holds(is, n) == [is |-> is, n |-> n]

Pending == [ok |-> FALSE, val |-> 0, sum |-> 0]
NoCall  == [at |-> "idle", key |-> "none", val |-> 0]

CacheInit ==
  /\ cached = [k \in CacheKeys |-> Holds("nothing", 0)]
  /\ incLock = {}
  /\ call = [c \in Callers |-> NoCall]
  /\ result = [c \in Callers |-> Pending]
  /\ sum = [k \in CacheKeys |-> 0]
-----------------------------------------------------------------------------
(* The key has something else, or nothing.                                 *)
Replace(k, is) ==
  /\ cached' = [cached EXCEPT ![k] = Holds(is, 0)]
  /\ sum' = [sum EXCEPT ![k] = 0]

Called(c) ==
  /\ call[c] = NoCall
  /\ call' = [call EXCEPT ![c].at = "done"]
  /\ UNCHANGED <<incLock, result>>

SetBytes(c, k) == Called(c) /\ Replace(k, "bytes")

SetIfAbsent(c, k) ==
  /\ Called(c)
  /\ IF cached[k].is = "nothing" THEN Replace(k, "bytes") ELSE UNCHANGED <<cached, sum>>

Delete(c, k) == Called(c) /\ Replace(k, "nothing")

(* go-cache drops a key whose time has come.                               *)
ExpireKey(k) ==
  /\ cached[k].is # "nothing"
  /\ Replace(k, "nothing")
  /\ UNCHANGED <<incLock, call, result>>
-----------------------------------------------------------------------------
(* Inc                                                                     *)

EnterInc(c, k, n) ==
  /\ call[c] = NoCall
  /\ call' = [call EXCEPT ![c] = [at |-> "increment", key |-> k, val |-> n]]

(* Mutant: without the lock.                                               *)
CallIncUnlocked(c, k, n) ==
  /\ EnterInc(c, k, n)
  /\ UNCHANGED <<cached, incLock, result, sum>>

CallInc(c, k, n) ==
  /\ EnterInc(c, k, n)
  /\ incLock = {}
  /\ incLock' = {c}
  /\ UNCHANGED <<cached, result, sum>>

(* The value of c is added to what Inc was given before it for this key.   *)
Added(c, before) ==
  LET k == call[c].key
  IN  /\ sum' = [sum EXCEPT ![k] = before + call[c].val]
      /\ result' = [result EXCEPT ![c].sum = before + call[c].val]

(* go-cache's Increment refuses a key without a number.                    *)
Increment(c) ==
  LET k == call[c].key
  IN  /\ call[c].at = "increment"
      /\ IF IsNumber(k)
         THEN /\ cached' = [cached EXCEPT ![k].n = @ + call[c].val]
              /\ call' = [call EXCEPT ![c].at = "get"]
              /\ Added(c, sum[k])
         ELSE /\ call' = [call EXCEPT ![c].at = "set"]
              /\ UNCHANGED <<cached, sum, result>>
      /\ UNCHANGED incLock

EndInc(c) ==
  /\ incLock' = incLock \ {c}
  /\ call' = [call EXCEPT ![c] = [NoCall EXCEPT !.at = "done"]]

(* Whatever the key has by now is replaced.                                *)
SetNumber(c) ==
  LET k == call[c].key
  IN  /\ call[c].at = "set"
      /\ cached' = [cached EXCEPT ![k] = Holds("number", call[c].val)]
      /\ sum' = [sum EXCEPT ![k] = @ + call[c].val]
      /\ result' = [result EXCEPT ![c] = [ok |-> TRUE, val |-> call[c].val, sum |-> sum'[k]]]
      /\ EndInc(c)

(* An error is returned when the key has no number any more.               *)
GetNumber(c) ==
  LET k == call[c].key
  IN  /\ call[c].at = "get"
      /\ result' = IF IsNumber(k)
                   THEN [result EXCEPT ![c].ok = TRUE, ![c].val = cached[k].n] ELSE result
      /\ EndInc(c)
      /\ UNCHANGED <<cached, sum>>

CacheNext ==
  \/ \E c \in Callers, k \in CacheKeys :
       \/ SetBytes(c, k) \/ SetIfAbsent(c, k) \/ Delete(c, k)
       \/ \E n \in 1..MaxVal : CallInc(c, k, n)
  \/ \E c \in Callers : Increment(c) \/ SetNumber(c) \/ GetNumber(c)
  \/ \E k \in CacheKeys : ExpireKey(k)

CacheSpec == CacheInit /\ [][CacheNext]_cacheVars
-----------------------------------------------------------------------------
(* Nothing that is given to Inc is lost: a number in the cache is the sum  *)
(* of all that Inc was given since the key last had none, and a call that  *)
(* returns a number returns the sum up to its own value, so that no two    *)
(* calls are told the same; whatever else sets, deletes or expires the key *)
(* between the two steps of Inc.                                           *)
IncsAddUp ==
  /\ \A k \in CacheKeys : IsNumber(k) => cached[k].n = sum[k]
  /\ \A c \in Callers : result[c].ok => result[c].val = result[c].sum
=============================================================================
