---------------------------- MODULE LibraryProofs ----------------------------
(***************************************************************************)
(* The parts beside the connections, for any number of goroutines: the     *)
(* cache adds up what Inc is given, the logger delivers in order and never *)
(* into a channel that was taken off its list, and a clean shutdown closes *)
(* what was registered.                                                    *)
(***************************************************************************)
EXTENDS Logger, GoCache, Closer, QueueLemmas, FiniteSetTheorems

(* The cache.  Between its two calls of go-cache an Inc knows that nobody  *)
(* else has made the key a number meanwhile, since it has the lock: what   *)
(* it will set or get still agrees with the sum.                           *)
Calling(c) == call[c].at \in {"increment", "set", "get"}

CacheTypes ==
  /\ cached \in [CacheKeys -> [is : {"nothing", "bytes", "number"}, n : Nat]]
  /\ call \in [Callers -> [at : {"idle", "increment", "set", "get", "done"},
                           key : CacheKeys \cup {"none"}, val : Nat]]
  /\ result \in [Callers -> [ok : BOOLEAN, val : Nat, sum : Nat]]
  /\ sum \in [CacheKeys -> Nat]

Incrementing ==
  \A c \in Callers : Calling(c) => call[c].key \in CacheKeys /\ incLock = {c}

SumsKept == \A k \in CacheKeys : IF IsNumber(k) THEN cached[k].n = sum[k] ELSE sum[k] = 0

CallsKnow ==
  \A c \in Callers :
    /\ call[c].at = "set" => ~IsNumber(call[c].key)
    /\ call[c].at = "get" /\ IsNumber(call[c].key) => sum[call[c].key] = result[c].sum
    /\ result[c].ok => call[c].at = "done" /\ result[c].val = result[c].sum

CacheInv == CacheTypes /\ Incrementing /\ SumsKept /\ CallsKnow

LEMMA CacheStep == ASSUME CacheInv, [CacheNext]_cacheVars PROVE CacheInv'
<1> USE DEF CacheInv, CacheTypes, Incrementing, SumsKept, CallsKnow, Calling, IsNumber, Holds,
            NoCall
<1>1. ASSUME NEW c \in Callers, NEW k \in CacheKeys,
             SetBytes(c, k) \/ SetIfAbsent(c, k) \/ Delete(c, k)
      PROVE  CacheInv'
  <2>1. Called(c) /\ call[c].at = "idle" /\ call[c].key = "none"
    BY <1>1 DEF SetBytes, SetIfAbsent, Delete, Called
  <2>2. \/ \E is \in {"bytes", "nothing"} : Replace(k, is)
        \/ UNCHANGED <<cached, sum>>
    BY <1>1 DEF SetBytes, SetIfAbsent, Delete
  <2>3. CASE UNCHANGED <<cached, sum>>
    BY <2>1, <2>3 DEF Called
  <2>4. ASSUME NEW is \in {"bytes", "nothing"}, Replace(k, is) PROVE CacheInv'
    <3>1. CacheTypes'
      BY <2>1, <2>4 DEF Called, Replace
    <3>2. Incrementing' /\ SumsKept' /\ CallsKnow'
      BY <2>1, <2>4 DEF Called, Replace
    <3>3. QED
      BY <3>1, <3>2
  <2>5. QED
    BY <2>2, <2>3, <2>4
<1>2. ASSUME NEW c \in Callers, NEW k \in CacheKeys, NEW n \in 1..MaxVal, CallInc(c, k, n)
      PROVE  CacheInv'
  <2>1. CacheTypes'
    BY <1>2, GoCacheAssumption DEF CallInc, EnterInc
  <2>2. Incrementing'
    BY <1>2, GoCacheAssumption DEF CallInc, EnterInc
  <2>3. SumsKept'
    BY <1>2, GoCacheAssumption DEF CallInc, EnterInc
  <2>4. CallsKnow'
    BY <1>2, GoCacheAssumption DEF CallInc, EnterInc
  <2>5. QED
    BY <2>1, <2>2, <2>3, <2>4
<1>3. ASSUME NEW c \in Callers, Increment(c) PROVE CacheInv'
  <2> DEFINE k == call[c].key
  <2>1. /\ k \in CacheKeys /\ incLock = {c} /\ call[c].val \in Nat /\ UNCHANGED incLock
        /\ \A d \in Callers : Calling(d) => d = c
    BY <1>3 DEF Increment
  <2>2. CASE IsNumber(k)
    <3>1. /\ cached' = [cached EXCEPT ![k].n = @ + call[c].val]
          /\ call' = [call EXCEPT ![c].at = "get"]
          /\ sum' = [sum EXCEPT ![k] = sum[k] + call[c].val]
          /\ result' = [result EXCEPT ![c].sum = sum[k] + call[c].val]
      BY <1>3, <2>2 DEF Increment, Added
    <3>2. sum[k] + call[c].val \in Nat /\ cached[k].n + call[c].val = sum[k] + call[c].val
      BY <2>1, <2>2
    <3> HIDE DEF k
    <3>3. CacheTypes'
      <4>1. cached' \in [CacheKeys -> [is : {"nothing", "bytes", "number"}, n : Nat]]
        BY <2>1, <3>1, <3>2
      <4>2. result' \in [Callers -> [ok : BOOLEAN, val : Nat, sum : Nat]]
        BY <2>1, <3>1, <3>2
      <4>3. call' \in [Callers -> [at : {"idle", "increment", "set", "get", "done"},
                                   key : CacheKeys \cup {"none"}, val : Nat]]
        BY <3>1
      <4>4. sum' \in [CacheKeys -> Nat]
        BY <3>1, <3>2
      <4>5. QED
        BY <4>1, <4>2, <4>3, <4>4
    <3>4. Incrementing'
      <4>1. \A d \in Callers : d # c => call'[d] = call[d] /\ ~Calling(d)
        BY <2>1, <3>1
      <4>2. call'[c].key = k
        BY <3>1 DEF k
      <4>3. QED
        BY <2>1, <4>1, <4>2
    <3>5. SumsKept'
      <4>1. \A j \in CacheKeys : j # k => cached'[j] = cached[j] /\ sum'[j] = sum[j]
        BY <3>1
      <4>2. cached'[k].n = sum'[k] /\ cached'[k].is = "number"
        BY <2>1, <2>2, <3>1, <3>2
      <4>3. QED
        BY <4>1, <4>2
    <3>6. CallsKnow'
      BY <1>3, <2>1, <3>1 DEF Increment, k
    <3>7. QED
      BY <3>3, <3>4, <3>5, <3>6
  <2>3. CASE ~IsNumber(k)
    <3>1. call' = [call EXCEPT ![c].at = "set"] /\ UNCHANGED <<cached, sum, result>>
      BY <1>3, <2>3 DEF Increment
    <3>2. CacheTypes' /\ Incrementing' /\ SumsKept'
      BY <2>1, <3>1
    <3>3. CallsKnow'
      <4>1. ASSUME NEW d \in Callers, d # c PROVE call'[d] = call[d] /\ ~Calling(d)
        BY <2>1, <3>1, <4>1
      <4>2. call'[c].at = "set" /\ call'[c].key = k
        BY <2>1, <3>1
      <4>3. ~result[c].ok
        BY <1>3 DEF Increment
      <4>4. QED
        BY <2>3, <3>1, <4>1, <4>2, <4>3
    <3>4. QED
      BY <3>2, <3>3
  <2>4. QED
    BY <2>2, <2>3
<1>4. ASSUME NEW c \in Callers, SetNumber(c) PROVE CacheInv'
  <2>1. CacheTypes'
    BY <1>4 DEF SetNumber, EndInc
  <2>2. Incrementing'
    BY <1>4 DEF SetNumber, EndInc
  <2>3. SumsKept'
    BY <1>4 DEF SetNumber, EndInc
  <2>4. CallsKnow'
    <3>1. \A d \in Callers : d # c => call'[d] = call[d] /\ ~Calling(d) /\ result'[d] = result[d]
      BY ZenonT(30), <1>4 DEF SetNumber, EndInc
    <3>2. call'[c].at = "done" /\ call[c].key \in CacheKeys /\ sum[call[c].key] = 0
      BY <1>4 DEF SetNumber, EndInc
    <3>3. result'[c].val = call[c].val /\ result'[c].sum = 0 + call[c].val /\ call[c].val \in Nat
      BY <1>4, <3>2 DEF SetNumber
    <3>4. QED
      BY <3>1, <3>2, <3>3
  <2>5. QED
    BY <2>1, <2>2, <2>3, <2>4
<1>5. ASSUME NEW c \in Callers, GetNumber(c) PROVE CacheInv'
  <2>1. CacheTypes'
    BY ZenonT(30), <1>5 DEF GetNumber, EndInc
  <2>2. Incrementing'
    BY <1>5 DEF GetNumber, EndInc
  <2>3. SumsKept'
    BY <1>5 DEF GetNumber, EndInc
  <2>4. CallsKnow'
    BY <1>5 DEF GetNumber, EndInc
  <2>5. QED
    BY <2>1, <2>2, <2>3, <2>4
<1>6. ASSUME NEW k \in CacheKeys, ExpireKey(k) PROVE CacheInv'
  <2>1. CacheTypes'
    BY <1>6 DEF ExpireKey, Replace
  <2>2. Incrementing'
    BY <1>6 DEF ExpireKey, Replace
  <2>3. SumsKept'
    BY <1>6 DEF ExpireKey, Replace
  <2>4. CallsKnow'
    BY <1>6 DEF ExpireKey, Replace
  <2>5. QED
    BY <2>1, <2>2, <2>3, <2>4
<1>7. CASE UNCHANGED cacheVars
  BY <1>7 DEF cacheVars
<1>8. QED
  BY <1>1, <1>2, <1>3, <1>4, <1>5, <1>6, <1>7 DEF CacheNext

(* Whatever else sets, deletes or expires the key between the two calls    *)
(* that Inc makes, the number is the sum of what Inc was given and every   *)
(* call is told its own part of it (IncsAddUp).                            *)
THEOREM CacheCorrect == CacheSpec => []IncsAddUp
<1>1. CacheInit => CacheInv
  BY DEF CacheInit, CacheInv, CacheTypes, Incrementing, SumsKept, CallsKnow, Calling, IsNumber,
         Holds, NoCall, Pending
<1>2. CacheInv => IncsAddUp
  BY DEF CacheInv, SumsKept, CallsKnow, IncsAddUp
<1>3. QED
  BY <1>1, <1>2, CacheStep, PTL DEF CacheSpec
-----------------------------------------------------------------------------
(* The logger's lists: whoever is off its list is not on the copy that the *)
(* forwarder walks through under the lock either, and whoever is on it     *)
(* when the lock is taken gets its turn.                                   *)
LoggerTypes ==
  /\ inchan \in Seq(Emitters \X Nat)
  /\ outchans \in Seq(Listeners)
  /\ fwd \in {"receive", "lock", "send"}
  /\ fwd # "receive" => event \in Emitters \X Nat
  /\ outs \in Seq(Listeners)
  /\ emits \in [Emitters -> Nat]
  /\ listener \in [Listeners -> {"off", "listen", "on", "wantsOff", "unlisten"}]
  /\ unread \in [Listeners -> Nat]
  /\ last \in [Listeners -> [Emitters -> Nat]]
  /\ owed \subseteq Listeners

ListInv ==
  /\ fwd = "send" <=> lock = Fwd
  /\ \A c \in Listeners : listener[c] \in {"listen", "unlisten"} => lock = c
  /\ \A c \in Listeners : listener[c] = "off" => ~In(outchans, c)
  /\ \A c \in Listeners : listener[c] = "on" => In(outchans, c)
  /\ fwd = "send" => \A c \in Listeners : /\ listener[c] = "off" => ~In(outs, c)
                                          /\ c \in owed => In(outs, c)

(* The events on their way, first the one that the forwarder has.          *)
UnderWay == IF fwd = "receive" THEN inchan ELSE <<event>> \o inchan

OrderInv ==
  /\ \A i, j \in 1..Len(UnderWay) :
       i < j /\ UnderWay[i][1] = UnderWay[j][1] => UnderWay[i][2] <= UnderWay[j][2]
  /\ \A i \in 1..Len(UnderWay) :
       LET e == UnderWay[i][1]
       IN  /\ UnderWay[i][2] <= emits[e]
           /\ \A c \in Listeners : last[c][e] <= UnderWay[i][2]
  /\ \A c \in Listeners, e \in Emitters : last[c][e] <= emits[e]

LoggerInv == LoggerTypes /\ ListInv /\ OrderInv
LEMMA UnderWayIs ==
  ASSUME LoggerTypes
  PROVE  /\ UnderWay \in Seq(Emitters \X Nat) /\ Len(inchan) \in Nat
         /\ fwd = "receive" => UnderWay = inchan
         /\ fwd # "receive" => /\ Len(UnderWay) = Len(inchan) + 1
                               /\ UnderWay[1] = event
                               /\ \A i \in 1..Len(inchan) : UnderWay[i + 1] = inchan[i]
<1>1. CASE fwd = "receive"
  BY <1>1, LenProperties DEF UnderWay, LoggerTypes
<1>2. CASE fwd # "receive"
  <2>1. <<event>> \in Seq(Emitters \X Nat) /\ inchan \in Seq(Emitters \X Nat)
    BY <1>2 DEF LoggerTypes
  <2>2. UnderWay = <<event>> \o inchan
    BY <1>2 DEF UnderWay
  <2>3. QED
    BY <1>2, <2>1, <2>2, ConcatProperties, LenProperties
<1>3. QED
  BY <1>1, <1>2

LEMMA OfferEffect ==
  ASSUME LoggerTypes, Offer
  PROVE  /\ Head(outs) \in Listeners /\ Tail(outs) \in Seq(Listeners)
         /\ unread' \in [Listeners -> Nat]
         /\ last' \in [Listeners -> [Emitters -> Nat]]
         /\ \A c \in Listeners : c # Head(outs) => unread'[c] = unread[c]
         /\ \A c \in Listeners, e \in Emitters :
              last'[c][e] = last[c][e] \/ (e = event[1] /\ last'[c][e] = event[2])
<1>1. Head(outs) \in Listeners /\ Tail(outs) \in Seq(Listeners)
  BY TakeIn DEF Offer, LoggerTypes
<1>2. PICK h \in Listeners : h = Head(outs)
  BY <1>1
<1>3. PICK e \in Emitters, n \in Nat : event = <<e, n>>
  BY DEF Offer, LoggerTypes
<1>4. \/ unread' = unread /\ last' = last
      \/ /\ unread' = [unread EXCEPT ![h] = @ + 1]
         /\ last' = [last EXCEPT ![h][e] = n]
  BY <1>2, <1>3 DEF Offer
<1>5. unread \in [Listeners -> Nat] /\ last \in [Listeners -> [Emitters -> Nat]]
  BY DEF LoggerTypes
<1>6. /\ unread' \in [Listeners -> Nat]
      /\ \A c \in Listeners : c # h => unread'[c] = unread[c]
  BY <1>4, <1>5
<1>7. /\ last' \in [Listeners -> [Emitters -> Nat]]
      /\ \A c \in Listeners, d \in Emitters :
           last'[c][d] = last[c][d] \/ (d = e /\ last'[c][d] = n)
  <2>1. CASE last' = last
    BY <1>5, <2>1
  <2>2. CASE last' = [last EXCEPT ![h][e] = n]
    BY <1>5, <2>2
  <2>3. QED
    BY <1>4, <2>1, <2>2
<1>8. QED
  BY <1>1, <1>2, <1>3, <1>6, <1>7

LEMMA LoggerTypesStep == ASSUME LoggerInv, [Next]_vars PROVE LoggerTypes'
<1> USE LoggerAssumption DEF LoggerInv, LoggerTypes
<1>1. CASE Receive
  BY <1>1, TakeIn DEF Receive, histVars
<1>2. CASE Lock
  BY <1>2 DEF Lock, Forward
<1>3. CASE Offer
  BY <1>3, OfferEffect DEF Offer
<1>4. CASE Unlock
  BY <1>4 DEF Unlock, histVars
<1>5. ASSUME NEW e \in Emitters, CallEmit(e) PROVE LoggerTypes'
  BY <1>5 DEF CallEmit, histVars
<1>6. ASSUME NEW e \in Emitters, Emit(e) PROVE LoggerTypes'
  <2>1. <<e, emits[e]>> \in Emitters \X Nat
    OBVIOUS
  <2>2. QED
    BY <1>6, <2>1, PutIn DEF Emit, histVars
<1>7. ASSUME NEW c \in Listeners, CallListen(c) \/ Leave(c) \/ CallUnlisten(c) \/ Read(c)
      PROVE  LoggerTypes'
  <2>1. UNCHANGED <<inchan, outchans, fwd, event, outs, emits, last, owed>>
    BY <1>7 DEF CallListen, Leave, CallUnlisten, Read, Takes, histVars
  <2>2. listener' \in [Listeners -> {"off", "listen", "on", "wantsOff", "unlisten"}]
    BY <1>7 DEF CallListen, Leave, CallUnlisten, Read, Takes, histVars
  <2>3. unread' \in [Listeners -> Nat]
    BY <1>7 DEF CallListen, Leave, CallUnlisten, Read, Takes, histVars
  <2>4. QED
    BY <2>1, <2>2, <2>3
<1>8. ASSUME NEW c \in Listeners, Listen(c) PROVE LoggerTypes'
  BY <1>8, PutIn DEF Listen, Gives, histVars
<1>9. ASSUME NEW c \in Listeners, Unlisten(c) PROVE LoggerTypes'
  <2>1. outchans' \in Seq(Listeners)
    BY <1>9, KeepIn DEF Unlisten, WithoutChan
  <2>2. QED
    BY <1>9, <2>1 DEF Unlisten, Gives, histVars
<1>10. CASE UNCHANGED vars
  BY <1>10 DEF vars, histVars
<1>11. QED
  BY <1>1, <1>2, <1>3, <1>4, <1>5, <1>6, <1>7, <1>8, <1>9, <1>10 DEF Next, ForwarderStep

LEMMA ListStep == ASSUME LoggerInv, [Next]_vars PROVE ListInv'
<1> USE LoggerAssumption DEF LoggerInv, LoggerTypes, ListInv, Free, Fwd
<1>1. CASE Receive
  BY <1>1 DEF Receive, histVars
<1>2. CASE Lock
  BY <1>2 DEF Lock, Forward
<1>3. CASE Offer
  BY <1>3, TakeIn DEF Offer
<1>4. CASE Unlock
  BY <1>4 DEF Unlock, histVars
<1>5. ASSUME NEW e \in Emitters, CallEmit(e) \/ Emit(e) PROVE ListInv'
  BY <1>5 DEF CallEmit, Emit, histVars
<1>6. ASSUME NEW c \in Listeners, CallListen(c) \/ CallUnlisten(c) PROVE ListInv'
  BY <1>6 DEF CallListen, CallUnlisten, Takes, histVars
<1>7. ASSUME NEW c \in Listeners, Leave(c) \/ Read(c) PROVE ListInv'
  BY <1>7 DEF Leave, Read, histVars
<1>8. ASSUME NEW c \in Listeners, Listen(c) PROVE ListInv'
  <2>1. \A d : In(outchans', d) <=> d = c \/ In(outchans, d)
    BY <1>8, PutIn DEF Listen
  <2>2. QED
    BY <1>8, <2>1 DEF Listen, Gives, histVars
<1>9. ASSUME NEW c \in Listeners, Unlisten(c) PROVE ListInv'
  <2>1. \A d : In(outchans', d) <=> In(outchans, d) /\ d \in Listeners \ {c}
    BY <1>9, KeepIn DEF Unlisten, WithoutChan
  <2>2. QED
    BY <1>9, <2>1 DEF Unlisten, Gives, histVars
<1>10. CASE UNCHANGED vars
  BY <1>10 DEF vars, histVars
<1>11. QED
  BY <1>1, <1>2, <1>3, <1>4, <1>5, <1>6, <1>7, <1>8, <1>9, <1>10 DEF Next, ForwarderStep

LEMMA OrderStep == ASSUME LoggerInv, [Next]_vars PROVE OrderInv'
<1> USE DEF LoggerInv
<1>0. LoggerTypes' /\ LoggerTypes
  BY LoggerTypesStep
<1>1. CASE Receive
  <2>1. UnderWay' = UnderWay
    BY <1>1, <1>0, HeadTailProperties DEF Receive, UnderWay, LoggerTypes
  <2>2. QED
    BY <1>1, <2>1 DEF Receive, histVars, OrderInv
<1>2. ASSUME UNCHANGED <<UnderWay, emits, last>> PROVE OrderInv'
  BY <1>2 DEF OrderInv
<1>3. CASE Offer
  <2>1. /\ UnderWay' = UnderWay /\ emits' = emits
        /\ UnderWay[1] = event /\ 1 \in 1..Len(UnderWay)
        /\ UnderWay \in Seq(Emitters \X Nat)
        /\ Head(outs) \in Listeners
    BY <1>3, <1>0, UnderWayIs, TakeIn DEF Offer, UnderWay, LoggerTypes
  <2>2. \A i \in 1..Len(UnderWay) : UnderWay[i] \in Emitters \X Nat
    BY <2>1, ElementOfSeq
  <2>3. \A i \in 1..Len(UnderWay) : UnderWay[i][1] = event[1] => event[2] <= UnderWay[i][2]
    <3> TAKE i \in 1..Len(UnderWay)
    <3>1. CASE i = 1
      BY <2>1, <2>2, <3>1
    <3>2. CASE 1 < i
      BY <2>1, <2>2, <3>2 DEF OrderInv
    <3>3. QED
      BY <3>1, <3>2
  <2>4. \A c \in Listeners, e \in Emitters :
          last'[c][e] = last[c][e] \/ (e = event[1] /\ last'[c][e] = event[2])
    BY <1>3, <1>0, OfferEffect DEF LoggerTypes
  <2>5. event[2] <= emits[event[1]]
    BY <2>1 DEF OrderInv
  <2>6. QED
    BY <2>1, <2>2, <2>3, <2>4, <2>5 DEF OrderInv
<1>4. CASE Unlock
  <2>1. /\ UnderWay' = inchan /\ UNCHANGED <<emits, last>>
        /\ Len(UnderWay) = Len(inchan) + 1 /\ Len(inchan) \in Nat
        /\ \A i \in 1..Len(inchan) : UnderWay[i + 1] = inchan[i]
    BY <1>4, <1>0, UnderWayIs DEF Unlock, UnderWay, histVars
  <2>2. \A i \in 1..Len(inchan) : i + 1 \in 1..Len(UnderWay)
    BY <2>1
  <2>3. ASSUME NEW i \in 1..Len(inchan), NEW j \in 1..Len(inchan),
               i < j, inchan[i][1] = inchan[j][1]
        PROVE  inchan[i][2] <= inchan[j][2]
    <3>1. i + 1 < j + 1 /\ inchan[i] = UnderWay[i + 1] /\ inchan[j] = UnderWay[j + 1]
      BY <2>1, <2>3
    <3>2. QED
      BY <2>2, <2>3, <3>1 DEF OrderInv
  <2>4. ASSUME NEW i \in 1..Len(inchan)
        PROVE  /\ inchan[i][2] <= emits[inchan[i][1]]
               /\ \A c \in Listeners : last[c][inchan[i][1]] <= inchan[i][2]
    BY <2>1, <2>2 DEF OrderInv
  <2>5. QED
    BY <2>1, <2>3, <2>4 DEF OrderInv
<1>5. ASSUME NEW e \in Emitters, CallEmit(e) PROVE OrderInv'
  <2>1. UnderWay' = UnderWay /\ last' = last
    BY <1>5 DEF CallEmit, UnderWay, histVars
  <2>2. \A d \in Emitters : emits[d] \in Nat /\ emits'[d] >= emits[d]
    BY <1>5, <1>0 DEF CallEmit, LoggerTypes
  <2>3. \A i \in 1..Len(UnderWay) : UnderWay[i] \in Emitters \X Nat
    BY <1>0, UnderWayIs, ElementOfSeq
  <2>4. \A c \in Listeners, d \in Emitters : last[c][d] \in Nat
    BY <1>0 DEF LoggerTypes
  <2>5. \A d \in Emitters : emits'[d] \in Nat
    BY <1>0 DEF LoggerTypes
  <2>6. QED
    BY <2>1, <2>2, <2>3, <2>4, <2>5 DEF OrderInv
<1>6. ASSUME NEW e \in Emitters, Emit(e) PROVE OrderInv'
  <2> DEFINE n == Len(UnderWay)
             x == <<e, emits[e]>>
  <2>1. x \in Emitters \X Nat
    BY <1>0 DEF LoggerTypes
  <2>2. UnderWay' = Append(UnderWay, x)
    <3>1. CASE fwd = "receive"
      BY <1>6, <3>1 DEF Emit, UnderWay
    <3>2. CASE fwd # "receive"
      <4>1. <<event>> \in Seq(Emitters \X Nat) /\ inchan \in Seq(Emitters \X Nat)
        BY <1>0, <3>2 DEF LoggerTypes
      <4>2. <<event>> \o Append(inchan, x) = Append(<<event>> \o inchan, x)
        BY <2>1, <4>1
      <4>3. QED
        BY <1>6, <3>2, <4>2 DEF Emit, UnderWay
    <3>3. QED
      BY <3>1, <3>2
  <2>3. /\ UnderWay \in Seq(Emitters \X Nat) /\ n \in Nat
        /\ \A i \in 1..n : UnderWay[i] \in Emitters \X Nat
    BY <1>0, UnderWayIs, ElementOfSeq, LenProperties
  <2>4. /\ Len(UnderWay') = n + 1 /\ UnderWay'[n + 1] = x
        /\ \A i \in 1..n : UnderWay'[i] = UnderWay[i]
        /\ \A i \in 1..Len(UnderWay') : i \in 1..n \/ i = n + 1
    BY <2>1, <2>2, <2>3, AppendProperties
  <2>5. UNCHANGED <<emits, last>>
    BY <1>6 DEF Emit, histVars
  <2>6. x[1] = e /\ x[2] = emits[e] /\ emits[e] \in Nat
    BY <1>0 DEF LoggerTypes
  <2> HIDE DEF n, x
  <2>7. ASSUME NEW i \in 1..Len(UnderWay'), NEW j \in 1..Len(UnderWay'),
               i < j, UnderWay'[i][1] = UnderWay'[j][1]
        PROVE  UnderWay'[i][2] <= UnderWay'[j][2]
    <3>1. i \in 1..n /\ UnderWay'[i] = UnderWay[i]
      BY <2>3, <2>4, <2>7
    <3>2. CASE j \in 1..n
      BY <2>4, <2>7, <3>1, <3>2 DEF OrderInv, n
    <3>3. CASE j = n + 1
      <4>1. UnderWay[i][2] <= emits[UnderWay[i][1]]
        BY <3>1 DEF OrderInv, n
      <4>2. QED
        BY <2>4, <2>6, <2>7, <3>1, <3>3, <4>1
    <3>4. QED
      BY <2>4, <3>2, <3>3
  <2>8. ASSUME NEW i \in 1..Len(UnderWay')
        PROVE  /\ UnderWay'[i][2] <= emits[UnderWay'[i][1]]
               /\ \A c \in Listeners : last[c][UnderWay'[i][1]] <= UnderWay'[i][2]
    <3>1. CASE i \in 1..n
      BY <2>4, <3>1 DEF OrderInv, n
    <3>2. CASE i = n + 1
      BY <2>4, <2>6, <3>2 DEF OrderInv
    <3>3. QED
      BY <2>4, <3>1, <3>2
  <2>9. QED
    BY <2>5, <2>7, <2>8 DEF OrderInv
<1>7. ASSUME NEW c \in Listeners, CallListen(c) \/ Leave(c) \/ CallUnlisten(c) \/ Read(c)
      PROVE  UNCHANGED <<UnderWay, emits, last>>
  BY <1>7 DEF CallListen, Leave, CallUnlisten, Read, Takes, histVars, UnderWay
<1>8. ASSUME NEW c \in Listeners, Listen(c) \/ Unlisten(c) PROVE UNCHANGED <<UnderWay, emits, last>>
  BY <1>8 DEF Listen, Unlisten, Gives, histVars, UnderWay
<1>9. CASE Lock
  BY <1>2, <1>9 DEF Lock, Forward, UnderWay
<1>10. CASE UNCHANGED vars
  BY <1>2, <1>10 DEF vars, histVars, UnderWay
<1>11. QED
  BY <1>1, <1>2, <1>3, <1>4, <1>5, <1>6, <1>7, <1>8, <1>9, <1>10 DEF Next, ForwarderStep

LEMMA LoggerInductive == Spec => []LoggerInv
<1>1. Init => LoggerInv
  <2> SUFFICES ASSUME Init PROVE LoggerInv
    OBVIOUS
  <2>1. LoggerTypes
    BY DEF Init, LoggerTypes
  <2>2. ListInv
    BY LoggerAssumption DEF Init, ListInv, In, Free, Fwd
  <2>3. OrderInv
    BY DEF Init, OrderInv, UnderWay
  <2>4. QED
    BY <2>1, <2>2, <2>3 DEF LoggerInv
<1>2. LoggerInv /\ [Next]_vars => LoggerInv'
  BY LoggerTypesStep, ListStep, OrderStep DEF LoggerInv
<1>3. QED
  BY <1>1, <1>2, PTL DEF Spec

(* Once Unlisten has returned, nothing more is put in the channel          *)
(* (NothingAfterUnlisten): the forwarder's copy of the list dates from     *)
(* when it took the lock, and nobody left the list since.                  *)
THEOREM UnlistenCorrect == Spec => NothingAfterUnlisten
<1>1. LoggerInv /\ [Next]_vars =>
        [\A c \in Listeners : listener[c] = "off" => unread'[c] <= unread[c]]_vars
  <2> SUFFICES ASSUME LoggerInv, Next, NEW c \in Listeners, listener[c] = "off"
               PROVE  unread'[c] <= unread[c]
    OBVIOUS
  <2>1. unread[c] \in Nat
    BY DEF LoggerInv, LoggerTypes
  <2>2. CASE unread' = unread
    BY <2>1, <2>2
  <2>3. CASE Offer
    <3>1. Head(outs) # c
      BY <2>3, TakeIn DEF Offer, LoggerInv, LoggerTypes, ListInv
    <3>2. unread'[c] = unread[c]
      BY <2>3, <3>1, OfferEffect DEF LoggerInv
    <3>3. QED
      BY <2>1, <3>2
  <2>4. ASSUME NEW d \in Listeners, Read(d) PROVE unread'[c] <= unread[c]
    BY <2>1, <2>4 DEF Read, LoggerInv, LoggerTypes
  <2>5. QED
    BY <2>2, <2>3, <2>4
    DEF Next, ForwarderStep, Receive, Lock, Forward, Unlock, CallEmit, Emit, CallListen, Listen,
        Leave, CallUnlisten, Unlisten, Takes, Gives
<1>2. QED
  BY <1>1, LoggerInductive, PTL DEF Spec, NothingAfterUnlisten

(* A listener gets the events of each emitter in the order of its calls,   *)
(* and the forwarder does not go on before it has offered the event to     *)
(* everyone who listened when it took the lock (DeliveredInOrder).         *)
THEOREM DeliveryCorrect == Spec => DeliveredInOrder
<1> DEFINE Good(c) == /\ \A e \in Emitters : last'[c][e] >= last[c][e]
                      /\ fwd = "send" /\ fwd' # "send" => c \notin owed
<1>1. LoggerInv /\ [Next]_vars => [\A c \in Listeners : Good(c)]_vars
  <2> SUFFICES ASSUME LoggerInv, Next, NEW c \in Listeners PROVE Good(c)
    OBVIOUS
  <2>1. \A e \in Emitters : last[c][e] \in Nat
    BY DEF LoggerInv, LoggerTypes
  <2>2. ASSUME last' = last, fwd' = fwd \/ fwd # "send" PROVE Good(c)
    BY <2>1, <2>2
  <2>3. CASE Offer
    <3>1. UnderWay[1] = event /\ 1 \in 1..Len(UnderWay) /\ event \in Emitters \X Nat
      <4>1. LoggerTypes /\ fwd # "receive" /\ event \in Emitters \X Nat
        BY <2>3 DEF Offer, LoggerInv, LoggerTypes
      <4>2. UnderWay[1] = event /\ Len(UnderWay) = Len(inchan) + 1 /\ Len(inchan) \in Nat
        BY <4>1, UnderWayIs
      <4>3. QED
        BY <4>1, <4>2
    <3>2. last[c][event[1]] <= event[2]
      BY <3>1 DEF LoggerInv, OrderInv
    <3>3. \A e \in Emitters : last'[c][e] = last[c][e] \/ (e = event[1] /\ last'[c][e] = event[2])
      BY <2>3, OfferEffect DEF LoggerInv, LoggerTypes
    <3>4. QED
      BY <2>1, <2>3, <3>1, <3>2, <3>3 DEF Offer
  <2>4. CASE Unlock
    <3>1. c \notin owed
      BY <2>4 DEF Unlock, LoggerInv, ListInv, In
    <3>2. QED
      BY <2>1, <2>4, <3>1 DEF Unlock, histVars
  <2>5. QED
    BY <2>2, <2>3, <2>4
    DEF Next, ForwarderStep, Receive, Lock, Forward, CallEmit, Emit, CallListen, Listen,
        Leave, CallUnlisten, Unlisten, Takes, Gives, Read, histVars
<1>2. QED
  BY <1>1, LoggerInductive, PTL DEF Spec, DeliveredInOrder
-----------------------------------------------------------------------------
(* The closer.  The list, and each copy of it that an append has read,     *)
(* holds everyone whose Register overlapped with no other, and nobody      *)
(* twice.                                                                  *)
Stored(q) ==
  /\ q \in Seq(Closers)
  /\ Distinct(q)
  /\ \A c \in Closers : In(q, c) => register[c] = "done"
  /\ \A c \in Closers : register[c] = "done" /\ c \notin raced => In(q, c)

CloserInv ==
  /\ register \in [Closers -> {"idle", "once", "append", "done"}]
  /\ readList \in [Closers -> Seq(Closers)]
  /\ closing \in {"wait", "close", "exit", "crash"}
  /\ Stored(closers)
  /\ \A c \in Appending : Stored(readList[c])
  /\ \A c, d \in Appending : c # d => c \in raced
  /\ closed \in Seq(Closers) /\ toClose \in Seq(Closers)
  /\ closing = "wait" => closed = <<>> /\ toClose = <<>> /\ due = {}
  /\ closing = "close" => signalled
  /\ closing = "exit" => toClose = <<>>
  /\ Distinct(closed) /\ Distinct(toClose)
  /\ \A c \in Closers : ~(In(closed, c) /\ In(toClose, c))
  /\ due \subseteq Closers
  /\ closing # "crash" => \A c \in due : In(closed, c) \/ In(toClose, c)

LEMMA StoredTakes ==
  ASSUME Stored(closers), NEW c \in Closers, register' = [register EXCEPT ![c] = "done"],
         register \in [Closers -> {"idle", "once", "append", "done"}],
         register[c] = "append", NEW q, Stored(q), raced' = raced
  PROVE  LET s == Append(q, c)
         IN  /\ s \in Seq(Closers)
             /\ Distinct(s)
             /\ \A d \in Closers : In(s, d) => register'[d] = "done"
             /\ \A d \in Closers : register'[d] = "done" /\ d \notin raced => In(s, d)
<1>1. ~In(q, c) /\ q \in Seq(Closers) /\ Distinct(q)
  BY DEF Stored
<1>2. Append(q, c) \in Seq(Closers) /\ \A d : In(Append(q, c), d) <=> d = c \/ In(q, d)
  BY <1>1, PutIn
<1>3. Distinct(Append(q, c))
  BY <1>1, PutDistinct
<1>4. \A d \in Closers : register'[d] = IF d = c THEN "done" ELSE register[d]
  OBVIOUS
<1>5. QED
  BY <1>2, <1>3, <1>4 DEF Stored

LEMMA CloserStep == ASSUME CloserInv, [CloserNext]_closerVars PROVE CloserInv'
<1> USE DEF CloserInv, Appending
<1>1. ASSUME NEW c \in Closers, CallRegister(c) PROVE CloserInv'
  <2>1. \A d \in Closers : register'[d] = IF d = c THEN "once" ELSE register[d]
    BY <1>1 DEF CallRegister
  <2>2. /\ register[c] = "idle"
        /\ UNCHANGED <<closers, readList, closing, toClose, closed, raced, due, signalled>>
    BY <1>1 DEF CallRegister
  <2>3. Stored(closers)' /\ \A d \in Appending' : Stored(readList[d])'
    BY <2>1, <2>2 DEF Stored
  <2>4. QED
    BY <1>1, <2>1, <2>2, <2>3 DEF CallRegister
<1>2. ASSUME NEW c \in Closers, ReadItems(c) PROVE CloserInv'
  <2>1. \A d \in Closers : register'[d] = IF d = c THEN "append" ELSE register[d]
    BY <1>2 DEF ReadItems
  <2>2. /\ register[c] = "once" /\ UNCHANGED <<closers, closing, toClose, closed, due, signalled>>
        /\ raced \subseteq raced'
        /\ \A d \in Appending : c \in raced' /\ d \in raced'
        /\ readList' = [readList EXCEPT ![c] = closers]
    BY <1>2 DEF ReadItems
  <2>3. Stored(closers)' /\ \A d \in Appending' : Stored(readList[d])'
    BY <2>1, <2>2 DEF Stored
  <2>4. \A d, e \in Appending' : d # e => d \in raced'
    BY <2>1, <2>2
  <2>5. /\ register' \in [Closers -> {"idle", "once", "append", "done"}]
        /\ readList' \in [Closers -> Seq(Closers)]
    BY <1>2, <2>2 DEF ReadItems, Stored
  <2>6. QED
    BY <2>2, <2>3, <2>4, <2>5
<1>3. ASSUME NEW c \in Closers, StoreItems(c) PROVE CloserInv'
  <2>1. /\ register[c] = "append" /\ UNCHANGED <<closing, toClose, closed, raced, due, signalled>>
        /\ register' = [register EXCEPT ![c] = "done"]
        /\ closers' = Append(readList[c], c)
        /\ readList' = [readList EXCEPT ![c] = <<>>]
    BY <1>3 DEF StoreItems
  <2>2. \A d \in Closers : register'[d] = IF d = c THEN "done" ELSE register[d]
    BY <2>1
  <2>3. Stored(closers)'
    BY <2>1, StoredTakes DEF Stored
  <2>4. ASSUME NEW d \in Appending' PROVE Stored(readList[d])'
    <3>1. d \in Appending /\ d # c /\ readList'[d] = readList[d]
      BY <2>1, <2>2
    <3>2. c \in raced /\ Stored(readList[d])
      BY <2>1, <3>1
    <3>3. QED
      BY <2>1, <2>2, <3>1, <3>2 DEF Stored
  <2>5. /\ register' \in [Closers -> {"idle", "once", "append", "done"}]
        /\ readList' \in [Closers -> Seq(Closers)]
        /\ \A d, e \in Appending' : d # e => d \in raced'
    BY <2>1, <2>2
  <2>6. QED
    BY <2>1, <2>3, <2>4, <2>5
<1>4. ASSUME UNCHANGED <<closers, register, readList>>, raced \subseteq raced'
      PROVE  /\ register' \in [Closers -> {"idle", "once", "append", "done"}]
             /\ readList' \in [Closers -> Seq(Closers)]
             /\ Stored(closers)'
             /\ \A c \in Appending' : Stored(readList[c])'
             /\ \A c, d \in Appending' : c # d => c \in raced'
  BY <1>4 DEF Stored
<1>5. CASE Signal
  <2>1. UNCHANGED <<closers, register, readList, raced, toClose, closed, due>>
    BY <1>5 DEF Signal
  <2>2. closing = "wait" /\ closing' \in {"wait", "exit"}
    BY <1>5 DEF Signal, Running
  <2>3. QED
    BY <1>4, <2>1, <2>2
<1>6. CASE RangeItems
  <2>1. /\ UNCHANGED <<closers, register, readList, closed, signalled>> /\ raced \subseteq raced'
        /\ closed = <<>> /\ closing = "wait" /\ signalled
        /\ \/ closing' = "close" /\ toClose' = closers
           \/ closing' = "crash" /\ toClose' = toClose
        /\ due' = {c \in Closers : register[c] = "done"} \ raced
    BY <1>6 DEF RangeItems
  <2>2. \A c : ~In(closed, c)
    BY <2>1 DEF In
  <2>3. /\ closers \in Seq(Closers) /\ Distinct(closers)
        /\ \A c \in due' : In(closers, c)
    BY <2>1 DEF Stored
  <2>4. QED
    BY <1>4, <2>1, <2>2, <2>3
<1>7. CASE CloseItem
  <2> DEFINE c == Head(toClose)
  <2>1. /\ UNCHANGED <<closers, register, readList, closing, raced, due, signalled>>
        /\ closed' = Append(closed, c) /\ toClose' = Tail(toClose)
        /\ toClose # <<>> /\ closing = "close"
    BY <1>7 DEF CloseItem
  <2>2. /\ c \in Closers /\ toClose' \in Seq(Closers) /\ In(toClose, c)
        /\ \A x : In(toClose, x) <=> x = c \/ In(toClose', x)
    BY <2>1, TakeIn
  <2>3. Distinct(toClose') /\ ~In(toClose', c)
    BY <2>1, TakeDistinct
  <2>4. ~In(closed, c)
    BY <2>2
  <2>5. closed' \in Seq(Closers) /\ \A x : In(closed', x) <=> x = c \/ In(closed, x)
    BY <2>1, <2>2, PutIn
  <2>6. Distinct(closed')
    BY <2>1, <2>2, <2>4, PutDistinct
  <2> HIDE DEF c
  <2>7. QED
    BY <1>4, <2>1, <2>2, <2>3, <2>4, <2>5, <2>6
<1>8. CASE Exit
  BY <1>4, <1>8 DEF Exit
<1>9. CASE UNCHANGED closerVars
  BY <1>4, <1>9 DEF closerVars
<1>10. QED
  BY <1>1, <1>2, <1>3, <1>5, <1>6, <1>7, <1>8, <1>9 DEF CloserNext

LEMMA DistinctCardinality ==
  ASSUME NEW S, NEW q \in Seq(S), Distinct(q)
  PROVE  Cardinality(ToSet(q)) = Len(q)
<1>1. Len(q) \in Nat /\ DOMAIN q = 1..Len(q)
  BY LenProperties
<1>2. q \in [1..Len(q) -> ToSet(q)] /\ \A x \in ToSet(q) : \E i \in 1..Len(q) : q[i] = x
  BY <1>1 DEF ToSet
<1>3. q \in Bijection(1..Len(q), ToSet(q))
  <2>1. q \in Injection(1..Len(q), ToSet(q))
    BY <1>1, <1>2 DEF Distinct, Injection, IsInjective
  <2>2. q \in Surjection(1..Len(q), ToSet(q))
    BY <1>2 DEF Surjection
  <2> QED
    BY <2>1, <2>2 DEF Bijection
<1>4. ExistsBijection(1..Len(q), ToSet(q))
  BY <1>3 DEF ExistsBijection
<1>5. IsFiniteSet(1..Len(q)) /\ Cardinality(1..Len(q)) = Len(q)
  BY <1>1, FS_Interval
<1>6. QED
  BY <1>4, <1>5, FS_Bijection

(* When the process exits, everyone whose Register had returned, and       *)
(* overlapped with no other, before the list was read has been closed, and *)
(* nobody twice (RegisteredAreClosed).                                     *)
THEOREM ShutdownCorrect == CloserSpec => []RegisteredAreClosed
<1>1. CloserInit => CloserInv
  BY DEF CloserInit, CloserInv, Stored, Appending, In, Distinct
<1>2. CloserInv => RegisteredAreClosed
  <2> SUFFICES ASSUME CloserInv, closing = "exit"
               PROVE  due \subseteq ToSet(closed) /\ Cardinality(ToSet(closed)) = Len(closed)
    BY DEF RegisteredAreClosed
  <2>1. closed \in Seq(Closers) /\ Distinct(closed) /\ toClose = <<>>
    BY DEF CloserInv
  <2>2. \A c \in due : In(closed, c)
    BY <2>1 DEF CloserInv, In
  <2>3. due \subseteq ToSet(closed)
    BY <2>1, <2>2, LenProperties DEF In, ToSet
  <2>4. QED
    BY <2>1, <2>3, DistinctCardinality
<1>3. QED
  BY <1>1, <1>2, CloserStep, PTL DEF CloserSpec
=============================================================================
