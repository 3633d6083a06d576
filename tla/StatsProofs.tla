---------------------------- MODULE StatsProofs ----------------------------
(***************************************************************************)
(* Stats, for any timeamounts, items, goroutines and channels: what is     *)
(* kept and what was persisted is what the loop counted, each epoch once   *)
(* and in order, no answer to Get shows an item half counted, and an item  *)
(* is counted in an epoch that its time lies in or is rounded up to.       *)
(***************************************************************************)
EXTENDS Stats, QueueLemmas

-----------------------------------------------------------------------------
(* Integer division and the epochs of a timeamount.                        *)
LEMMA Division ==
  ASSUME NEW a \in Nat, NEW b \in Nat \ {0}
  PROVE  a \div b \in Nat /\ b * (a \div b) <= a /\ a < b * ((a \div b) + 1)
OBVIOUS

LEMMA TimesLess ==
  ASSUME NEW b \in Nat \ {0}, NEW x \in Nat, NEW y \in Nat, b * x < b * y
  PROVE  x < y
OBVIOUS

LEMMA TimesMore ==
  ASSUME NEW b \in Nat, NEW x \in Nat, NEW y \in Nat, x <= y
  PROVE  x * b <= y * b
OBVIOUS

LEMMA DivisionMonotone ==
  ASSUME NEW a \in Nat, NEW c \in Nat, a <= c, NEW b \in Nat \ {0}
  PROVE  a \div b <= c \div b
PROOF
<1>1. PICK q \in Nat : q = a \div b
  BY Division
<1>2. PICK r \in Nat : r = c \div b
  BY Division
<1>3. b * q <= a /\ c < b * (r + 1)
  BY <1>1, <1>2, Division
<1>4. b * q \in Nat /\ b * (r + 1) \in Nat
  OBVIOUS
<1>5. b * q < b * (r + 1)
  BY <1>3, <1>4
<1>6. q < r + 1
  BY <1>5, TimesLess
<1> QED
  BY <1>1, <1>2, <1>6

LEMMA EpochTimes ==
  ASSUME NEW ta, IsTimeAmount(ta), NEW t \in Nat
  PROVE  /\ ToTrendrrEpoch(ta, t) \in Nat
         /\ FromTrendrrEpoch(ta, ToTrendrrEpoch(ta, t)) <= t + Slack[ta.timeframe]
         /\ t < FromTrendrrEpoch(ta, ToTrendrrEpoch(ta, t) + 1)
         /\ \A u \in Nat : t <= u => ToTrendrrEpoch(ta, t) <= ToTrendrrEpoch(ta, u)
PROOF
<1>1. PICK m \in Nat \ {0} : m = Ticks[ta.timeframe]
  BY TicksAssumption DEF IsTimeAmount
<1>2. PICK a \in Nat \ {0} : a = ta.amount
  BY DEF IsTimeAmount
<1>0. PICK w \in Nat : w = Slack[ta.timeframe]
  BY TicksAssumption DEF IsTimeAmount
<1>3. \A u \in Nat : ToTrendrrEpoch(ta, u) = ((u + w) \div m) \div a
  <2> TAKE u \in Nat
  <2>1. u + w \in Nat /\ (u + w) \div m \in Nat
    BY Division
  <2>2. Truncated(ta.timeframe, u) = (u + w) \div m
    BY <1>0, <1>1, <2>1 DEF Truncated, Quot
  <2> QED
    BY <1>2, <2>1, <2>2 DEF ToTrendrrEpoch, Quot
<1>13. PICK x \in Nat : x = t + w
  OBVIOUS
<1>4. PICK q \in Nat : q = x \div m
  BY Division
<1>5. PICK e \in Nat : e = q \div a
  BY Division
<1>6. ToTrendrrEpoch(ta, t) = e
  BY <1>3, <1>4, <1>5, <1>13
<1>7. m * q <= x /\ x < m * (q + 1) /\ a * e <= q /\ q < a * (e + 1)
  BY <1>4, <1>5, Division
<1>8. a * e \in Nat /\ a * (e + 1) \in Nat /\ q + 1 \in Nat /\ q + 1 <= a * (e + 1)
  BY <1>7
<1>9. (a * e) * m <= q * m /\ (q + 1) * m <= (a * (e + 1)) * m
  BY <1>7, <1>8, TimesMore
<1>10. q * m = m * q /\ (q + 1) * m = m * (q + 1)
  OBVIOUS
<1>11. (a * e) * m <= x /\ x < (a * (e + 1)) * m
  <2>1. (a * e) * m \in Nat /\ (a * (e + 1)) * m \in Nat /\ m * q \in Nat /\ m * (q + 1) \in Nat
    BY <1>8
  <2> QED
    BY <1>7, <1>9, <1>10, <2>1
<1>14. t < (a * (e + 1)) * m
  <2>1. PICK y \in Nat : y = (a * (e + 1)) * m
    BY <1>8
  <2> QED
    BY <1>11, <1>13, <2>1
<1>12. ASSUME NEW u \in Nat, t <= u PROVE e <= ToTrendrrEpoch(ta, u)
  <2>0. u + w \in Nat /\ t + w \in Nat /\ t + w <= u + w
    BY <1>12
  <2>1. (t + w) \div m <= (u + w) \div m /\ (u + w) \div m \in Nat /\ (t + w) \div m \in Nat
    BY <2>0, DivisionMonotone, Division
  <2> QED
    BY <1>3, <1>4, <1>5, <1>13, <2>1, DivisionMonotone
<1> QED
  BY <1>0, <1>1, <1>2, <1>6, <1>11, <1>12, <1>13, <1>14 DEF FromTrendrrEpoch
-----------------------------------------------------------------------------
(* The value that items stand for.                                         *)
Mark == [round : Nat, epoch : Int, time : Int]
Took  == [item : Items, counted : [Timeamounts -> Mark]]

Counts(f, s, is) ==
  /\ f \in [0..Len(s) -> Nat] /\ f[0] = 0
  /\ \A n \in 1..Len(s) :
       f[n] = IF n \notin is THEN f[n - 1]
              ELSE IF s[n].item.typ = "SET" THEN s[n].item.val
              ELSE f[n - 1] + s[n].item.val

LEMMA ValueLoop ==
  ASSUME NEW s \in Seq(Took), NEW is
  PROVE  \E f : Counts(f, s, is) /\ Value(s, is) = f[Len(s)]
PROOF
<1> DEFINE n == Len(s)
           step == [x \in (1..n) \X Nat |->
                      IF x[1] \notin is THEN x[2]
                      ELSE IF s[x[1]].item.typ = "SET" THEN s[x[1]].item.val
                      ELSE x[2] + s[x[1]].item.val]
           Loop(f) == f = [i \in 0..n |->
                             IF i = 0 THEN 0
                             ELSE IF i \notin is THEN f[i - 1]
                             ELSE IF s[i].item.typ = "SET" THEN s[i].item.val
                             ELSE f[i - 1] + s[i].item.val]
<1>1. n \in Nat /\ \A i \in 1..n : s[i].item.val \in Nat
  <2>1. n \in Nat /\ \A i \in 1..n : s[i] \in Took
    BY ElementOfSeq, LenProperties
  <2> QED
    BY <2>1, StatsAssumption DEF Took
<1>2. step \in [(1..n) \X Nat -> Nat]
  BY <1>1
<1>3. PICK f : LoopsBy(f, Nat, 0, n, step)
  <2> HIDE DEF step
  <2> QED
    BY <1>1, <1>2, LoopExists
<1>4. \A i \in 1..n : f[i] = IF i \notin is THEN f[i - 1]
                             ELSE IF s[i].item.typ = "SET" THEN s[i].item.val
                             ELSE f[i - 1] + s[i].item.val
  <2> TAKE i \in 1..n
  <2>1. i - 1 \in 0..n /\ f[i - 1] \in Nat
    <3>1. f \in [0..n -> Nat]
      BY <1>3 DEF LoopsBy
    <3> QED
      BY <1>1, <3>1
  <2>2. <<i, f[i - 1]>> \in (1..n) \X Nat
    BY <2>1
  <2> QED
    BY <1>3, <2>2 DEF LoopsBy
<1>5. Loop(f)
  <2>1. \A i \in 0..n : f[i] = IF i = 0 THEN 0
                               ELSE IF i \notin is THEN f[i - 1]
                               ELSE IF s[i].item.typ = "SET" THEN s[i].item.val
                               ELSE f[i - 1] + s[i].item.val
    <3> TAKE i \in 0..n
    <3>1. CASE i = 0
      BY <1>3, <3>1 DEF LoopsBy
    <3>2. CASE i \in 1..n
      BY <1>4, <3>2
    <3> QED
      BY <1>1, <3>1, <3>2
  <2>2. f \in [0..n -> Nat]
    BY <1>3 DEF LoopsBy
  <2> QED
    BY <2>1, <2>2
<1> DEFINE g == CHOOSE h : Loop(h)
<1>6. Loop(g)
  <2> HIDE DEF Loop
  <2> QED
    BY <1>5
<1>7. Value(s, is) = g[n]
  BY DEF Value
<1> HIDE DEF g
<1>8. \A i \in 0..n : g[i] = IF i = 0 THEN 0
                             ELSE IF i \notin is THEN g[i - 1]
                             ELSE IF s[i].item.typ = "SET" THEN s[i].item.val
                             ELSE g[i - 1] + s[i].item.val
  BY <1>6 DEF Loop
<1> DEFINE Typed == {i \in Nat : i <= n => g[i] \in Nat}
<1>9. 0 \in Typed
  BY <1>1, <1>8
<1>10. ASSUME NEW i \in Nat, i \in Typed PROVE i + 1 \in Typed
  <2> SUFFICES ASSUME i + 1 <= n PROVE g[i + 1] \in Nat
    OBVIOUS
  <2>1. g[i] \in Nat /\ i + 1 \in 1..n /\ i + 1 \in 0..n /\ (i + 1) - 1 = i
    BY <1>1, <1>10
  <2> QED
    BY SMTT(30), <1>1, <1>8, <2>1
<1>11. \A i \in 0..n : g[i] \in Nat
  <2> HIDE DEF Typed
  <2>1. \A i \in Nat : i \in Typed
    BY <1>9, <1>10, NumberInduction
  <2> QED
    BY <1>1, <2>1 DEF Typed
<1>12. g \in [0..n -> Nat]
  BY <1>6, <1>11
<1>13. g[0] = 0 /\ \A i \in 1..n : g[i] = IF i \notin is THEN g[i - 1]
                                         ELSE IF s[i].item.typ = "SET" THEN s[i].item.val
                                         ELSE g[i - 1] + s[i].item.val
  BY <1>1, <1>8
<1> QED
  BY <1>7, <1>12, <1>13 DEF Counts

(* Items that were not counted change nothing...                           *)
LEMMA CountsStay ==
  ASSUME NEW s \in Seq(Took), NEW is, NEW f, Counts(f, s, is), NEW m \in 0..Len(s),
         \A i \in is : i \in 1..m
  PROVE  f[Len(s)] = f[m]
PROOF
<1> DEFINE G == {i \in Nat : m + i <= Len(s) => f[m + i] = f[m]}
<1>0. Len(s) \in Nat
  BY LenProperties
<1>1. 0 \in G
  BY <1>0
<1>2. ASSUME NEW i \in Nat, i \in G PROVE i + 1 \in G
  <2> SUFFICES ASSUME m + (i + 1) <= Len(s) PROVE f[m + (i + 1)] = f[m]
    OBVIOUS
  <2>1. f[m + i] = f[m]
    BY <1>0, <1>2
  <2>2. m + (i + 1) \in 1..Len(s) /\ m + (i + 1) \notin is /\ (m + (i + 1)) - 1 = m + i
    BY <1>0
  <2> QED
    BY <2>1, <2>2 DEF Counts
<1>3. \A i \in Nat : i \in G
  <2> HIDE DEF G
  <2> QED
    BY <1>1, <1>2, NumberInduction
<1>4. Len(s) - m \in Nat /\ m + (Len(s) - m) = Len(s)
  BY <1>0
<1>5. Len(s) - m \in G
  BY <1>3, <1>4
<1>6. m + (Len(s) - m) <= Len(s)
  BY <1>0
<1>7. f[m + (Len(s) - m)] = f[m]
  BY <1>5, <1>6
<1> QED
  BY <1>4, <1>7

(* ...and two counts that agree on the items agree on the value.           *)
LEMMA CountsAgree ==
  ASSUME NEW s \in Seq(Took), NEW is, NEW f, Counts(f, s, is),
         NEW t \in Seq(Took), NEW js, NEW g, Counts(g, t, js),
         NEW m \in Nat, m <= Len(s), m <= Len(t),
         \A i \in 1..m : s[i].item = t[i].item /\ (i \in is <=> i \in js)
  PROVE  f[m] = g[m]
PROOF
<1> DEFINE G == {i \in Nat : i <= m => f[i] = g[i]}
<1>0. Len(s) \in Nat /\ Len(t) \in Nat
  BY LenProperties
<1>1. 0 \in G
  BY DEF Counts
<1>2. ASSUME NEW i \in Nat, i \in G PROVE i + 1 \in G
  <2> SUFFICES ASSUME i + 1 <= m PROVE f[i + 1] = g[i + 1]
    OBVIOUS
  <2>1. f[i] = g[i]
    BY <1>2
  <2>2. i + 1 \in 1..m /\ i + 1 \in 1..Len(s) /\ i + 1 \in 1..Len(t) /\ (i + 1) - 1 = i
    BY <1>0
  <2>3. s[i + 1].item = t[i + 1].item /\ (i + 1 \in is <=> i + 1 \in js)
    BY <2>2
  <2> QED
    BY <2>1, <2>2, <2>3 DEF Counts
<1>3. \A i \in Nat : i \in G
  <2> HIDE DEF G
  <2> QED
    BY <1>1, <1>2, NumberInduction
<1> QED
  BY <1>3

LEMMA ValueNone == ASSUME NEW s \in Seq(Took) PROVE Value(s, {}) = 0
PROOF
<1>1. PICK f : Counts(f, s, {}) /\ Value(s, {}) = f[Len(s)]
  BY ValueLoop
<1>2. Len(s) \in Nat
  BY LenProperties
<1> QED
  BY <1>1, <1>2, CountsStay DEF Counts

LEMMA ValueSame ==
  ASSUME NEW s \in Seq(Took), NEW t \in Seq(Took), Len(s) <= Len(t),
         \A i \in 1..Len(s) : t[i].item = s[i].item,
         NEW is, \A i \in is : i \in 1..Len(s)
  PROVE  Value(t, is) = Value(s, is)
PROOF
<1>0. Len(s) \in Nat /\ Len(t) \in Nat /\ Len(s) \in 0..Len(t)
  BY LenProperties
<1>1. PICK f : Counts(f, s, is) /\ Value(s, is) = f[Len(s)]
  BY ValueLoop
<1>2. PICK g : Counts(g, t, is) /\ Value(t, is) = g[Len(t)]
  BY ValueLoop
<1>3. f[Len(s)] = g[Len(s)]
  BY <1>0, <1>1, <1>2, CountsAgree
<1>4. g[Len(t)] = g[Len(s)]
  BY <1>0, <1>2, CountsStay
<1> QED
  BY <1>1, <1>2, <1>3, <1>4

LEMMA ValuePut ==
  ASSUME NEW s \in Seq(Took), s # <<>>, NEW is, \A i \in is : i \in 1..(Len(s) - 1)
  PROVE  Value(s, is \cup {Len(s)}) =
           IF s[Len(s)].item.typ = "SET" THEN s[Len(s)].item.val
           ELSE Value(s, is) + s[Len(s)].item.val
PROOF
<1> DEFINE m == Len(s) - 1
           js == is \cup {Len(s)}
<1>0. Len(s) \in Nat \ {0} /\ m \in 0..Len(s) /\ m <= Len(s) /\ m \in Nat
  BY LenProperties, EmptySeq
<1>1. PICK f : Counts(f, s, is) /\ Value(s, is) = f[Len(s)]
  BY ValueLoop
<1>2. PICK g : Counts(g, s, js) /\ Value(s, js) = g[Len(s)]
  BY ValueLoop
<1>3. f[m] = g[m]
  <2>1. \A i \in 1..m : i \in is <=> i \in js
    BY <1>0
  <2> QED
    BY <1>0, <1>1, <1>2, <2>1, CountsAgree
<1>4. f[Len(s)] = f[m]
  BY <1>0, <1>1, CountsStay
<1>5. Len(s) \in 1..Len(s) /\ Len(s) \in js
  BY <1>0
<1> QED
  BY <1>1, <1>2, <1>3, <1>4, <1>5 DEF Counts

-----------------------------------------------------------------------------
(* The maps of values.                                                     *)
Maps == UNION {[D -> Nat] : D \in SUBSET Keys}
Kept == [epoch : Int, values : Maps]

LEMMA MapIs ==
  ASSUME NEW m \in Maps
  PROVE  /\ DOMAIN m \subseteq Keys /\ m = [k \in DOMAIN m |-> m[k]]
         /\ \A k \in DOMAIN m : m[k] \in Nat
PROOF
<1>1. PICK D \in SUBSET Keys : m \in [D -> Nat]
  BY DEF Maps
<1> QED
  BY <1>1

LEMMA EmptyIs == EmptyMap \in Maps /\ DOMAIN EmptyMap = {} /\ IsDynMap(EmptyMap)
PROOF
<1>1. EmptyMap \in [{} -> Nat] /\ {} \in SUBSET Keys /\ DOMAIN EmptyMap = {}
  BY DEF EmptyMap
<1> QED
  BY <1>1 DEF Maps, IsDynMap

(* What is put is there, and with it what was there under other keys, as   *)
(* far as the keys do not clash.                                           *)
LEMMA PutWithDotIs ==
  ASSUME NEW m \in Maps, NEW k \in Keys, NEW v \in Nat
  PROVE  /\ PutWithDot(m, k, v) \in Maps
         /\ IsDynMap(m) => IsDynMap(PutWithDot(m, k, v))
         /\ \A j \in Keys : ~Clash(j) =>
              /\ j \in DOMAIN PutWithDot(m, k, v) <=> j = k \/ j \in DOMAIN m
              /\ j \in DOMAIN PutWithDot(m, k, v) =>
                   PutWithDot(m, k, v)[j] = IF j = k THEN v ELSE m[j]
PROOF
<1>0. DOMAIN m \subseteq Keys /\ \A p \in DOMAIN m : m[p] \in Nat
  BY MapIs
<1>1. CASE \E p \in DOMAIN m : Under(p, k)
  <2>1. PutWithDot(m, k, v) = m
    BY <1>1 DEF PutWithDot
  <2>2. \A j \in Keys : ~Clash(j) => j # k
    BY <1>0, <1>1 DEF Clash
  <2> QED
    BY <2>1, <2>2
<1>2. CASE ~\E p \in DOMAIN m : Under(p, k)
  <2> DEFINE D == {k} \cup {q \in DOMAIN m : ~Under(k, q)}
             new == [p \in D |-> IF p = k THEN v ELSE m[p]]
  <2>1. PutWithDot(m, k, v) = new
    BY <1>2 DEF PutWithDot
  <2>2. D \in SUBSET Keys /\ new \in [D -> Nat] /\ DOMAIN new = D
    BY <1>0
  <2>3. new \in Maps
    BY <2>2 DEF Maps
  <2>4. IsDynMap(m) => IsDynMap(new)
    <3>1. ~Under(k, k)
      BY DEF Under, IsStrictPrefix
    <3> QED
      BY <1>2, <2>2, <3>1 DEF IsDynMap
  <2>5. \A j \in Keys : ~Clash(j) => (j \in D <=> j = k \/ j \in DOMAIN m)
    BY DEF Clash
  <2>6. \A j \in D : new[j] = IF j = k THEN v ELSE m[j]
    OBVIOUS
  <2> HIDE DEF new, D
  <2> QED
    BY <2>1, <2>2, <2>3, <2>4, <2>5, <2>6
<1> QED
  BY <1>1, <1>2

LEMMA ApplyIs ==
  ASSUME NEW m \in Maps, NEW i \in Items
  PROVE  /\ i.key \in Keys /\ i.val \in Nat
         /\ \E v \in Nat : /\ Apply(m, i) = PutWithDot(m, i.key, v)
                           /\ v = IF i.typ = "SET" THEN i.val
                                  ELSE (IF i.key \in DOMAIN m THEN m[i.key] ELSE 0) + i.val
PROOF
<1>1. i.key \in Keys /\ i.val \in Nat
  BY StatsAssumption DEF Keys
<1> DEFINE v == IF i.typ = "SET" THEN i.val
                ELSE (IF i.key \in DOMAIN m THEN m[i.key] ELSE 0) + i.val
<1>2. v \in Nat
  BY <1>1, MapIs
<1>3. Apply(m, i) = PutWithDot(m, i.key, v)
  BY DEF Apply, MustInt64
<1> QED
  BY <1>1, <1>2, <1>3

LEMMA ApplyPuts ==
  ASSUME NEW m \in Maps, NEW i \in Items, NEW k \in Keys, ~Clash(k)
  PROVE  /\ k \in DOMAIN Apply(m, i) <=> k = i.key \/ k \in DOMAIN m
         /\ k = i.key => Apply(m, i)[k] = IF i.typ = "SET" THEN i.val
                                          ELSE (IF k \in DOMAIN m THEN m[k] ELSE 0) + i.val
         /\ k # i.key /\ k \in DOMAIN m => Apply(m, i)[k] = m[k]
PROOF
<1>1. PICK key \in Keys : key = i.key
  BY ApplyIs
<1>2. PICK v \in Nat : /\ Apply(m, i) = PutWithDot(m, key, v)
                       /\ v = IF i.typ = "SET" THEN i.val
                              ELSE (IF key \in DOMAIN m THEN m[key] ELSE 0) + i.val
  BY <1>1, ApplyIs
<1>3. /\ k \in DOMAIN PutWithDot(m, key, v) <=> k = key \/ k \in DOMAIN m
      /\ k \in DOMAIN PutWithDot(m, key, v) =>
           PutWithDot(m, key, v)[k] = IF k = key THEN v ELSE m[k]
  BY PutWithDotIs
<1> QED
  BY <1>1, <1>2, <1>3
-----------------------------------------------------------------------------
StatsTypes ==
  /\ now \in Nat /\ now <= MaxNow /\ wentBack \in BOOLEAN /\ flood \in BOOLEAN
  /\ itemChan \in Seq(Items) /\ Len(itemChan) <= ItemCap
  /\ getChan \in Seq(Getters) /\ Len(getChan) <= GetCap
  /\ items \in [Timeamounts -> Kept]
  /\ \A ta \in Timeamounts : items[ta].epoch \in Epochs /\ IsDynMap(items[ta].values)
  /\ loop \in {"new", "select", "add"} /\ todo \subseteq Timeamounts
  /\ getter \in [Getters -> {"idle", "waiting"}]
  /\ got \in [Getters -> [items : [Timeamounts -> Kept], covers : Nat,
                          round : [Timeamounts -> Nat]]]
  /\ taken \in Seq(Took)
  /\ IF flood THEN Len(taken) <= 1 ELSE Len(taken) + Len(itemChan) <= MaxItems
  /\ persisted \in [Timeamounts -> Seq(Kept)]
  /\ loop = "add" => taken # <<>>

(* An item that the loop adds is counted for the timeamounts done, and the *)
(* answers to Get, but for a flood, do not cover it.                       *)
AddInv ==
  /\ loop = "add" => \A ta \in todo : taken[Len(taken)].counted[ta] = NotYet
  /\ ~flood => \A g \in Getters : /\ got[g].covers <= Len(taken)
                                  /\ loop = "add" => got[g].covers < Len(taken)

(* What AddOne does, part by part.                                         *)
LEMMA AddOneIs ==
  ASSUME StatsTypes, NEW ta \in Timeamounts, AddOne(ta)
  PROVE  /\ Rolled(ta) \in Kept /\ Rolled(ta).epoch \in Epochs /\ IsDynMap(Rolled(ta).values)
         /\ Rolled(ta).epoch = ToTrendrrEpoch(ta, now)
         /\ items' \in [Timeamounts -> Kept]
         /\ items'[ta].epoch = ToTrendrrEpoch(ta, now)
         /\ items'[ta].values = Apply(Rolled(ta).values, Adding) /\ Adding \in Items
         /\ \A t \in Timeamounts \ {ta} : items'[t] = items[t]
         /\ persisted' \in [Timeamounts -> Seq(Kept)]
         /\ persisted'[ta] = IF items[ta].epoch = ToTrendrrEpoch(ta, now) THEN persisted[ta]
                             ELSE Append(persisted[ta], items[ta])
         /\ \A t \in Timeamounts \ {ta} : persisted'[t] = persisted[t]
         /\ taken' \in Seq(Took) /\ Len(taken') = Len(taken) /\ Len(taken) \in Nat \ {0}
         /\ \A i \in 1..Len(taken) : taken'[i].item = taken[i].item
         /\ \A i \in 1..Len(taken), t \in Timeamounts :
              taken'[i].counted[t] =
                IF i = Len(taken) /\ t = ta
                THEN [round |-> Len(persisted'[ta]) + 1, epoch |-> ToTrendrrEpoch(ta, now),
                      time |-> now]
                ELSE taken[i].counted[t]
PROOF
<1> DEFINE e == ToTrendrrEpoch(ta, now)
           n == Len(taken)
           mark == [round |-> Len(persisted'[ta]) + 1, epoch |-> e, time |-> now]
<1>1. e \in Nat /\ e \in Epochs
  BY EpochTimes, StatsAssumption DEF StatsTypes, Epochs
<1>2. Rolled(ta) \in Kept /\ Rolled(ta).epoch = e /\ IsDynMap(Rolled(ta).values)
  <2>1. CASE items[ta].epoch = e
    BY <2>1 DEF Rolled, StatsTypes
  <2>2. CASE items[ta].epoch # e
    BY <1>1, <2>2, EmptyIs DEF Rolled, Kept
  <2> QED
    BY <2>1, <2>2
<1>3. n \in Nat \ {0} /\ taken[n] \in Took /\ \A i \in 1..n : taken[i] \in Took
  <2>1. n \in Nat \ {0}
    BY LenProperties, EmptySeq DEF StatsTypes, AddOne
  <2> QED
    BY <2>1, ElementOfSeq DEF StatsTypes
<1>4. Adding \in Items
  BY <1>3 DEF Adding, Took
<1>5. PICK r \in Kept : r = Rolled(ta)
  BY <1>2
<1>6. Apply(r.values, Adding) \in Maps
  BY <1>4, ApplyIs, PutWithDotIs DEF Kept
<1>7. items' = [items EXCEPT ![ta] = [r EXCEPT !.values = Apply(@, Adding)]]
  BY <1>5 DEF AddOne
<1>8. /\ items' \in [Timeamounts -> Kept]
      /\ items'[ta].epoch = e /\ items'[ta].values = Apply(r.values, Adding)
      /\ \A t \in Timeamounts \ {ta} : items'[t] = items[t]
  BY <1>2, <1>5, <1>6, <1>7 DEF Kept, StatsTypes
<1>9. /\ persisted' \in [Timeamounts -> Seq(Kept)]
      /\ persisted'[ta] = IF items[ta].epoch = e THEN persisted[ta]
                          ELSE Append(persisted[ta], items[ta])
      /\ \A t \in Timeamounts \ {ta} : persisted'[t] = persisted[t]
  <2>1. Append(persisted[ta], items[ta]) \in Seq(Kept)
    BY AppendProperties DEF StatsTypes
  <2> QED
    BY <2>1 DEF AddOne, Persist, StatsTypes
<1>10. Len(persisted'[ta]) \in Nat /\ mark \in Mark
  BY <1>1, <1>9, LenProperties DEF Mark, StatsTypes
<1>11. taken' = [taken EXCEPT ![n].counted[ta] = mark]
  BY DEF AddOne, Round
<1> HIDE DEF mark
<1>12. /\ taken' \in Seq(Took) /\ Len(taken') = n
       /\ \A i \in 1..n : taken'[i] = IF i = n THEN [taken[n] EXCEPT !.counted[ta] = mark]
                                      ELSE taken[i]
  <2>1. taken' = [taken EXCEPT ![n] = [taken[n] EXCEPT !.counted[ta] = mark]]
    BY <1>3, <1>11 DEF StatsTypes
  <2>2. [taken[n] EXCEPT !.counted[ta] = mark] \in Took
    BY <1>3, <1>10 DEF Took
  <2> QED
    BY <1>3, <2>1, <2>2, ExceptSeq DEF StatsTypes
<1>13. \A i \in 1..n : taken'[i].item = taken[i].item
  BY <1>3, <1>12 DEF Took
<1>14. \A i \in 1..n, t \in Timeamounts :
         taken'[i].counted[t] = IF i = n /\ t = ta THEN mark ELSE taken[i].counted[t]
  BY <1>3, <1>12 DEF Took
<1> USE DEF mark
<1> QED
  BY <1>1, <1>2, <1>3, <1>4, <1>5, <1>8, <1>9, <1>12, <1>13, <1>14

(* What it leaves alone.                                                   *)
LEMMA AddOneElsewhere ==
  ASSUME StatsTypes, NEW ta \in Timeamounts, AddOne(ta), NEW t \in Timeamounts, t # ta
  PROVE  items'[t] = items[t] /\ persisted'[t] = persisted[t] /\ Saves(t)' = Saves(t)
PROOF
<1>1. items'[t] = items[t] /\ persisted'[t] = persisted[t]
  BY AddOneIs
<1> QED
  BY <1>1 DEF Saves

LEMMA AddOneMarks ==
  ASSUME StatsTypes, NEW ta \in Timeamounts, AddOne(ta), NEW t \in Timeamounts,
         NEW i \in 1..Len(taken)
  PROVE  /\ i = Len(taken) /\ t = ta =>
              taken'[i].counted[t] = [round |-> Len(persisted'[ta]) + 1,
                                      epoch |-> ToTrendrrEpoch(ta, now), time |-> now]
         /\ ~(i = Len(taken) /\ t = ta) => taken'[i].counted[t] = taken[i].counted[t]
BY AddOneIs

LEMMA TakeItemIs ==
  ASSUME StatsTypes, TakeItem
  PROVE  /\ taken' \in Seq(Took) /\ taken' # <<>> /\ Len(taken') \in 1..Len(taken')
         /\ \A ta \in Timeamounts : taken'[Len(taken')].counted[ta] = NotYet
         /\ \A i \in 1..Len(taken'), ta \in Timeamounts :
              taken'[i].counted[ta] # NotYet => i \in 1..Len(taken) /\ taken'[i] = taken[i]
         /\ itemChan' \in Seq(Items) /\ Len(itemChan') = Len(itemChan) - 1
         /\ Len(itemChan) \in Nat /\ Len(taken) \in Nat
         /\ flood => Len(taken') = 1
         /\ ~flood => /\ Len(taken') = Len(taken) + 1
                      /\ \A i \in 1..Len(taken) : taken'[i] = taken[i]
PROOF
<1> DEFINE new == [item |-> Head(itemChan), counted |-> [ta \in Timeamounts |-> NotYet]]
<1>1. /\ Head(itemChan) \in Items /\ itemChan' \in Seq(Items)
      /\ Len(itemChan') = Len(itemChan) - 1 /\ Len(itemChan) \in Nat /\ Len(taken) \in Nat
  BY TakeIn, LenProperties DEF StatsTypes, TakeItem
<1>2. NotYet \in Mark
  BY DEF NotYet, Mark
<1>3. new \in Took /\ \A ta \in Timeamounts : new.counted[ta] = NotYet
  BY <1>1, <1>2 DEF Took
<1>4. taken' = IF flood THEN <<new>> ELSE Append(taken, new)
  BY DEF TakeItem
<1> HIDE DEF new
<1>5. CASE flood
  <2>1. taken' = <<new>> /\ taken' \in Seq(Took) /\ Len(taken') = 1 /\ taken'[1] = new
    BY <1>3, <1>4, <1>5
  <2>2. taken' # <<>>
    BY <2>1, EmptySeq
  <2>3. 1 \in 1..1 /\ \A i \in 1..1 : i = 1
    OBVIOUS
  <2> QED
    BY <1>1, <1>3, <1>5, <2>1, <2>2, <2>3
<1>6. CASE ~flood
  <2>1. /\ taken' \in Seq(Took) /\ Len(taken') = Len(taken) + 1
        /\ \A i \in 1..Len(taken) : taken'[i] = taken[i]
        /\ taken'[Len(taken) + 1] = new
    BY <1>1, <1>3, <1>4, <1>6, AppendProperties DEF StatsTypes
  <2>2. taken' # <<>> /\ Len(taken) + 1 \in 1..(Len(taken) + 1)
    BY <1>1, <2>1, EmptySeq
  <2>3. ASSUME NEW i \in 1..Len(taken'), NEW ta \in Timeamounts, taken'[i].counted[ta] # NotYet
        PROVE  i \in 1..Len(taken)
    BY <1>1, <1>3, <2>1, <2>3
  <2> QED
    BY <1>1, <1>3, <1>6, <2>1, <2>2, <2>3
<1> QED
  BY <1>5, <1>6

LEMMA TakeGetIs ==
  ASSUME StatsTypes, TakeGet
  PROVE  /\ Head(getChan) \in Getters
         /\ getChan' \in Seq(Getters) /\ Len(getChan') <= GetCap
         /\ \A g \in Getters :
              got'[g] = IF g = Head(getChan)
                        THEN [items |-> items, covers |-> Len(taken),
                              round |-> [ta \in Timeamounts |-> Len(persisted[ta]) + 1]]
                        ELSE got[g]
         /\ got' \in [Getters -> [items : [Timeamounts -> Kept], covers : Nat,
                                  round : [Timeamounts -> Nat]]]
         /\ Len(taken) \in Nat
PROOF
<1>1. /\ Head(getChan) \in Getters /\ getChan' \in Seq(Getters)
      /\ Len(getChan') = Len(getChan) - 1 /\ Len(getChan) \in Nat
  BY TakeIn, LenProperties DEF StatsTypes, TakeGet, Answer
<1>2. Len(taken) \in Nat /\ \A ta \in Timeamounts : Len(persisted[ta]) \in Nat
  BY LenProperties DEF StatsTypes
<1> DEFINE new == [items |-> items, covers |-> Len(taken),
                   round |-> [ta \in Timeamounts |-> Len(persisted[ta]) + 1]]
<1>3. new \in [items : [Timeamounts -> Kept], covers : Nat, round : [Timeamounts -> Nat]]
  BY <1>2 DEF StatsTypes
<1>4. got' = [got EXCEPT ![Head(getChan)] = new]
  BY DEF TakeGet, Answer, Round
<1>5. Len(getChan') <= GetCap
  BY <1>1, StatsAssumption DEF StatsTypes
<1> HIDE DEF new
<1>6. /\ got' \in [Getters -> [items : [Timeamounts -> Kept], covers : Nat,
                               round : [Timeamounts -> Nat]]]
      /\ \A g \in Getters : got'[g] = IF g = Head(getChan) THEN new ELSE got[g]
  BY <1>1, <1>3, <1>4 DEF StatsTypes
<1> QED
  BY <1>1, <1>2, <1>5, <1>6 DEF new

LEMMA TypesStep == ASSUME StatsTypes, [Next]_vars PROVE StatsTypes'
PROOF
<1> USE StatsAssumption
<1>1. ASSUME Tick PROVE StatsTypes'
  BY <1>1 DEF Tick, StatsTypes
<1>2. ASSUME SetBack PROVE StatsTypes'
  BY <1>2 DEF SetBack, StatsTypes
<1>3. ASSUME NEW i \in Items, Submit(i) PROVE StatsTypes'
  <2>1. Len(taken) \in Nat /\ Len(itemChan) \in Nat
    BY LenProperties DEF StatsTypes
  <2>2. itemChan' \in Seq(Items) /\ Len(itemChan') <= ItemCap /\ Len(itemChan') <= Len(itemChan) + 1
    BY <1>3, <2>1, AppendProperties, LenProperties DEF Submit, StatsTypes
  <2>3. Len(itemChan') \in Nat
    BY <2>2, LenProperties
  <2>4. ~flood => Len(taken) + Len(itemChan') <= MaxItems
    BY <1>3, <2>1, <2>2, <2>3 DEF Submit, Room
  <2>5. UNCHANGED <<world, getChan, items, loop, todo, getter, got, taken, persisted>>
    BY <1>3 DEF Submit
  <2> QED
    BY <2>2, <2>4, <2>5 DEF StatsTypes, world
<1>4. ASSUME NEW g \in Getters, Get(g) PROVE StatsTypes'
  <2>1. getChan' \in Seq(Getters) /\ Len(getChan') <= GetCap
    BY <1>4, AppendProperties, LenProperties DEF Get, StatsTypes
  <2> QED
    BY <1>4, <2>1 DEF Get, StatsTypes, world
<1>5. ASSUME Start PROVE StatsTypes'
  BY <1>5 DEF Start, StatsTypes, world
<1>6. ASSUME TakeGet PROVE StatsTypes'
  <2>1. getter' \in [Getters -> {"idle", "waiting"}]
    BY <1>6 DEF TakeGet, Answer, StatsTypes
  <2>2. UNCHANGED <<world, itemChan, items, loop, todo, taken, persisted>>
    BY <1>6 DEF TakeGet, Answer
  <2> QED
    BY <1>6, <2>1, <2>2, TakeGetIs DEF StatsTypes, world
<1>7. ASSUME TakeItem PROVE StatsTypes'
  <2>1. /\ Len(itemChan') <= ItemCap
        /\ IF flood THEN Len(taken') <= 1 ELSE Len(taken') + Len(itemChan') <= MaxItems
    <3>1. /\ Len(itemChan) \in Nat /\ Len(taken) \in Nat /\ Len(itemChan') = Len(itemChan) - 1
          /\ flood => Len(taken') = 1
          /\ ~flood => Len(taken') = Len(taken) + 1
      BY <1>7, TakeItemIs
    <3>2. /\ Len(itemChan) <= ItemCap
          /\ ~flood => Len(taken) + Len(itemChan) <= MaxItems
      BY DEF StatsTypes
    <3>3. CASE flood
      <4>1. Len(taken') = 1 /\ ItemCap \in Nat
        BY <3>1, <3>3, StatsAssumption
      <4>2. Len(itemChan') <= ItemCap
        BY <3>1, <3>2, <4>1
      <4>3. Len(taken') <= 1
        BY <4>1
      <4> QED
        BY <3>3, <4>2, <4>3, Zenon
    <3>4. CASE ~flood
      BY <3>1, <3>2, <3>4
    <3> QED
      BY <3>3, <3>4
  <2>2. UNCHANGED <<world, getChan, items, getter, got, persisted>>
        /\ loop' = "add" /\ todo' = Timeamounts
    BY <1>7 DEF TakeItem
  <2> QED
    BY <1>7, <2>1, <2>2, TakeItemIs DEF StatsTypes, world
<1>8. ASSUME AddEnd PROVE StatsTypes'
  BY <1>8 DEF AddEnd, StatsTypes, world
<1>9. ASSUME NEW ta \in Timeamounts, AddOne(ta) PROVE StatsTypes'
  <2>1. UNCHANGED <<world, itemChan, getChan, loop, getter, got>> /\ todo' \subseteq todo
    BY <1>9 DEF AddOne
  <2>2. items'[ta].epoch \in Epochs
    BY <1>9, AddOneIs
  <2>3. IsDynMap(items'[ta].values)
    <3>1. PICK m \in Maps : m = Rolled(ta).values
      BY <1>9, AddOneIs DEF Kept
    <3>2. IsDynMap(m) /\ items'[ta].values = Apply(m, Adding) /\ Adding \in Items
      BY <1>9, <3>1, AddOneIs
    <3> QED
      BY SMTT(30), <3>2, ApplyIs, PutWithDotIs
  <2>4. \A t \in Timeamounts : items'[t].epoch \in Epochs /\ IsDynMap(items'[t].values)
    BY <1>9, <2>2, <2>3, AddOneIs DEF StatsTypes
  <2>5. taken' # <<>>
    BY <1>9, AddOneIs, EmptySeq
  <2> QED
    BY <1>9, <2>1, <2>4, <2>5, AddOneIs DEF StatsTypes, world
<1>10. CASE UNCHANGED vars
  BY <1>10 DEF vars, StatsTypes, world
<1> QED
  BY <1>1, <1>2, <1>3, <1>4, <1>5, <1>6, <1>7, <1>8, <1>9, <1>10 DEF Next, LoopAdds

LEMMA AddStep == ASSUME StatsTypes, StatsTypes', AddInv, [Next]_vars PROVE AddInv'
PROOF
<1>0. Len(taken) \in Nat
  BY LenProperties DEF StatsTypes
<1>9. ~flood => \A g \in Getters : got[g].covers <= Len(taken)
  BY DEF AddInv
<1>1. CASE UNCHANGED <<flood, loop, todo, taken, got>>
  BY <1>1 DEF AddInv
<1>2. ASSUME Start PROVE AddInv'
  BY <1>2 DEF Start, AddInv, world
<1>3. ASSUME AddEnd PROVE AddInv'
  BY <1>3 DEF AddEnd, AddInv, world
<1>4. ASSUME TakeGet PROVE AddInv'
  <2>1. UNCHANGED <<flood, loop, todo, taken>> /\ loop = "select"
    BY <1>4 DEF TakeGet, Answer, world
  <2>2. ASSUME ~flood, NEW g \in Getters PROVE got'[g].covers <= Len(taken)
    <3>1. CASE g = Head(getChan)
      <4>1. got'[g] = [items |-> items, covers |-> Len(taken),
                       round |-> [ta \in Timeamounts |-> Len(persisted[ta]) + 1]]
        BY <1>4, <3>1, TakeGetIs
      <4> QED
        BY <1>0, <4>1
    <3>2. CASE g # Head(getChan)
      <4>1. got'[g] = got[g]
        BY <1>4, <3>2, TakeGetIs
      <4> QED
        BY <1>9, <2>2, <4>1
    <3> QED
      BY <3>1, <3>2
  <2> QED
    BY <2>1, <2>2 DEF AddInv
<1>5. ASSUME TakeItem PROVE AddInv'
  <2>1. \A g \in Getters : got'[g] = got[g] /\ got[g].covers \in Nat
    BY <1>5 DEF TakeItem, StatsTypes
  <2>2. todo' = Timeamounts /\ flood' = flood
    BY <1>5 DEF TakeItem, world
  <2>3. ASSUME ~flood, NEW g \in Getters PROVE got'[g].covers < Len(taken')
    <3>1. Len(taken') = Len(taken) + 1
      BY <1>5, <2>3, TakeItemIs
    <3>2. got[g].covers <= Len(taken) /\ got'[g] = got[g] /\ got[g].covers \in Nat
      BY <1>9, <2>1, <2>3
    <3> QED
      BY <1>0, <3>1, <3>2
  <2>4. \A g \in Getters : ~flood => got'[g].covers <= Len(taken')
    BY <1>0, <1>5, <2>1, <2>3, TakeItemIs
  <2> QED
    BY <1>5, <2>2, <2>3, <2>4, TakeItemIs DEF AddInv
<1>6. ASSUME NEW ta \in Timeamounts, AddOne(ta) PROVE AddInv'
  <2>1. UNCHANGED <<flood, loop, got>> /\ todo' = todo \ {ta} /\ loop = "add"
    BY <1>6 DEF AddOne, world
  <2>2. Len(taken') = Len(taken) /\ Len(taken) \in 1..Len(taken)
    <3>1. Len(taken') = Len(taken) /\ Len(taken) # 0
      BY <1>6, AddOneIs
    <3> QED
      BY <1>0, <3>1
  <2>3. ASSUME NEW t \in todo' PROVE taken'[Len(taken')].counted[t] = NotYet
    <3>1. t \in todo /\ t # ta /\ t \in Timeamounts
      BY <2>1, <2>3 DEF StatsTypes
    <3>2. taken'[Len(taken)].counted[t] = taken[Len(taken)].counted[t]
      BY <1>6, <2>2, <3>1, AddOneMarks
    <3> QED
      BY <2>1, <2>2, <3>1, <3>2 DEF AddInv
  <2> QED
    BY <2>1, <2>2, <2>3 DEF AddInv
<1> QED
  BY <1>1, <1>2, <1>3, <1>4, <1>5, <1>6
  DEF Next, LoopAdds, vars, world, Tick, SetBack, Submit, Get
-----------------------------------------------------------------------------
(* Every item that was counted: when, in which round, for which epoch.     *)
LEMMA SavesIs ==
  ASSUME StatsTypes, NEW ta \in Timeamounts
  PROVE  /\ Saves(ta) \in Seq(Kept) /\ Len(persisted[ta]) \in Nat
         /\ Len(Saves(ta)) = Len(persisted[ta]) + 1
         /\ DOMAIN Saves(ta) = 1..(Len(persisted[ta]) + 1)
         /\ \A j \in 1..Len(persisted[ta]) : Saves(ta)[j] = persisted[ta][j]
         /\ Saves(ta)[Len(persisted[ta]) + 1] = items[ta]
PROOF
<1>1. persisted[ta] \in Seq(Kept) /\ items[ta] \in Kept
  BY DEF StatsTypes
<1> QED
  BY <1>1, AppendProperties, LenProperties DEF Saves

(* A turn of the loop replaces the last save, or adds one behind it.       *)
LEMMA SavesStep ==
  ASSUME StatsTypes, StatsTypes', NEW ta \in Timeamounts, AddOne(ta), NEW R,
         R = Len(persisted'[ta]) + 1
  PROVE  /\ R \in Nat \ {0} /\ DOMAIN Saves(ta)' = 1..R /\ Saves(ta)'[R] = items'[ta]
         /\ \A j \in 1..(R - 1) : j \in DOMAIN Saves(ta) /\ Saves(ta)'[j] = Saves(ta)[j]
         /\ IF items[ta].epoch = ToTrendrrEpoch(ta, now)
            THEN DOMAIN Saves(ta) = 1..R /\ Saves(ta)[R] = items[ta]
            ELSE DOMAIN Saves(ta) = 1..(R - 1) /\ Saves(ta)[R - 1] = items[ta]
                 /\ R - 1 \in Nat \ {0}
PROOF
<1>0. Len(persisted'[ta]) \in Nat
  BY LenProperties DEF StatsTypes
<1>1. /\ Saves(ta)' \in Seq(Kept) /\ DOMAIN Saves(ta)' = 1..R
      /\ \A j \in 1..(R - 1) : Saves(ta)'[j] = persisted'[ta][j]
      /\ Saves(ta)'[R] = items'[ta]
  <2>1. persisted'[ta] \in Seq(Kept) /\ items'[ta] \in Kept
    BY DEF StatsTypes
  <2> QED
    BY <1>0, <2>1, AppendProperties, LenProperties DEF Saves
<1>2. CASE items[ta].epoch = ToTrendrrEpoch(ta, now)
  <2>1. persisted'[ta] = persisted[ta]
    BY <1>2, AddOneIs
  <2> QED
    BY <1>0, <1>1, <1>2, <2>1, SavesIs
<1>3. CASE items[ta].epoch # ToTrendrrEpoch(ta, now)
  <2>1. persisted'[ta] = Saves(ta)
    BY <1>3, AddOneIs DEF Saves
  <2> QED
    BY <1>0, <1>1, <1>3, <2>1, SavesIs
<1> QED
  BY <1>2, <1>3
-----------------------------------------------------------------------------
(* A save as the items counted for it, without the variables.              *)
CountedIn(s, ta, round, k, n) ==
  {i \in 1..n : s[i].item.key = k /\ s[i].counted[ta].round = round}

RightIn(v, s, ta, round, n) ==
  \A k \in {j \in Keys : ~Clash(j)} :
    /\ k \in DOMAIN v <=> CountedIn(s, ta, round, k, n) # {}
    /\ CountedIn(s, ta, round, k, n) # {} => v[k] = Value(s, CountedIn(s, ta, round, k, n))

(* A save stays right when nothing more is counted for it...               *)
LEMMA RightSame ==
  ASSUME NEW s \in Seq(Took), NEW t \in Seq(Took), Len(s) <= Len(t),
         \A i \in 1..Len(s) : t[i].item = s[i].item,
         NEW ta, NEW round, NEW n \in Nat, n <= Len(s), NEW m \in Nat, n <= m,
         \A i \in 1..n : t[i].counted[ta].round = round <=> s[i].counted[ta].round = round,
         \A i \in (n + 1)..m : t[i].counted[ta].round # round,
         NEW v, RightIn(v, s, ta, round, n)
  PROVE  RightIn(v, t, ta, round, m)
PROOF
<1> SUFFICES ASSUME NEW k \in Keys, ~Clash(k)
             PROVE  /\ k \in DOMAIN v <=> CountedIn(t, ta, round, k, m) # {}
                    /\ CountedIn(t, ta, round, k, m) # {} =>
                         v[k] = Value(t, CountedIn(t, ta, round, k, m))
  BY DEF RightIn
<1>0. Len(s) \in Nat /\ \A i \in 1..n : i \in 1..Len(s)
  BY LenProperties
<1>1. CountedIn(t, ta, round, k, m) = CountedIn(s, ta, round, k, n)
  <2>1. ASSUME NEW i \in 1..m, i \notin 1..n PROVE i \in (n + 1)..m
    BY <2>1
  <2>2. \A i \in 1..n : i \in 1..m
    OBVIOUS
  <2> QED
    BY <1>0, <2>1, <2>2 DEF CountedIn
<1>2. \A i \in CountedIn(s, ta, round, k, n) : i \in 1..Len(s)
  BY <1>0 DEF CountedIn
<1> DEFINE is == CountedIn(s, ta, round, k, n)
<1>3. (k \in DOMAIN v <=> is # {}) /\ (is # {} => v[k] = Value(s, is))
  BY DEF RightIn
<1> HIDE DEF is
<1>4. Value(t, is) = Value(s, is)
  BY <1>2, ValueSame DEF is
<1> QED
  BY <1>1, <1>3, <1>4 DEF is

(* ...and when the item that is applied is the one that is counted.        *)
LEMMA RightAdd ==
  ASSUME NEW s \in Seq(Took), NEW t \in Seq(Took), Len(t) = Len(s), Len(s) \in Nat \ {0},
         \A i \in 1..Len(s) : t[i].item = s[i].item,
         NEW ta, NEW round,
         \A i \in 1..(Len(s) - 1) : t[i].counted[ta].round = s[i].counted[ta].round,
         s[Len(s)].counted[ta].round # round, t[Len(s)].counted[ta].round = round,
         NEW v \in Maps, RightIn(v, s, ta, round, Len(s))
  PROVE  RightIn(Apply(v, s[Len(s)].item), t, ta, round, Len(s))
PROOF
<1> DEFINE n == Len(s)
           new == Apply(v, s[n].item)
<1> SUFFICES ASSUME NEW k \in Keys, ~Clash(k)
             PROVE  /\ k \in DOMAIN new <=> CountedIn(t, ta, round, k, n) # {}
                    /\ CountedIn(t, ta, round, k, n) # {} =>
                         new[k] = Value(t, CountedIn(t, ta, round, k, n))
  BY DEF RightIn
<1> DEFINE is == CountedIn(s, ta, round, k, n)
           js == CountedIn(t, ta, round, k, n)
<1>0. n \in 1..n /\ \A i \in 1..n : i = n \/ i \in 1..(n - 1)
  OBVIOUS
<1>1. \A i \in is : i \in 1..(n - 1) /\ i \in 1..n
  BY <1>0 DEF CountedIn
<1>2. js = IF k = s[n].item.key THEN is \cup {n} ELSE is
  <2>1. ASSUME NEW i \in 1..n, i # n PROVE i \in js <=> i \in is
    BY <1>0, <2>1 DEF CountedIn
  <2>2. n \notin is /\ (n \in js <=> k = s[n].item.key)
    BY <1>0 DEF CountedIn
  <2>3. \A i \in js : i \in 1..n
    BY DEF CountedIn
  <2> HIDE DEF is, js
  <2>4. \A i : i \in js <=> i \in is \/ (k = s[n].item.key /\ i = n)
    BY <1>1, <2>1, <2>2, <2>3
  <2> QED
    BY <2>4
<1>3. (k \in DOMAIN v <=> is # {}) /\ (is # {} => v[k] = Value(s, is))
  BY DEF RightIn
<1>4. s[n].item \in Items /\ t[n].item = s[n].item
  <2>1. s[n] \in Took
    BY <1>0, ElementOfSeq
  <2> QED
    BY <1>0, <2>1 DEF Took
<1>5. PICK i \in Items : i = s[n].item
  BY <1>4
<1>6. /\ k \in DOMAIN new <=> k = i.key \/ k \in DOMAIN v
      /\ k = i.key => new[k] = IF i.typ = "SET" THEN i.val
                              ELSE (IF k \in DOMAIN v THEN v[k] ELSE 0) + i.val
      /\ k # i.key /\ k \in DOMAIN v => new[k] = v[k]
  BY <1>5, ApplyPuts
<1> HIDE DEF is, js, new
<1>9. Value(t, is) = Value(s, is)
  BY <1>1, ValueSame
<1>10. CASE k = i.key
  <2>1. js = is \cup {n}
    BY <1>2, <1>5, <1>10
  <2>2. t # <<>>
    BY EmptySeq
  <2>3. Value(t, js) = IF i.typ = "SET" THEN i.val ELSE Value(t, is) + i.val
    BY <1>1, <1>4, <1>5, <2>1, <2>2, ValuePut
  <2>4. is = {} => Value(s, is) = 0
    BY ValueNone
  <2>5. Value(s, is) = IF k \in DOMAIN v THEN v[k] ELSE 0
    BY <1>3, <2>4
  <2>6. new[k] = Value(t, js) /\ k \in DOMAIN new
    BY <1>6, <1>9, <1>10, <2>3, <2>5
  <2>7. js # {}
    BY <2>1
  <2> QED
    BY <2>6, <2>7 DEF js, new
<1>11. CASE k # i.key
  <2>1. js = is
    BY <1>2, <1>5, <1>11
  <2> QED
    BY <1>3, <1>6, <1>9, <1>11, <2>1 DEF js, new
<1> QED
  BY <1>10, <1>11
-----------------------------------------------------------------------------
LEMMA StatsInit == ASSUME Init PROVE StatsTypes /\ AddInv
PROOF
<1>0. MaxItems \in Nat /\ MaxNow \in Nat /\ ItemCap \in Nat /\ GetCap \in Nat
  BY StatsAssumption
<1>1. \A ta \in Timeamounts : ToTrendrrEpoch(ta, 0) \in Nat /\ ToTrendrrEpoch(ta, 0) \in Epochs
  BY <1>0, EpochTimes, StatsAssumption DEF Epochs
<1>2. items = [ta \in Timeamounts |-> [epoch |-> ToTrendrrEpoch(ta, 0), values |-> EmptyMap]]
  BY DEF Init
<1>3. items \in [Timeamounts -> Kept]
  BY <1>1, <1>2, EmptyIs DEF Kept
<1>4. \A ta \in Timeamounts : items[ta].epoch \in Epochs /\ IsDynMap(items[ta].values)
  BY <1>1, <1>2, EmptyIs
<1>5. /\ got \in [Getters -> [items : [Timeamounts -> Kept], covers : Nat,
                              round : [Timeamounts -> Nat]]]
      /\ \A g \in Getters : got[g].covers = 0
  BY <1>3 DEF Init
<1>6. /\ itemChan \in Seq(Items) /\ Len(itemChan) = 0 /\ getChan \in Seq(Getters)
      /\ Len(getChan) = 0 /\ taken \in Seq(Took) /\ Len(taken) = 0
      /\ persisted \in [Timeamounts -> Seq(Kept)]
  BY EmptySeq DEF Init
<1>7. /\ now = 0 /\ wentBack = FALSE /\ loop = "new" /\ todo = {}
      /\ getter \in [Getters -> {"idle", "waiting"}]
  BY DEF Init
<1>8. AddInv
  BY <1>5, <1>6, <1>7 DEF AddInv
<1>9. /\ now \in Nat /\ now <= MaxNow /\ Len(itemChan) <= ItemCap /\ Len(getChan) <= GetCap
      /\ IF flood THEN Len(taken) <= 1 ELSE Len(taken) + Len(itemChan) <= MaxItems
  BY <1>0, <1>6, <1>7
<1>10. /\ wentBack \in BOOLEAN /\ flood \in BOOLEAN
       /\ todo \subseteq Timeamounts /\ (loop = "add" => taken # <<>>)
  BY <1>7 DEF Init
<1>11. StatsTypes
  BY <1>3, <1>4, <1>5, <1>6, <1>7, <1>9, <1>10, Zenon DEF StatsTypes
<1> QED
  BY <1>8, <1>11

LEMMA StatsAlways == Spec => [](StatsTypes /\ AddInv)
PROOF
<1>1. ASSUME StatsTypes, AddInv, [Next]_vars PROVE StatsTypes' /\ AddInv'
  BY <1>1, TypesStep, AddStep
<1> QED
  BY <1>1, StatsInit, PTL DEF Spec

(* The world, both channels and the maps of values stay what they are.     *)
THEOREM TypeCorrect == Spec => []TypeOK
PROOF
<1>1. ASSUME StatsTypes PROVE TypeOK
  <2>1. Len(taken) \in Nat /\ Len(itemChan) \in Nat
    BY <1>1, LenProperties DEF StatsTypes
  <2>2. Len(taken) <= IF flood THEN 1 ELSE MaxItems
    BY <1>1, <2>1, StatsAssumption DEF StatsTypes
  <2>3. \A ta \in Timeamounts : DOMAIN items[ta].values \subseteq Keys
    BY <1>1, MapIs DEF StatsTypes, Kept
  <2>4. now \in 0..MaxNow
    BY <1>1, StatsAssumption DEF StatsTypes
  <2> QED
    BY <1>1, <2>2, <2>3, <2>4 DEF StatsTypes, TypeOK
<1> QED
  BY <1>1, StatsAlways, PTL
-----------------------------------------------------------------------------
(* An item is counted in a round that there is, for the epoch of its time. *)
MarksInv ==
  \A i \in 1..Len(taken), ta \in Timeamounts :
    LET c == taken[i].counted[ta]
    IN  c # NotYet =>
          /\ c.time \in Nat /\ c.epoch = ToTrendrrEpoch(ta, c.time)
          /\ c.round \in DOMAIN Saves(ta) /\ Saves(ta)[c.round].epoch = c.epoch

LEMMA MarksInit == ASSUME Init PROVE MarksInv
  BY EmptySeq DEF Init, MarksInv

LEMMA MarksStep ==
  ASSUME StatsTypes, StatsTypes', AddInv, MarksInv, [Next]_vars PROVE MarksInv'
PROOF
<1>1. CASE UNCHANGED <<items, taken, persisted>>
  BY <1>1 DEF MarksInv, Saves
<1>2. ASSUME TakeItem PROVE MarksInv'
  <2>1. UNCHANGED <<items, persisted>>
    BY <1>2 DEF TakeItem
  <2>2. \A ta \in Timeamounts : Saves(ta)' = Saves(ta)
    BY <2>1 DEF Saves
  <2> SUFFICES ASSUME NEW i \in 1..Len(taken'), NEW ta \in Timeamounts,
                      taken'[i].counted[ta] # NotYet
               PROVE  /\ taken'[i].counted[ta] = taken[i].counted[ta]
                      /\ i \in 1..Len(taken)
    BY <2>2 DEF MarksInv
  <2>3. i \in 1..Len(taken) /\ taken'[i] = taken[i]
    BY <1>2, TakeItemIs
  <2> QED
    BY <2>3
<1>3. ASSUME NEW ta \in Timeamounts, AddOne(ta) PROVE MarksInv'
  <2> DEFINE n == Len(taken)
             R == Len(persisted'[ta]) + 1
             e == ToTrendrrEpoch(ta, now)
  <2>1. now \in Nat /\ n \in Nat \ {0} /\ Len(taken') = n
    BY <1>3, AddOneIs DEF StatsTypes
  <2> SUFFICES ASSUME NEW i \in 1..n, NEW t \in Timeamounts, NEW c, c = taken'[i].counted[t],
                      c # NotYet
               PROVE  /\ c.time \in Nat /\ c.epoch = ToTrendrrEpoch(t, c.time)
                      /\ c.round \in DOMAIN Saves(t)' /\ Saves(t)'[c.round].epoch = c.epoch
    BY <2>1 DEF MarksInv
  <2>2. CASE i = n /\ t = ta
    <3>1. c = [round |-> R, epoch |-> e, time |-> now]
      BY <1>3, <2>2, AddOneIs
    <3>2. R \in Nat \ {0} /\ DOMAIN Saves(ta)' = 1..R /\ Saves(ta)'[R] = items'[ta]
      BY <1>3, SavesStep
    <3>3. items'[ta].epoch = e
      BY <1>3, AddOneIs
    <3>4. R \in 1..R
      <4> HIDE DEF R
      <4> QED
        BY <3>2
    <3> QED
      BY <2>1, <2>2, <3>1, <3>2, <3>3, <3>4
  <2>3. CASE ~(i = n /\ t = ta)
    <3>1. c = taken[i].counted[t]
      BY <1>3, <2>3, AddOneMarks
    <3>2. /\ c.time \in Nat /\ c.epoch = ToTrendrrEpoch(t, c.time)
          /\ c.round \in DOMAIN Saves(t) /\ Saves(t)[c.round].epoch = c.epoch
      BY <3>1 DEF MarksInv
    <3>3. CASE t = ta
      <4>1. PICK r : r = R
        OBVIOUS
      <4>2. /\ r \in Nat \ {0} /\ DOMAIN Saves(ta)' = 1..r /\ Saves(ta)'[r] = items'[ta]
            /\ \A j \in 1..(r - 1) : j \in DOMAIN Saves(ta) /\ Saves(ta)'[j] = Saves(ta)[j]
            /\ IF items[ta].epoch = e
               THEN DOMAIN Saves(ta) = 1..r /\ Saves(ta)[r] = items[ta]
               ELSE DOMAIN Saves(ta) = 1..(r - 1) /\ Saves(ta)[r - 1] = items[ta]
                    /\ r - 1 \in Nat \ {0}
        BY <1>3, <4>1, SavesStep
      <4>3. items'[ta].epoch = e
        BY <1>3, AddOneIs
      <4> HIDE DEF e, R
      <4>4. c.round \in 1..(r - 1) \/ (c.round = r /\ items[ta].epoch = e)
        BY <3>2, <3>3, <4>2
      <4>5. CASE c.round \in 1..(r - 1)
        <5>1. c.round \in 1..r
          BY <4>2, <4>5
        <5> QED
          BY <3>2, <3>3, <4>2, <4>5, <5>1
      <4>6. CASE c.round = r /\ items[ta].epoch = e
        <5>1. c.round \in 1..r
          BY <4>2, <4>6
        <5> QED
          BY <3>2, <3>3, <4>2, <4>3, <4>6, <5>1
      <4> QED
        BY <4>4, <4>5, <4>6
    <3>4. CASE t # ta
      <4>1. Saves(t)' = Saves(t)
        BY <1>3, <3>4, AddOneElsewhere
      <4> QED
        BY <3>2, <4>1
    <3> QED
      BY <3>3, <3>4
  <2> QED
    BY <2>2, <2>3
<1> QED
  BY <1>1, <1>2, <1>3
  DEF Next, LoopAdds, vars, Tick, SetBack, Submit, Get, Start, TakeGet, Answer, AddEnd

LEMMA MarksAlways == Spec => []MarksInv
PROOF
<1>1. ASSUME StatsTypes, StatsTypes', AddInv, MarksInv, [Next]_vars PROVE MarksInv'
  BY <1>1, MarksStep
<1> QED
  BY <1>1, MarksInit, StatsAlways, PTL DEF Spec

(* The epoch that an item is counted in, turned back to a time, is an      *)
(* interval that the time at which the loop counted it lies in, or was     *)
(* rounded up to: the division of ToTrendrrEpoch and the product of        *)
(* FromTrendrrEpoch agree.                                                 *)
THEOREM TimesCorrect == Spec => []CountedInItsTime
PROOF
<1>1. ASSUME StatsTypes, MarksInv PROVE CountedInItsTime
  <2> SUFFICES ASSUME NEW i \in DOMAIN taken, NEW ta \in Timeamounts, NEW c,
                      c = taken[i].counted[ta], c # NotYet
               PROVE  /\ FromTrendrrEpoch(ta, c.epoch) <= c.time + Slack[ta.timeframe]
                      /\ c.time < FromTrendrrEpoch(ta, c.epoch + 1)
    BY DEF CountedInItsTime
  <2>1. i \in 1..Len(taken)
    BY <1>1, LenProperties DEF StatsTypes
  <2>2. c.time \in Nat /\ c.epoch = ToTrendrrEpoch(ta, c.time)
    BY <1>1, <2>1 DEF MarksInv
  <2> QED
    BY <2>2, EpochTimes, StatsAssumption
<1> QED
  BY <1>1, StatsAlways, MarksAlways, PTL
-----------------------------------------------------------------------------
(* As long as the clock was not set back no epoch lies ahead of it.        *)
OrderInv ==
  /\ PersistedOnceInOrder
  /\ ~wentBack => \A ta \in Timeamounts : items[ta].epoch <= ToTrendrrEpoch(ta, now)

(* Two saves of one timeamount                                             *)
InOrder(p) ==
  \A i, j \in DOMAIN p :
    i < j => IF wentBack THEN j = i + 1 => p[i].epoch # p[j].epoch
             ELSE p[i].epoch < p[j].epoch

LEMMA OrderInit == ASSUME Init PROVE OrderInv
PROOF
<1>1. StatsTypes
  BY StatsInit
<1>2. \A ta \in Timeamounts : DOMAIN Saves(ta) = 1..1
  <2> TAKE ta \in Timeamounts
  <2>1. Len(persisted[ta]) = 0
    BY EmptySeq DEF Init
  <2>2. DOMAIN Saves(ta) = 1..(Len(persisted[ta]) + 1)
    BY <1>1, SavesIs
  <2> QED
    BY <2>1, <2>2
<1>3. \A ta \in Timeamounts : items[ta].epoch = ToTrendrrEpoch(ta, now) /\ items[ta].epoch \in Int
  BY <1>1 DEF Init, StatsTypes, Kept
<1> QED
  BY <1>2, <1>3 DEF OrderInv, PersistedOnceInOrder

LEMMA OrderStep ==
  ASSUME StatsTypes, StatsTypes', OrderInv, [Next]_vars PROVE OrderInv'
PROOF
<1>1. \A ta \in Timeamounts : InOrder(Saves(ta))
  BY DEF OrderInv, PersistedOnceInOrder, InOrder
<1>2. CASE UNCHANGED <<items, persisted, now, wentBack>>
  <2>1. \A ta \in Timeamounts : Saves(ta)' = Saves(ta)
    BY <1>2 DEF Saves
  <2>2. PersistedOnceInOrder'
    BY <1>1, <1>2, <2>1 DEF InOrder, PersistedOnceInOrder
  <2> QED
    BY <1>2, <2>2 DEF OrderInv
<1>3. ASSUME Tick PROVE OrderInv'
  <2>1. UNCHANGED <<items, persisted, wentBack>> /\ now \in Nat /\ now' \in Nat /\ now <= now'
    BY <1>3 DEF Tick, StatsTypes
  <2>2. ASSUME NEW ta \in Timeamounts, items[ta].epoch <= ToTrendrrEpoch(ta, now)
        PROVE  items[ta].epoch <= ToTrendrrEpoch(ta, now')
    <3>1. PICK e \in Nat : e = ToTrendrrEpoch(ta, now)
      BY <2>1, EpochTimes, StatsAssumption
    <3>2. PICK f \in Nat : f = ToTrendrrEpoch(ta, now') /\ e <= f
      BY <2>1, <3>1, EpochTimes, StatsAssumption
    <3>3. items[ta].epoch \in Int
      BY DEF StatsTypes, Kept
    <3> QED
      BY <2>2, <3>1, <3>2, <3>3
  <2> QED
    BY <2>1, <2>2 DEF OrderInv, PersistedOnceInOrder, Saves
<1>4. ASSUME SetBack PROVE OrderInv'
  <2>1. ~wentBack /\ wentBack' /\ UNCHANGED <<items, persisted>>
    BY <1>4 DEF SetBack
  <2>2. \A ta \in Timeamounts : \A i \in DOMAIN Saves(ta) : Saves(ta)[i].epoch \in Int
    <3> TAKE ta \in Timeamounts
    <3>1. PICK p \in Seq(Kept) : p = Saves(ta)
      BY SavesIs
    <3>2. \A i \in DOMAIN p : p[i] \in Kept
      BY <3>1, ElementOfSeq, LenProperties
    <3> QED
      BY <3>1, <3>2 DEF Kept
  <2>3. \A ta \in Timeamounts : Saves(ta)' = Saves(ta)
    BY <2>1 DEF Saves
  <2> QED
    BY <1>1, <2>1, <2>2, <2>3 DEF OrderInv, PersistedOnceInOrder, InOrder
<1>5. ASSUME NEW ta \in Timeamounts, AddOne(ta) PROVE OrderInv'
  <2>1. PICK e \in Nat : e = ToTrendrrEpoch(ta, now)
    BY EpochTimes, StatsAssumption DEF StatsTypes
  <2>2. PICK r \in Nat \ {0} :
          /\ DOMAIN Saves(ta)' = 1..r /\ Saves(ta)'[r] = items'[ta]
          /\ \A j \in 1..(r - 1) : j \in DOMAIN Saves(ta) /\ Saves(ta)'[j] = Saves(ta)[j]
          /\ IF items[ta].epoch = e
             THEN DOMAIN Saves(ta) = 1..r /\ Saves(ta)[r] = items[ta]
             ELSE DOMAIN Saves(ta) = 1..(r - 1) /\ Saves(ta)[r - 1] = items[ta]
                  /\ r - 1 \in Nat \ {0}
    <3>1. PICK r : r = Len(persisted'[ta]) + 1
      OBVIOUS
    <3> QED
      BY <1>5, <2>1, <3>1, SavesStep
  <2>3. items'[ta].epoch = e /\ UNCHANGED <<now, wentBack>>
    BY <1>5, <2>1, AddOneIs DEF AddOne, world
  <2>4. \A t \in Timeamounts \ {ta} : Saves(t)' = Saves(t) /\ items'[t] = items[t]
    BY <1>5, AddOneIs DEF Saves
  <2>5. PICK p : p = Saves(ta)
    OBVIOUS
  <2>6. PICK q : q = Saves(ta)'
    OBVIOUS
  <2>7. \A i \in DOMAIN p : p[i].epoch \in Int
    <3>1. p \in Seq(Kept)
      BY <2>5, SavesIs
    <3>2. \A i \in DOMAIN p : p[i] \in Kept
      BY <3>1, ElementOfSeq, LenProperties
    <3> QED
      BY <3>2 DEF Kept
  <2>8. InOrder(q)
    <3> SUFFICES ASSUME NEW i \in 1..r, NEW j \in 1..r, i < j
                 PROVE  IF wentBack THEN j = i + 1 => q[i].epoch # q[j].epoch
                        ELSE q[i].epoch < q[j].epoch
      BY <2>2, <2>6 DEF InOrder
    <3>1. i \in 1..(r - 1) /\ q[i] = p[i] /\ i \in DOMAIN p
      BY <2>2, <2>5, <2>6
    <3>2. CASE j # r
      <4>1. j \in 1..(r - 1)
        BY <3>2
      <4>2. q[j] = p[j] /\ j \in DOMAIN p
        BY <2>2, <2>5, <2>6, <4>1
      <4> QED
        BY <1>1, <2>5, <3>1, <4>2 DEF InOrder
    <3>3. CASE j = r /\ items[ta].epoch = e
      <4>1. q[j].epoch = p[j].epoch /\ j \in DOMAIN p
        BY <2>2, <2>3, <2>5, <2>6, <3>3
      <4> QED
        BY <1>1, <2>5, <3>1, <4>1 DEF InOrder
    <3>4. CASE j = r /\ items[ta].epoch # e
      <4>1. DOMAIN p = 1..(r - 1) /\ p[r - 1] = items[ta] /\ r - 1 \in DOMAIN p
        BY <2>2, <2>5, <3>4
      <4>2. q[j].epoch = e
        BY <2>2, <2>3, <2>6, <3>4
      <4>3. CASE wentBack
        <5>1. j = i + 1 => i = r - 1
          BY <3>4
        <5> QED
          BY <3>1, <3>4, <4>1, <4>2, <4>3, <5>1
      <4>4. CASE ~wentBack
        <5>1. PICK x \in Int : x = p[r - 1].epoch
          BY <2>7, <4>1
        <5>2. PICK y \in Int : y = p[i].epoch
          BY <2>7, <3>1
        <5>3. x <= e /\ x # e
          BY <2>1, <3>4, <4>1, <4>4, <5>1 DEF OrderInv
        <5>4. y <= x
          <6>1. CASE i = r - 1
            BY <5>1, <5>2, <6>1
          <6>2. CASE i # r - 1
            <7>1. i < r - 1
              BY <3>1, <6>2
            <7>2. y < x
              BY <1>1, <2>5, <3>1, <4>1, <4>4, <5>1, <5>2, <7>1 DEF InOrder
            <7> QED
              BY <7>2
          <6> QED
            BY <6>1, <6>2
        <5>5. y < e
          BY <5>3, <5>4
        <5> QED
          BY <3>1, <4>2, <4>4, <5>2, <5>5
      <4> QED
        BY <4>3, <4>4
    <3> QED
      BY <3>2, <3>3, <3>4
  <2>9. \A t \in Timeamounts : (InOrder(Saves(t)))'
    BY <1>1, <2>3, <2>4, <2>6, <2>8 DEF InOrder
  <2>10. PersistedOnceInOrder'
    BY <2>9 DEF PersistedOnceInOrder, InOrder
  <2>11. ASSUME ~wentBack', NEW t \in Timeamounts
         PROVE  items'[t].epoch <= ToTrendrrEpoch(t, now')
    <3>1. CASE t = ta
      BY <2>1, <2>3, <3>1
    <3>2. CASE t # ta
      BY <2>3, <2>4, <2>11, <3>2 DEF OrderInv
    <3> QED
      BY <3>1, <3>2
  <2> QED
    BY <2>10, <2>11 DEF OrderInv
<1> QED
  BY <1>2, <1>3, <1>4, <1>5
  DEF Next, LoopAdds, vars, world, Submit, Get, Start, TakeGet, Answer, TakeItem, AddEnd

(* Each epoch is persisted once and in order, and only when it is over;    *)
(* with a clock that is set back two saves in a row still differ.          *)
THEOREM PersistedCorrect == Spec => []PersistedOnceInOrder
PROOF
<1>1. ASSUME StatsTypes, StatsTypes', OrderInv, [Next]_vars PROVE OrderInv'
  BY <1>1, OrderStep
<1>2. ASSUME OrderInv PROVE PersistedOnceInOrder
  BY <1>2 DEF OrderInv
<1> QED
  BY <1>1, <1>2, OrderInit, StatsAlways, PTL DEF Spec
-----------------------------------------------------------------------------
(* Every save holds what was counted for it, and so does every answer.     *)
SavesInv ==
  \A ta \in Timeamounts :
    \A j \in DOMAIN Saves(ta) : RightIn(Saves(ta)[j].values, taken, ta, j, Len(taken))

AnswersInv ==
  \A g \in Getters, ta \in Timeamounts :
    RightIn(got[g].items[ta].values, taken, ta, got[g].round[ta], got[g].covers)

LEMMA NoneRight ==
  ASSUME NEW s, NEW ta, NEW round PROVE RightIn(EmptyMap, s, ta, round, 0)
PROOF
<1>1. \A k : CountedIn(s, ta, round, k, 0) = {}
  BY DEF CountedIn
<1> QED
  BY <1>1, EmptyIs DEF RightIn

LEMMA SavesInit == ASSUME Init PROVE SavesInv /\ AnswersInv
PROOF
<1>1. StatsTypes
  BY StatsInit
<1>2. Len(taken) = 0 /\ \A ta \in Timeamounts : items[ta].values = EmptyMap
  BY EmptySeq DEF Init
<1>3. ASSUME NEW ta \in Timeamounts, NEW j \in DOMAIN Saves(ta)
      PROVE  Saves(ta)[j].values = EmptyMap
  <2>1. Len(persisted[ta]) = 0
    BY EmptySeq DEF Init
  <2>2. DOMAIN Saves(ta) = 1..(Len(persisted[ta]) + 1)
        /\ Saves(ta)[Len(persisted[ta]) + 1] = items[ta]
    BY <1>1, SavesIs
  <2>3. j = 1 /\ Saves(ta)[1] = items[ta]
    BY <2>1, <2>2
  <2> QED
    BY <1>2, <2>3
<1>4. \A g \in Getters : got[g].items = items /\ got[g].covers = 0
  BY DEF Init
<1> QED
  BY <1>2, <1>3, <1>4, NoneRight DEF SavesInv, AnswersInv

(* The last item, while it is added, is counted in no round for ta yet,    *)
(* and no item is counted in a round that there is not.                    *)
LEMMA RoundsAre ==
  ASSUME StatsTypes, AddInv, MarksInv, NEW ta \in Timeamounts, NEW i \in 1..Len(taken)
  PROVE  /\ taken[i].counted[ta].round = 0 \/ taken[i].counted[ta].round \in DOMAIN Saves(ta)
         /\ loop = "add" /\ ta \in todo /\ i = Len(taken) => taken[i].counted[ta].round = 0
PROOF
<1>1. NotYet.round = 0
  BY DEF NotYet
<1> QED
  BY <1>1 DEF MarksInv, AddInv

LEMMA AddOneRight ==
  ASSUME StatsTypes, StatsTypes', AddInv, MarksInv, SavesInv,
         NEW ta \in Timeamounts, AddOne(ta), NEW R, R = Len(persisted'[ta]) + 1
  PROVE  RightIn(items'[ta].values, taken', ta, R, Len(taken))
PROOF
<1> DEFINE e == ToTrendrrEpoch(ta, now)
<1>1. PICK n \in Nat \ {0} : n = Len(taken)
  BY AddOneIs
<1>2. PICK v \in Maps : v = Rolled(ta).values
  BY AddOneIs DEF Kept
<1>3. taken' \in Seq(Took) /\ taken \in Seq(Took) /\ Len(taken') = n
  BY <1>1, AddOneIs DEF StatsTypes
<1>4. /\ \A i \in 1..n : taken'[i].item = taken[i].item
      /\ \A i \in 1..n : i # n => taken'[i].counted[ta] = taken[i].counted[ta]
  <2>1. 1..n = 1..Len(taken)
    BY <1>1
  <2>2. \A i \in 1..Len(taken) : taken'[i].item = taken[i].item
    BY AddOneIs
  <2>3. \A i \in 1..Len(taken) : i # n => taken'[i].counted[ta] = taken[i].counted[ta]
    BY <1>1, AddOneMarks
  <2> QED
    BY <2>1, <2>2, <2>3
<1>5. n \in 1..n /\ \A i \in 1..(n - 1) : i \in 1..n /\ i # n
  OBVIOUS
<1>6. taken'[n].counted[ta].round = R
  <2>1. taken'[n].counted[ta] = [round |-> Len(persisted'[ta]) + 1, epoch |-> e, time |-> now]
    BY <1>1, <1>5, AddOneIs
  <2> QED
    BY <2>1
<1>7. taken[n].counted[ta].round = 0
  BY <1>1, <1>5, RoundsAre DEF AddOne
<1>8. /\ R \in Nat \ {0}
      /\ IF items[ta].epoch = e
         THEN DOMAIN Saves(ta) = 1..R /\ Saves(ta)[R] = items[ta]
         ELSE DOMAIN Saves(ta) = 1..(R - 1)
  BY SavesStep
<1>9. RightIn(v, taken, ta, R, n)
  <2>1. CASE items[ta].epoch = e
    <3>1. Rolled(ta) = items[ta]
      BY <2>1 DEF Rolled
    <3>2. R \in DOMAIN Saves(ta) /\ Saves(ta)[R] = items[ta]
      BY <1>8, <2>1
    <3> QED
      BY <1>1, <1>2, <3>1, <3>2 DEF SavesInv
  <2>2. CASE items[ta].epoch # e
    <3>1. v = EmptyMap
      BY <1>2, <2>2 DEF Rolled
    <3>2. R \notin DOMAIN Saves(ta) /\ R # 0
      BY <1>8, <2>2
    <3>3. \A i \in 1..n : taken[i].counted[ta].round # R
      BY <1>1, <3>2, RoundsAre
    <3>4. \A k : CountedIn(taken, ta, R, k, n) = {}
      BY <3>3 DEF CountedIn
    <3> QED
      BY <3>1, <3>4, EmptyIs DEF RightIn
  <2> QED
    BY <2>1, <2>2
<1>10. items'[ta].values = Apply(v, taken[n].item)
  BY <1>1, <1>2, AddOneIs DEF Adding
<1>11. \A i \in 1..(n - 1) : taken'[i].counted[ta].round = taken[i].counted[ta].round
  BY <1>4, <1>5
<1>12. PICK s \in Seq(Took) : s = taken
  BY <1>3
<1>13. PICK t \in Seq(Took) : t = taken'
  BY <1>3
<1>14. /\ Len(s) = n /\ Len(t) = n /\ \A i \in 1..n : t[i].item = s[i].item
       /\ \A i \in 1..(n - 1) : t[i].counted[ta].round = s[i].counted[ta].round
       /\ s[n].counted[ta].round # R /\ t[n].counted[ta].round = R
       /\ RightIn(v, s, ta, R, n)
  BY <1>1, <1>3, <1>4, <1>6, <1>7, <1>8, <1>9, <1>11, <1>12, <1>13
<1>15. RightIn(Apply(v, s[n].item), t, ta, R, n)
  <2>1. /\ Len(t) = Len(s) /\ Len(s) \in Nat \ {0}
        /\ \A i \in 1..Len(s) : t[i].item = s[i].item
        /\ \A i \in 1..(Len(s) - 1) : t[i].counted[ta].round = s[i].counted[ta].round
        /\ s[Len(s)].counted[ta].round # R /\ t[Len(s)].counted[ta].round = R
        /\ RightIn(v, s, ta, R, Len(s))
    BY <1>14
  <2> HIDE <1>12, <1>13
  <2> QED
    BY <1>14, <2>1, RightAdd
<1> QED
  BY <1>1, <1>10, <1>12, <1>13, <1>15

(* Saves and answers that a step leaves alone stay right.                  *)
LEMMA TakeItemRight ==
  ASSUME StatsTypes, TakeItem, ~flood, NEW ta \in Timeamounts, NEW round \in Nat \ {0}, NEW v,
         NEW n \in Nat, n <= Len(taken), NEW m \in Nat, m = n \/ (n = Len(taken) /\ m = n + 1),
         RightIn(v, taken, ta, round, n)
  PROVE  RightIn(v, taken', ta, round, m)
PROOF
<1>1. PICK s \in Seq(Took) : s = taken
  BY DEF StatsTypes
<1>2. PICK t \in Seq(Took) : t = taken'
  BY TakeItemIs
<1>3. /\ Len(s) \in Nat /\ Len(t) = Len(s) + 1
      /\ \A i \in 1..Len(s) : t[i] = s[i]
      /\ t[Len(s) + 1].counted[ta] = NotYet
  <2>1. Len(t) = Len(s) + 1 /\ t[Len(t)].counted[ta] = NotYet
    BY <1>1, <1>2, TakeItemIs
  <2> QED
    BY <1>1, <1>2, <2>1, TakeItemIs
<1>4. t[Len(s) + 1].counted[ta].round # round
  BY <1>3 DEF NotYet
<1>5. \A i \in 1..n : i \in 1..Len(s)
  BY <1>1, <1>3
<1>6. \A i \in 1..n : t[i].counted[ta].round = round <=> s[i].counted[ta].round = round
  BY <1>3, <1>5
<1>7. \A i \in (n + 1)..m : t[i].counted[ta].round # round
  <2> TAKE i \in (n + 1)..m
  <2>1. i = Len(s) + 1
    BY <1>1, <1>3
  <2> QED
    BY <1>4, <2>1
<1>8. n <= Len(s) /\ n <= m /\ Len(s) <= Len(t) /\ \A i \in 1..Len(s) : t[i].item = s[i].item
  BY <1>1, <1>3
<1> QED
  BY <1>1, <1>2, <1>6, <1>7, <1>8, RightSame

LEMMA AddOneKeeps ==
  ASSUME StatsTypes, AddInv, MarksInv, NEW t \in Timeamounts, AddOne(t),
         NEW ta \in Timeamounts, NEW round \in Nat \ {0}, NEW v,
         NEW n \in Nat, n <= Len(taken), RightIn(v, taken, ta, round, n),
         ta # t \/ round # Len(persisted'[t]) + 1 \/ n < Len(taken)
  PROVE  RightIn(v, taken', ta, round, n)
PROOF
<1>1. PICK s \in Seq(Took) : s = taken
  BY DEF StatsTypes
<1>2. PICK u \in Seq(Took) : u = taken'
  BY AddOneIs
<1>3. /\ Len(s) \in Nat \ {0} /\ Len(u) = Len(s)
      /\ \A i \in 1..Len(s) : u[i].item = s[i].item
  BY <1>1, <1>2, AddOneIs
<1>4. ASSUME NEW i \in 1..n
      PROVE  u[i].counted[ta].round = round <=> s[i].counted[ta].round = round
  <2>1. i \in 1..Len(taken) /\ i \in 1..Len(s)
    BY <1>1, <1>3
  <2>2. CASE i = Len(taken) /\ ta = t
    <3>1. u[i].counted[ta].round = Len(persisted'[t]) + 1
      <4>1. taken'[i].counted[ta] = [round |-> Len(persisted'[t]) + 1,
                                     epoch |-> ToTrendrrEpoch(t, now), time |-> now]
        BY <2>1, <2>2, AddOneIs
      <4> QED
        BY <1>2, <4>1
    <3>2. round # Len(persisted'[t]) + 1
      BY <1>1, <1>3, <2>2
    <3>3. s[i].counted[ta].round = 0
      BY <1>1, <2>1, <2>2, RoundsAre DEF AddOne
    <3> QED
      BY <3>1, <3>2, <3>3
  <2>3. CASE ~(i = Len(taken) /\ ta = t)
    <3>1. u[i].counted[ta] = s[i].counted[ta]
      BY <1>1, <1>2, <2>1, <2>3, AddOneMarks
    <3> QED
      BY <3>1
  <2> QED
    BY <2>2, <2>3
<1>5. n <= Len(s) /\ n <= n /\ Len(s) <= Len(u)
  BY <1>1, <1>3
<1>6. \A i \in (n + 1)..n : u[i].counted[ta].round # round
  OBVIOUS
<1>7. RightIn(v, u, ta, round, n)
  BY <1>1, <1>3, <1>4, <1>5, <1>6, RightSame
<1> QED
  BY <1>2, <1>7

LEMMA SavesInvStep ==
  ASSUME ~flood, StatsTypes, StatsTypes', AddInv, MarksInv, SavesInv, [Next]_vars PROVE SavesInv'
PROOF
<1>0. Len(taken) \in Nat
  BY LenProperties DEF StatsTypes
<1>1. CASE UNCHANGED <<items, taken, persisted>>
  BY <1>1 DEF SavesInv, Saves
<1>2. ASSUME TakeItem PROVE SavesInv'
  <2>1. \A ta \in Timeamounts : Saves(ta)' = Saves(ta)
    BY <1>2 DEF TakeItem, Saves
  <2> SUFFICES ASSUME NEW ta \in Timeamounts, NEW j \in DOMAIN Saves(ta)
               PROVE  RightIn(Saves(ta)[j].values, taken', ta, j, Len(taken'))
    BY <2>1 DEF SavesInv
  <2>2. j \in Nat \ {0}
    BY SavesIs
  <2>3. Len(taken') \in Nat /\ Len(taken') = Len(taken) + 1
    BY <1>0, <1>2, TakeItemIs
  <2>4. RightIn(Saves(ta)[j].values, taken, ta, j, Len(taken))
    BY DEF SavesInv
  <2> QED
    BY <1>0, <1>2, <2>2, <2>3, <2>4, TakeItemRight
<1>3. ASSUME NEW t \in Timeamounts, AddOne(t) PROVE SavesInv'
  <2>1. Len(taken') = Len(taken)
    BY <1>3, AddOneIs
  <2> SUFFICES ASSUME NEW ta \in Timeamounts, NEW j \in DOMAIN Saves(ta)'
               PROVE  RightIn(Saves(ta)'[j].values, taken', ta, j, Len(taken))
    BY <2>1 DEF SavesInv
  <2>2. PICK R : R = Len(persisted'[t]) + 1
    OBVIOUS
  <2>3. /\ R \in Nat \ {0} /\ DOMAIN Saves(t)' = 1..R /\ Saves(t)'[R] = items'[t]
        /\ \A i \in 1..(R - 1) : i \in DOMAIN Saves(t) /\ Saves(t)'[i] = Saves(t)[i]
    BY <1>3, <2>2, SavesStep
  <2>4. CASE ta = t /\ j = R
    <3>1. RightIn(items'[t].values, taken', t, R, Len(taken))
      BY <1>3, <2>2, AddOneRight
    <3> QED
      BY <2>3, <2>4, <3>1
  <2>5. CASE ~(ta = t /\ j = R)
    <3>1. j \in DOMAIN Saves(ta) /\ Saves(ta)'[j] = Saves(ta)[j]
      <4>1. CASE ta = t
        <5>1. j \in 1..(R - 1)
          BY <2>3, <2>5, <4>1
        <5> QED
          BY <2>3, <4>1, <5>1
      <4>2. CASE ta # t
        <5>1. Saves(ta)' = Saves(ta)
          BY <1>3, <4>2, AddOneElsewhere
        <5> QED
          BY <5>1
      <4> QED
        BY <4>1, <4>2
    <3>2. j \in Nat \ {0}
      BY <3>1, SavesIs
    <3>3. RightIn(Saves(ta)[j].values, taken, ta, j, Len(taken))
      BY <3>1 DEF SavesInv
    <3>4. RightIn(Saves(ta)[j].values, taken', ta, j, Len(taken))
      BY <1>0, <1>3, <2>2, <2>5, <3>2, <3>3, AddOneKeeps
    <3> QED
      BY <3>1, <3>4
  <2> QED
    BY <2>4, <2>5
<1> QED
  BY <1>1, <1>2, <1>3
  DEF Next, LoopAdds, vars, Tick, SetBack, Submit, Get, Start, TakeGet, Answer, AddEnd

(* An answer shows saves, none of the round 0 of items not counted yet.    *)
RoundsInv ==
  \A g \in Getters, ta \in Timeamounts : got[g].round[ta] # 0

LEMMA AnswersStep ==
  ASSUME ~flood, StatsTypes, StatsTypes', AddInv, MarksInv, SavesInv, AnswersInv, RoundsInv,
         [Next]_vars
  PROVE  AnswersInv' /\ RoundsInv'
PROOF
<1>0. Len(taken) \in Nat
  BY LenProperties DEF StatsTypes
<1>6. \A g \in Getters : /\ got[g].covers <= Len(taken)
                         /\ loop = "add" => got[g].covers < Len(taken)
  BY DEF AddInv
<1>1. ASSUME NEW g \in Getters, NEW ta \in Timeamounts
      PROVE  /\ got[g].covers \in Nat /\ got[g].covers <= Len(taken)
             /\ loop = "add" => got[g].covers < Len(taken)
             /\ got[g].round[ta] \in Nat \ {0}
             /\ RightIn(got[g].items[ta].values, taken, ta, got[g].round[ta], got[g].covers)
  BY <1>1, <1>6 DEF StatsTypes, AnswersInv, RoundsInv
<1>2. CASE UNCHANGED <<got, taken>>
  BY <1>2 DEF AnswersInv, RoundsInv
<1>3. ASSUME TakeGet PROVE AnswersInv' /\ RoundsInv'
  <2>1. taken' = taken
    BY <1>3 DEF TakeGet, Answer
  <2> SUFFICES ASSUME NEW g \in Getters, NEW ta \in Timeamounts
               PROVE  /\ RightIn(got'[g].items[ta].values, taken, ta, got'[g].round[ta],
                                 got'[g].covers)
                      /\ got'[g].round[ta] # 0
    BY <2>1 DEF AnswersInv, RoundsInv
  <2>2. CASE g = Head(getChan)
    <3>1. got'[g] = [items |-> items, covers |-> Len(taken),
                     round |-> [t \in Timeamounts |-> Len(persisted[t]) + 1]]
      BY <1>3, <2>2, TakeGetIs
    <3>2. PICK r : r = Len(persisted[ta]) + 1
      OBVIOUS
    <3>3. r \in Nat \ {0} /\ DOMAIN Saves(ta) = 1..r /\ Saves(ta)[r] = items[ta]
      BY <3>2, SavesIs
    <3>4. RightIn(items[ta].values, taken, ta, r, Len(taken))
      <4>1. r \in DOMAIN Saves(ta)
        BY <3>3
      <4> QED
        BY <3>3, <4>1 DEF SavesInv
    <3> QED
      BY <3>1, <3>2, <3>3, <3>4
  <2>3. CASE g # Head(getChan)
    <3>1. got'[g] = got[g]
      BY <1>3, <2>3, TakeGetIs
    <3> QED
      BY <1>1, <3>1
  <2> QED
    BY <2>2, <2>3
<1>4. ASSUME TakeItem PROVE AnswersInv' /\ RoundsInv'
  <2>1. got' = got
    BY <1>4 DEF TakeItem
  <2>2. ASSUME NEW g \in Getters, NEW ta \in Timeamounts
        PROVE  RightIn(got[g].items[ta].values, taken', ta, got[g].round[ta], got[g].covers)
    BY <1>1, <1>4, TakeItemRight
  <2> QED
    BY <2>1, <2>2 DEF AnswersInv, RoundsInv
<1>5. ASSUME NEW t \in Timeamounts, AddOne(t) PROVE AnswersInv' /\ RoundsInv'
  <2>1. got' = got /\ loop = "add"
    BY <1>5 DEF AddOne
  <2>2. ASSUME NEW g \in Getters, NEW ta \in Timeamounts
        PROVE  RightIn(got[g].items[ta].values, taken', ta, got[g].round[ta], got[g].covers)
    BY <1>1, <1>5, <2>1, AddOneKeeps
  <2> QED
    BY <2>1, <2>2 DEF AnswersInv, RoundsInv
<1> QED
  BY <1>2, <1>3, <1>4, <1>5
  DEF Next, LoopAdds, vars, Tick, SetBack, Submit, Get, Start, AddEnd

(* Nothing is recorded of a flood.                                         *)
Recorded == ~flood => SavesInv /\ AnswersInv /\ RoundsInv

LEMMA SavesAlways == Spec => []Recorded
PROOF
<1>1. ASSUME StatsTypes, StatsTypes', AddInv, MarksInv, Recorded, [Next]_vars
      PROVE  Recorded'
  <2>1. flood' = flood
    BY <1>1
    DEF Next, LoopAdds, vars, world, Tick, SetBack, Submit, Get, Start, TakeGet, Answer, TakeItem,
        AddOne, AddEnd
  <2> SUFFICES ASSUME ~flood PROVE SavesInv' /\ AnswersInv' /\ RoundsInv'
    BY <2>1 DEF Recorded
  <2>2. SavesInv /\ AnswersInv /\ RoundsInv
    BY <1>1 DEF Recorded
  <2> QED
    BY <1>1, <2>2, SavesInvStep, AnswersStep
<1>2. ASSUME Init PROVE Recorded
  <2>1. RoundsInv
    BY <1>2 DEF Init, RoundsInv
  <2> QED
    BY <1>2, <2>1, SavesInit DEF Recorded
<1> QED
  BY <1>1, <1>2, StatsAlways, MarksAlways, PTL DEF Spec

LEMMA RightIs ==
  ASSUME NEW save, NEW ta, NEW round, NEW n
  PROVE  Right(save, ta, round, n) <=> RightIn(save.values, taken, ta, round, n)
  BY DEF Right, RightIn, Counted, CountedIn

(* What is kept for the current epoch and what was persisted for each past *)
(* one is what the loop counted from one change of epoch to the next, for  *)
(* every key that clashes with none, and was counted in the save's epoch.  *)
THEOREM EpochsCorrect == Spec => []EpochsRight
PROOF
<1>1. ASSUME StatsTypes, MarksInv, Recorded PROVE EpochsRight
  <2> SUFFICES ASSUME ~flood PROVE EpochsRight
    BY DEF EpochsRight
  <2>1. DOMAIN taken = 1..Len(taken)
    BY <1>1, LenProperties DEF StatsTypes
  <2>2. ASSUME NEW ta \in Timeamounts, NEW j \in DOMAIN Saves(ta)
        PROVE  Right(Saves(ta)[j], ta, j, Len(taken))
    BY <1>1, RightIs DEF SavesInv, Recorded
  <2> QED
    BY <1>1, <2>1, <2>2 DEF EpochsRight, MarksInv
<1> QED
  BY <1>1, StatsAlways, MarksAlways, SavesAlways, PTL

(* An answer to Get holds what its caller could have seen between two      *)
(* items: never an item that add has counted for some timeamounts only.    *)
THEOREM SnapshotsCorrect == Spec => []SnapshotsWhole
PROOF
<1>1. ASSUME Recorded PROVE SnapshotsWhole
  BY <1>1, RightIs DEF AnswersInv, SnapshotsWhole, Recorded
<1> QED
  BY <1>1, SavesAlways, PTL
=============================================================================
