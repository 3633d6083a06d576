------------------------------- MODULE Stats -------------------------------
(***************************************************************************)
(* The stats collector (stats/stats.go): any goroutine sets and increments *)
(* through a channel that drops when it is full, one loop keeps the values *)
(* of the current epoch of every timeamount, and Get asks it for a clone.  *)
(*                                                                         *)
(* The clock runs while the loop adds, and the loop reads it once for each *)
(* timeamount.  time.Now follows the wall clock, which may be set back.    *)
(*                                                                         *)
(* In some behaviors, the floods, callers set values for ever: there is no *)
(* last item, nothing is recorded of what was taken, and the clock is not  *)
(* set back.  In the others, what the loop took is recorded.               *)
(***************************************************************************)
EXTENDS Naturals, Sequences, DynMap, TimeAmount

CONSTANTS
  Timeamounts,
  Items,       (* what callers set and increment: [key, val, typ]          *)
  Getters,     (* goroutines that call Get, again and again                *)
  ItemCap,     (* capacity of itemChan (5)                                 *)
  GetCap,      (* capacity of getChan (10)                                 *)
  MaxItems,    (* bound but for floods: items that enter the channel, one  *)
               (* fewer once the clock was set back                        *)
  MaxNow,      (* bound: the clock                                         *)
  MayGoBack    (* the clock may be set back, once                          *)

ASSUME StatsAssumption ==
  /\ \A ta \in Timeamounts : IsTimeAmount(ta)
  /\ \A i \in Items : i.val \in Nat /\ i.typ \in {"SET", "INC"} /\ Len(i.key) > 0
  /\ {ItemCap, GetCap, MaxItems, MaxNow} \subseteq Nat /\ MayGoBack \in BOOLEAN

VARIABLES
  now,        (* the clock                                                 *)
  wentBack,   (* it was set back                                           *)
  flood,      (* items are set for ever                                    *)
  itemChan,
  getChan,
  items,      (* the StatsSave of each timeamount                          *)
  loop,       (* the event loop: "new", "select" or "add"                  *)
  todo,       (* while it adds: the timeamounts that add has still to do   *)
  getter,     (* "idle" or "waiting"                                       *)
  got,        (* the last answer to each Get, and how many items it covers *)
  taken,      (* history: the items the loop took (in a flood the last     *)
              (* one), and when it counted them for each timeamount        *)
  persisted   (* history: what was persisted for each timeamount           *)

world == <<now, wentBack, flood>>
vars == <<world, itemChan, getChan, items, loop, todo, getter, got, taken, persisted>>

NotYet == [round |-> 0, epoch |-> -1, time |-> -1]

Init ==
  /\ now = 0 /\ wentBack = FALSE /\ flood \in BOOLEAN
  /\ itemChan = <<>> /\ getChan = <<>>
  /\ items = [ta \in Timeamounts |-> [epoch |-> ToTrendrrEpoch(ta, now), values |-> EmptyMap]]
  /\ loop = "new"
  /\ todo = {}
  /\ getter = [g \in Getters |-> "idle"]
  /\ got = [g \in Getters |-> [items |-> items, covers |-> 0,
                              round |-> [ta \in Timeamounts |-> 1]]]
  /\ taken = <<>>
  /\ persisted = [ta \in Timeamounts |-> <<>>]

Tick ==
  /\ now < MaxNow
  /\ now' = now + 1
  /\ UNCHANGED <<wentBack, flood, itemChan, getChan, items, loop, todo, getter, got, taken, persisted>>

(* The items that may still enter the channel, a bound but for floods      *)
Room == MaxItems - (Len(taken) + Len(itemChan))

SetBack ==
  /\ MayGoBack /\ ~wentBack /\ ~flood
  /\ Room > 0
  /\ wentBack' = TRUE
  /\ now' \in 0..(now - 1)
  /\ UNCHANGED <<flood, itemChan, getChan, items, loop, todo, getter, got, taken, persisted>>
-----------------------------------------------------------------------------
(* The callers                                                             *)

(* Set and Inc: when the channel is full the item is dropped.              *)
Submit(item) ==
  /\ IF flood THEN item.typ = "SET" ELSE Room > IF wentBack THEN 1 ELSE 0
  /\ itemChan' = IF Len(itemChan) < ItemCap THEN Append(itemChan, item) ELSE itemChan
  /\ UNCHANGED <<world, getChan, items, loop, todo, getter, got, taken, persisted>>

Get(g) ==
  /\ getter[g] = "idle"
  /\ Len(getChan) < GetCap
  /\ getChan' = Append(getChan, g)
  /\ getter' = [getter EXCEPT ![g] = "waiting"]
  /\ UNCHANGED <<world, itemChan, items, loop, todo, got, taken, persisted>>
-----------------------------------------------------------------------------
(* The event loop                                                          *)

(* Which StatsSave of ta the current one is: the first, the second...      *)
Round(ta) == Len(persisted[ta]) + 1

Start ==
  /\ loop = "new"
  /\ loop' = "select"
  /\ UNCHANGED <<world, itemChan, getChan, items, todo, getter, got, taken, persisted>>

Answer ==
  LET g == Head(getChan)
  IN  /\ getChan # <<>>
      /\ getChan' = Tail(getChan)
      /\ got' = [got EXCEPT ![g] = [items |-> items, covers |-> Len(taken),
                                 round |-> [ta \in Timeamounts |-> Round(ta)]]]
      /\ getter' = [getter EXCEPT ![g] = "idle"]
      /\ UNCHANGED <<world, itemChan, items, loop, todo, taken, persisted>>

(* Mutant: Get is answered by a goroutine of its own.                      *)
AnswerAnytime == loop # "new" /\ Answer

(* Mutant: the answer is sent before the clone is made, to nobody.         *)
AnswerNobody ==
  /\ loop = "select"
  /\ getChan # <<>>
  /\ getChan' = Tail(getChan)
  /\ UNCHANGED <<world, itemChan, items, loop, todo, getter, got, taken, persisted>>

(* get: the clone is deep and the caller waits for it.                     *)
TakeGet == loop = "select" /\ Answer

TakeItem ==
  /\ loop = "select"
  /\ itemChan # <<>>
  /\ itemChan' = Tail(itemChan)
  /\ loop' = "add"
  /\ todo' = Timeamounts
  /\ taken' = LET new == [item |-> Head(itemChan), counted |-> [ta \in Timeamounts |-> NotYet]]
              IN  IF flood THEN <<new>> ELSE Append(taken, new)
  /\ UNCHANGED <<world, getChan, items, getter, got, persisted>>

Adding == taken[Len(taken)].item

Apply(values, item) ==
  PutWithDot(values, item.key,
             IF item.typ = "SET" THEN item.val
             ELSE MustInt64(values, item.key, 0) + item.val)

(* Mutant: the values are kept when the epoch changes.                     *)
RolledKeeps(ta) == [items[ta] EXCEPT !.epoch = ToTrendrrEpoch(ta, now)]

(* The StatsSave of the current epoch of ta                                *)
Rolled(ta) ==
  IF items[ta].epoch = ToTrendrrEpoch(ta, now) THEN items[ta]
  ELSE [epoch |-> ToTrendrrEpoch(ta, now), values |-> EmptyMap]

(* Mutant: the epoch that ends is persisted twice.                         *)
PersistTwice(ta) ==
  persisted' = IF items[ta].epoch = ToTrendrrEpoch(ta, now) THEN persisted
               ELSE [persisted EXCEPT ![ta] = @ \o <<items[ta], items[ta]>>]

Persist(ta) ==
  persisted' = IF items[ta].epoch = ToTrendrrEpoch(ta, now) THEN persisted
               ELSE [persisted EXCEPT ![ta] = Append(@, items[ta])]

(* One turn of the loop over the timeamounts, in the order of the map.     *)
AddOne(ta) ==
  /\ loop = "add"
  /\ ta \in todo
  /\ Persist(ta)
  /\ items' = [items EXCEPT ![ta] = [Rolled(ta) EXCEPT !.values = Apply(@, Adding)]]
  /\ taken' = [taken EXCEPT ![Len(taken)].counted[ta] =
                 [round |-> Round(ta)', epoch |-> ToTrendrrEpoch(ta, now), time |-> now]]
  /\ todo' = todo \ {ta}
  /\ UNCHANGED <<world, itemChan, getChan, loop, getter, got>>

(* Mutant: after an item the loop waits for a Get.                         *)
AddEndWaits ==
  /\ loop = "add"
  /\ todo = {}
  /\ getChan # <<>>
  /\ loop' = "select"
  /\ UNCHANGED <<world, itemChan, getChan, items, todo, getter, got, taken, persisted>>

AddEnd ==
  /\ loop = "add"
  /\ todo = {}
  /\ loop' = "select"
  /\ UNCHANGED <<world, itemChan, getChan, items, todo, getter, got, taken, persisted>>

LoopAdds == AddEnd \/ \E ta \in Timeamounts : AddOne(ta)

Next ==
  \/ Tick \/ SetBack
  \/ \E i \in Items : Submit(i)
  \/ \E g \in Getters : Get(g)
  \/ Start \/ TakeGet \/ TakeItem \/ LoopAdds

Spec == Init /\ [][Next]_vars

(* The loop is scheduled, and a select with two channels ready does not    *)
(* take the same one for ever (Go chooses at random).                      *)
FairSpec ==
  /\ Spec
  /\ SF_vars(TakeGet) /\ SF_vars(TakeItem)
  /\ WF_vars(LoopAdds)
-----------------------------------------------------------------------------
Keys   == {i.key : i \in Items}
Epochs == {ToTrendrrEpoch(ta, t) : ta \in Timeamounts, t \in 0..MaxNow}

TypeOK ==
  /\ now \in 0..MaxNow /\ wentBack \in BOOLEAN /\ flood \in BOOLEAN
  /\ itemChan \in Seq(Items) /\ Len(itemChan) <= ItemCap
  /\ getChan \in Seq(Getters) /\ Len(getChan) <= GetCap
  /\ \A ta \in Timeamounts :
       /\ items[ta].epoch \in Epochs
       /\ DOMAIN items[ta].values \subseteq Keys /\ IsDynMap(items[ta].values)
  /\ loop \in {"new", "select", "add"}
  /\ todo \subseteq Timeamounts
  /\ getter \in [Getters -> {"idle", "waiting"}]
  /\ Len(taken) <= IF flood THEN 1 ELSE MaxItems

(* The items among the first n that were counted for key k in a round      *)
Counted(ta, round, k, n) ==
  {i \in 1..n : taken[i].item.key = k /\ taken[i].counted[ta].round = round}

(* The value they stand for: the last one set and what was added since     *)
Value(seq, is) ==
  LET value[n \in 0..Len(seq)] ==
        IF n = 0 THEN 0
        ELSE IF n \notin is THEN value[n - 1]
        ELSE IF seq[n].item.typ = "SET" THEN seq[n].item.val
        ELSE value[n - 1] + seq[n].item.val
  IN  value[Len(seq)]

(* Keys of which one is a number and the other a map cannot both be kept.  *)
Clash(k) == \E p \in Keys : Under(k, p) \/ Under(p, k)

Right(save, ta, round, n) ==
  \A k \in {j \in Keys : ~Clash(j)} :
    LET is == Counted(ta, round, k, n)
    IN  /\ k \in DOMAIN save.values <=> is # {}
        /\ is # {} => save.values[k] = Value(taken, is)

Saves(ta) == Append(persisted[ta], items[ta])

(* What is kept and what was persisted is exactly what the loop counted    *)
(* from one change of epoch to the next, and all of it in the epoch that   *)
(* the save is for, whenever the clock passes from one epoch to another or *)
(* is set back to one, whatever other keys clash: nothing is lost at a     *)
(* change of epoch, counted twice, or carried over.                        *)
EpochsRight ==
  ~flood => \A ta \in Timeamounts :
    /\ \A j \in DOMAIN Saves(ta) : Right(Saves(ta)[j], ta, j, Len(taken))
    /\ \A i \in DOMAIN taken :
         LET c == taken[i].counted[ta]
         IN  c # NotYet => c.round \in DOMAIN Saves(ta) /\ Saves(ta)[c.round].epoch = c.epoch

(* Each epoch is persisted once, in order, and only when it is over; two   *)
(* saves in a row are for different epochs even when the clock is set      *)
(* back.                                                                   *)
PersistedOnceInOrder ==
  \A ta \in Timeamounts :
    LET p == Saves(ta)
    IN  \A i, j \in DOMAIN p :
          i < j => IF wentBack THEN j = i + 1 => p[i].epoch # p[j].epoch
                   ELSE p[i].epoch < p[j].epoch

(* An answer to Get never shows an item that is counted for some           *)
(* timeamounts and not yet for others.                                     *)
SnapshotsWhole ==
  ~flood => \A g \in Getters, ta \in Timeamounts :
    Right(got[g].items[ta], ta, got[g].round[ta], got[g].covers)

(* The epoch an item is counted in is the one that FromTrendrrEpoch turns  *)
(* back to an interval around the time at which it was counted: this time  *)
(* is before its end, and at most the rounding of a float64 before its     *)
(* begin, where the epoch has already changed.                             *)
CountedInItsTime ==
  \A i \in DOMAIN taken, ta \in Timeamounts :
    LET c == taken[i].counted[ta]
    IN  c # NotYet => /\ FromTrendrrEpoch(ta, c.epoch) <= c.time + Slack[ta.timeframe]
                      /\ c.time < FromTrendrrEpoch(ta, c.epoch + 1)

Started == loop # "new"

(* Once the loop runs every Get is answered, also while items come for     *)
(* ever; and every item that entered the channel is taken, however many    *)
(* Gets there are.                                                         *)
GetReturns ==
  \A g \in Getters : Started /\ getter[g] = "waiting" ~> getter[g] = "idle"
AcceptedIsCounted == Started /\ ~flood /\ itemChan # <<>> ~> itemChan = <<>>
=============================================================================
