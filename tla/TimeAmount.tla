----------------------------- MODULE TimeAmount -----------------------------
(***************************************************************************)
(* Discrete amounts of time, numbered since the Trendrr epoch              *)
(* (timeamount/timeamount.go).  A time is its distance to that epoch in    *)
(* ticks of the clock; a timeamount is a record [amount, timeframe].       *)
(*                                                                         *)
(* Seconds(), Minutes() and Hours() of a duration are float64s.  About 8e8 *)
(* seconds after the epoch the next one is some 1e-7 seconds away, so that *)
(* a time up to half of that before the end of a timeframe is rounded up   *)
(* to this end before it is truncated.                                     *)
(***************************************************************************)
EXTENDS Integers

CONSTANTS
  Ticks,   (* the length of each timeframe                                 *)
  Slack    (* how long before its end a time is rounded up to it: not at   *)
           (* all in the integers of milliseconds.  It doubles with the    *)
           (* distance to the epoch, and is taken as constant.             *)

Timeframes == {"milli", "s", "min", "hr", "d"}

ASSUME TicksAssumption ==
  /\ Ticks \in [Timeframes -> Nat \ {0}] /\ Slack \in [Timeframes -> Nat]
  /\ \A tf \in Timeframes : Slack[tf] < Ticks[tf]
  /\ Slack["milli"] = 0

(* An amount of 0 would divide by zero.                                    *)
IsTimeAmount(ta) == ta.amount \in Nat \ {0} /\ ta.timeframe \in Timeframes

(* Integer division truncates towards zero.                                *)
Quot(a, b) == IF a >= 0 THEN a \div b ELSE -((-a) \div b)

(* The whole timeframes of a time, through a float64 which is truncated    *)
Truncated(timeframe, time) ==
  IF time >= 0 THEN Quot(time + Slack[timeframe], Ticks[timeframe])
  ELSE Quot(time - Slack[timeframe], Ticks[timeframe])

(* Mutant: the amount is forgotten.                                        *)
EpochOfFrame(ta, time) == Truncated(ta.timeframe, time)

ToTrendrrEpoch(ta, time) == Quot(Truncated(ta.timeframe, time), ta.amount)

FromTrendrrEpoch(ta, epoch) == (ta.amount * epoch) * Ticks[ta.timeframe]
=============================================================================
