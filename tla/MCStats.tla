------------------------------ MODULE MCStats ------------------------------
(***************************************************************************)
(* Stats for TLC: a "millisecond" lasts one tick and a "second" two, the   *)
(* last of which is rounded up, so that the epochs of the two amounts      *)
(* overlap; the keys are a, a.b (they clash) and c.                        *)
(***************************************************************************)
EXTENDS Stats

CONSTANT g1

ShortFrames == [milli |-> 1, s |-> 2, min |-> 4, hr |-> 8, d |-> 16]
LastTicks   == [milli |-> 0, s |-> 1, min |-> 1, hr |-> 1, d |-> 1]
TwoAmounts  == {[amount |-> 1, timeframe |-> "s"], [amount |-> 2, timeframe |-> "milli"]}

Sent(k, v, t) == [key |-> k, val |-> v, typ |-> t]
ThreeKeys == {Sent(<<"a">>, 1, "INC"), Sent(<<"a", "b">>, 1, "INC"),
              Sent(<<"c">>, 1, "INC"), Sent(<<"c">>, 3, "SET")}
=============================================================================
