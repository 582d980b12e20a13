----------------------------- MODULE PriceLimits -----------------------------
(***************************************************************************)
(* The exchange's tick grid and daily limit, and whether a backtest may    *)
(* buy at a price: check_buy refuses what is signalled after the price was *)
(* made, what is locked at the limit, and what nobody offers.  Prices are  *)
(* integers, for which 1.3 times a close is never at the bound of a band,  *)
(* so that the code's 1e-9 gives the exact quotient.                       *)
(*                                                                         *)
(* Definitions named <definition>_<error> are wrong forms of the one that  *)
(* follows: each shows that a property fails when the code has that error. *)
(***************************************************************************)
EXTENDS Integers, FiniteSets, FiniteSetsExt

CONSTANTS
  Closes,    \* previous closes
  Unknown,   \* a size or a time that is not given
  NoAnswer

ASSUME LimitConstants ==
  Closes \subseteq Nat \ {0} /\ Unknown \notin Int

VARIABLES
  asked,     \* what check_buy was asked, and what it found
  found

limitVars == <<asked, found>>

\* Each band of prices by its upper bound, which it does not have, and its tick.
Ladder ==
  {<<2000, 1>>, <<5000, 5>>, <<20000, 10>>, <<50000, 50>>, <<200000, 100>>, <<500000, 500>>}

\* The tick at tenths / 10.
TickSize(tenths) ==
  LET above == {band \in Ladder : tenths < band[1] * 10}
  IN IF above = {} THEN 1000
     ELSE (CHOOSE band \in above : \A other \in above : band[1] <= other[1])[2]

LimitUpPrice_TickOfClose(c) ==
  LET tick == TickSize(c * 10) IN ((c * 13) \div (tick * 10)) * tick

LimitUpPrice(c) ==
  LET tick == TickSize(c * 13) IN ((c * 13) \div (tick * 10)) * tick

Obstruction(buy) ==
  IF buy.signal # Unknown /\ buy.made # Unknown /\ buy.signal >= buy.made THEN "signal_after_price"
  ELSE IF buy.price >= LimitUpPrice(buy.close) THEN "limit_locked"
  ELSE IF buy.size = Unknown \/ buy.size <= 0 THEN "no_opposing_size"
  ELSE "feasible"

OnGrid(price) == price % TickSize(price * 10) = 0

\* The prices of the grid around the limit.
Near(c) ==
  LET limit == (c * 13) \div 10
      tick == TickSize(c * 13)
  IN {p \in {limit - (limit % tick) + k * tick : k \in -2 .. 2} : p > 0 /\ OnGrid(p)}

CheckBuy(c) ==
  /\ found = NoAnswer
  /\ asked' \in [close : {c}, price : Near(c), size : {Unknown, 0, 1},
                 signal : {Unknown, 1}, made : {Unknown, 1, 2}]
  /\ found' = Obstruction(asked')

LimitInit == asked = NoAnswer /\ found = NoAnswer
LimitNext == \E c \in Closes : CheckBuy(c)
LimitSpec == LimitInit /\ [][LimitNext]_limitVars

(***************************************************************************)
(* Properties.                                                             *)
(***************************************************************************)
\* A buy of known times and size is found feasible exactly when it can be had: the
\* price may still rise by a tick within thirty per cent of the close, in whatever band
\* that tick is, somebody offers, and the price was made after the signal (check_buy,
\* limit_up_price: "never above").  Of times that are not known nothing is asked, though
\* "any condition that cannot be evaluated counts against feasibility"
\* (fill_feasibility.py:53).
FeasibleLeavesATick ==
  found # NoAnswer =>
    (found = "feasible" <=>
       /\ \E p \in asked.price + 1 .. (asked.close * 13) \div 10 : OnGrid(p)
       /\ asked.size \notin {Unknown, 0}
       /\ Unknown \notin {asked.signal, asked.made} => asked.signal < asked.made)
==============================================================================
