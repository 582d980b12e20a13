------------------------- MODULE MCSimulatedBroker -------------------------
(***************************************************************************)
(* Instances of the simulated broker for TLC.                              *)
(***************************************************************************)
EXTENDS SimulatedBroker, TLC

CONSTANTS k1, s1, s2

New(symbol, side, quantity, limit, key) ==
  [symbol |-> symbol, side |-> side, quantity |-> quantity, limit |-> limit,
   key |-> key, state |-> "PENDING", filled |-> 0]

Book(symbol, bid, ask, bidSize, askSize) ==
  [symbol |-> symbol, bid |-> bid, ask |-> ask,
   pool |-> [side \in Sides |-> IF side = "BUY" THEN askSize ELSE bidSize]]

\* In s1: buys that leave cash for another one or do not, sells of part or all of
\* what a buy brings in, a market order each way, one intent placed by two orders.
\* In s2: enough to tell the two instruments apart.
MCNewOrders ==
  {New(s1, "BUY", 2, 2, k1), New(s1, "BUY", 2, 1, k1), New(s1, "BUY", 1, 2, NoKey),
   New(s1, "BUY", 1, NoLimit, NoKey), New(s1, "SELL", 1, 1, NoKey),
   New(s1, "SELL", 2, NoLimit, NoKey), New(s2, "BUY", 1, 1, NoKey),
   New(s2, "SELL", 1, 1, NoKey)}

\* A thin book and a deep one at different prices, and one with no seller.
MCQuotes ==
  {Book(s1, 1, 1, 1, 1), Book(s1, 2, 2, 3, 3), Book(s1, 1, 0, 2, 0), Book(s2, 1, 1, 1, 1)}

\* The second is above the limit of a buy and at that of another.
MCExecutions == {[quantity |-> 1, price |-> 1], [quantity |-> 2, price |-> 2]}

\* Order ids are only compared for equality.
Symmetry == Permutations(OrderIds)
============================================================================
