------------------------- MODULE MCJournaledBroker -------------------------
(***************************************************************************)
(* Instances of the journaled broker for TLC.                              *)
(***************************************************************************)
EXTENDS JournaledBroker

CONSTANTS k1, s1

New(side, quantity, limit, key) ==
  [symbol |-> s1, side |-> side, quantity |-> quantity, limit |-> limit,
   key |-> key, state |-> "PENDING", filled |-> 0]

Book(price, size) ==
  [symbol |-> s1, bid |-> price, ask |-> price, pool |-> [side \in Sides |-> size]]

\* Two orders of one intent, one of them larger than cash allows for, and a sell of what
\* the other buys.
MCNewOrders ==
  {New("BUY", 2, 1, k1), New("BUY", 2, 2, k1), New("SELL", 2, 1, NoKey)}

MCQuotes == {Book(1, 1), Book(1, 2)}

\* Order ids are only compared for equality.
Symmetry == Permutations(OrderIds)
============================================================================
