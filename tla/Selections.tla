----------------------------- MODULE Selections -----------------------------
(***************************************************************************)
(* What a comprehension with a condition, and a sort by a key that is      *)
(* total, leave of a list: the members at the places of a set, and the     *)
(* members of a set in an order.                                           *)
(***************************************************************************)
EXTENDS Integers, FiniteSets

\* The members of a finite set in the order that before gives them, as pairs.
InOrder(S, before) ==
  [i \in 1 .. Cardinality(S) |->
     CHOOSE x \in S : Cardinality({y \in S : <<y, x>> \in before}) = i - 1]

\* The numbers of a finite set in ascending order.
Ascending(places) ==
  [i \in 1 .. Cardinality(places) |->
     CHOOSE p \in places : Cardinality({q \in places : q < p}) = i - 1]

\* The members of a list that have one of the places, as they are listed.
Selected(list, places) ==
  LET order == Ascending(places)
  IN [i \in DOMAIN order |-> list[order[i]]]
==============================================================================
