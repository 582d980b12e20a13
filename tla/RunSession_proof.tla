-------------------------- MODULE RunSession_proof --------------------------
(***************************************************************************)
(* Proofs about a session and its repetition over one book, for any panel  *)
(* of bars, any signals and any number of runs: its report is the book,    *)
(* what it commits to an instrument, the order of its two legs, and what   *)
(* makes an order a duplicate.                                             *)
(***************************************************************************)
EXTENDS RunSession, SimulatedBroker_proof

(***************************************************************************)
(* Bars.                                                                   *)
(***************************************************************************)
HasEnds(T) == (\E x \in T : \A y \in T : x <= y) /\ (\E x \in T : \A y \in T : x >= y)

\* A finite set of integers has a least and a greatest member.
LEMMA FiniteHasEnds ==
  ASSUME NEW S, IsFiniteSet(S), S \subseteq Int, S # {}
  PROVE  HasEnds(S)
<1> DEFINE B == {T \in SUBSET S : T # {} /\ ~HasEnds(T)}
<1> SUFFICES ASSUME B # {} PROVE FALSE
  OBVIOUS
<1>1. PICK T \in B : \A U \in B : U \subseteq T => U = T
  <2>1. B \in SUBSET (SUBSET S)
    OBVIOUS
  <2> HIDE DEF B
  <2>2. QED
    BY ONLY <2>1, IsFiniteSet(S), B # {}, LeastSubset
<1>2. PICK z \in T : TRUE
  OBVIOUS
<1>3. T # {z}
  BY DEF HasEnds
<1>4. T \ {z} \notin B /\ T \ {z} # {} /\ T \ {z} \in SUBSET S
  BY <1>1, <1>2, <1>3
<1>5. HasEnds(T \ {z})
  BY <1>4
<1>6. PICK low \in T \ {z}, high \in T \ {z} :
        \A y \in T \ {z} : low <= y /\ high >= y
  BY <1>5 DEF HasEnds
<1>7. low \in Int /\ high \in Int /\ z \in Int
  OBVIOUS
<1>8. \E x \in T : \A y \in T : x <= y
  <2>1. CASE z <= low
    BY <1>6, <1>7, <2>1
  <2>2. CASE ~ (z <= low)
    BY <1>6, <1>7, <2>2
  <2>3. QED
    BY <2>1, <2>2
<1>9. \E x \in T : \A y \in T : x >= y
  <2>1. CASE z >= high
    BY <1>6, <1>7, <2>1
  <2>2. CASE ~ (z >= high)
    BY <1>6, <1>7, <2>2
  <2>3. QED
    BY <2>1, <2>2
<1>10. QED
  BY <1>8, <1>9 DEF HasEnds

\* They are what Min and Max choose.
LEMMA EndsAreMembers ==
  ASSUME NEW S, IsFiniteSet(S), S \subseteq Int, S # {}
  PROVE  /\ Min(S) \in S /\ \A y \in S : Min(S) <= y
         /\ Max(S) \in S /\ \A y \in S : Max(S) >= y
BY FiniteHasEnds DEF HasEnds, Min, Max

\* The next bar is a bar after the signal, and the last one is the session's.
LEMMA NextBarIsLater ==
  ASSUME NEW s, NEW t \in Int, Later(s, t) # {}
  PROVE  NextBar(s, t) \in t + 1 .. LastTime /\ HasBar(s, NextBar(s, t))
<1>1. Later(s, t) \in SUBSET (t + 1 .. LastTime) /\ LastTime \in Int
  BY SessionConstants DEF Later
<1>2. IsFiniteSet(Later(s, t)) /\ Later(s, t) \in SUBSET Int
  <2>1. IsFiniteSet(t + 1 .. LastTime)
    BY <1>1, FS_Interval
  <2>2. QED
    BY <1>1, <2>1, FS_Subset
<1>3. NextBar(s, t) \in Later(s, t)
  BY <1>2, EndsAreMembers DEF NextBar
<1>4. QED
  BY <1>3 DEF Later

\* An instrument that has a bar has a last one.
LEMMA LastBarIsLast ==
  ASSUME NEW s, NEW u \in 1 .. SessionEnd, HasBar(s, u)
  PROVE  LastBar(s) \in 1 .. SessionEnd /\ HasBar(s, LastBar(s)) /\ u <= LastBar(s)
<1> DEFINE S == {v \in 1 .. SessionEnd : HasBar(s, v)}
<1>1. S \in SUBSET (1 .. SessionEnd) /\ S # {} /\ SessionEnd \in Int
  BY SessionConstants
<1>2. IsFiniteSet(S) /\ S \in SUBSET Int
  BY <1>1, FS_Interval, FS_Subset
<1>3. Max(S) \in S /\ \A y \in S : Max(S) >= y
  BY <1>1, <1>2, EndsAreMembers
<1>4. QED
  BY <1>3 DEF LastBar

\* What is in a bar.
LEMMA BarTyped ==
  ASSUME bars \in Panels, NEW s \in Symbols, NEW t \in 1 .. LastTime, HasBar(s, t)
  PROVE  /\ bars[s][t].open \in Nat \ {0} /\ bars[s][t].close \in Nat \ {0}
         /\ bars[s][t].volume \in Nat
BY SessionConstants DEF HasBar

\* A quantity bought for an amount of money costs no more than that.
LEMMA QuotientBound ==
  ASSUME NEW a \in Nat, NEW b \in Nat \ {0}
  PROVE  a \div b \in Nat /\ (a \div b) * b <= a
OBVIOUS

(***************************************************************************)
(* What is submitted.                                                      *)
(***************************************************************************)
\* A quote made from a bar is one the broker takes, at the open of the bar.
LEMMA QuoteFromTyped ==
  ASSUME bars \in Panels, NEW s \in Symbols, NEW t \in 1 .. LastTime, HasBar(s, t)
  PROVE  /\ QuoteFrom(s, t) \in QuoteType /\ QuoteFrom(s, t) # NoQuote
         /\ QuoteFrom(s, t).symbol = s /\ QuoteFrom(s, t).ask = bars[s][t].open
<1>1. bars[s][t].open \in Nat /\ bars[s][t].volume \in Nat /\ Lot \in Nat
  BY BarTyped, BrokerConstants
<1>2. bars[s][t].volume * Lot \in Nat
  BY <1>1
<1>3. (bars[s][t].volume * Lot) \div 10 \in Nat
  BY <1>2
<1>4. QED
  BY <1>1, <1>3, BrokerConstants DEF QuoteFrom, QuoteType, NoQuote

\* An entry is a new order to buy, for no more than the notional at the next open.
LEMMA EntryOrderFresh ==
  ASSUME bars \in Panels, NEW s \in Symbols, NEW t \in 1 .. SessionEnd,
         Later(s, t) # {}, Shares(s, t) > 0
  PROVE  /\ EntryOrder(s, t) \in FreshOrders /\ <<s, t>> \in OrderIds
         /\ EntryOrder(s, t).symbol = s /\ EntryOrder(s, t).side = "BUY"
         /\ EntryOrder(s, t).key = <<s, "entry">> /\ <<s, "entry">> \in Keys
         /\ EntryOrder(s, t).quantity = Shares(s, t)
         /\ NextBar(s, t) \in 1 .. LastTime /\ HasBar(s, NextBar(s, t))
<1>1. NextBar(s, t) \in 1 .. LastTime /\ HasBar(s, NextBar(s, t))
  BY NextBarIsLater, SessionConstants
<1>2. bars[s][NextBar(s, t)].open \in Nat \ {0}
  BY <1>1, BarTyped
<1>3. Shares(s, t) \in Nat \ {0}
  <2>1. Notional \div bars[s][NextBar(s, t)].open \in Nat
    BY <1>2, QuotientBound, SessionConstants
  <2>2. QED
    BY <2>1, BrokerConstants DEF Shares
<1>4. (bars[s][NextBar(s, t)].open * 1003) \div 1000 \in Nat
  BY <1>2
<1>5. <<s, "entry">> \in Keys /\ <<s, t>> \in OrderIds
  BY SessionConstants
<1>6. QED
  BY <1>1, <1>3, <1>4, <1>5 DEF EntryOrder, NewOrder, FreshOrders, OrderType, Sides, States

\* An exit is a new order to sell the entry.
LEMMA ExitOrderFresh ==
  ASSUME bars \in Panels, NEW s \in Symbols, NEW u \in 1 .. SessionEnd, HasBar(s, u),
         entries[s] \in Nat \ {0}
  PROVE  /\ ExitOrder(s) \in FreshOrders /\ <<s, 0>> \in OrderIds
         /\ ExitOrder(s).symbol = s /\ ExitOrder(s).side = "SELL"
         /\ ExitOrder(s).key = <<s, "exit">> /\ <<s, "exit">> \in Keys
         /\ ExitOrder(s).quantity = entries[s]
         /\ LastBar(s) \in 1 .. LastTime /\ HasBar(s, LastBar(s))
<1>1. LastBar(s) \in 1 .. LastTime /\ HasBar(s, LastBar(s))
  BY LastBarIsLast, SessionConstants
<1>2. bars[s][LastBar(s)].close \in Nat
  BY <1>1, BarTyped
<1>3. (bars[s][LastBar(s)].close * 997) \div 1000 \in Nat
  BY <1>2
<1>4. <<s, "exit">> \in Keys /\ <<s, 0>> \in OrderIds
  BY SessionConstants
<1>5. QED
  BY <1>1, <1>3, <1>4 DEF ExitOrder, NewOrder, FreshOrders, OrderType, Sides, States

(***************************************************************************)
(* Lists without repetition, as the signals and the entries are.           *)
(***************************************************************************)
Unrepeated(l) == \A m, n \in DOMAIN l : l[m] = l[n] => m = n
IsIn(s, l) == \E n \in DOMAIN l : l[n] = s

\* Behind the head of one is the rest.
LEMMA HeadAndTail ==
  ASSUME NEW l \in Seq(Symbols), l # <<>>, Unrepeated(l)
  PROVE  /\ Head(l) \in Symbols /\ Tail(l) \in Seq(Symbols) /\ Unrepeated(Tail(l))
         /\ IsIn(Head(l), l) /\ ~IsIn(Head(l), Tail(l))
         /\ \A s : IsIn(s, l) <=> s = Head(l) \/ IsIn(s, Tail(l))
<1>1. /\ Head(l) = l[1] /\ DOMAIN l = 1 .. Len(l) /\ Len(l) \in Nat \ {0}
      /\ Tail(l) \in Seq(Symbols) /\ DOMAIN Tail(l) = 1 .. Len(l) - 1
      /\ \A n \in 1 .. Len(l) - 1 : Tail(l)[n] = l[n + 1]
      /\ Head(l) \in Symbols
  OBVIOUS
<1>2. \A n \in 1 .. Len(l) : n = 1 \/ n - 1 \in 1 .. Len(l) - 1
  BY <1>1
<1>3. \A n \in 1 .. Len(l) - 1 : n + 1 \in 1 .. Len(l) /\ n + 1 # 1
  BY <1>1
<1>4. Unrepeated(Tail(l))
  BY <1>1, <1>3 DEF Unrepeated
<1>5. IsIn(Head(l), l) /\ ~IsIn(Head(l), Tail(l))
  BY <1>1, <1>3 DEF Unrepeated, IsIn
<1>6. ASSUME NEW s
      PROVE  IsIn(s, l) <=> s = Head(l) \/ IsIn(s, Tail(l))
  <2>1. ASSUME IsIn(s, l), s # Head(l)
        PROVE  IsIn(s, Tail(l))
    <3>1. PICK n \in 1 .. Len(l) : l[n] = s
      BY <1>1, <2>1 DEF IsIn
    <3>2. n - 1 \in 1 .. Len(l) - 1 /\ Tail(l)[n - 1] = l[n]
      BY <1>1, <1>2, <2>1, <3>1
    <3>3. QED
      BY <1>1, <3>1, <3>2 DEF IsIn
  <2>2. ASSUME IsIn(s, Tail(l))
        PROVE  IsIn(s, l)
    BY <1>1, <1>3, <2>2 DEF IsIn
  <2>3. QED
    BY <1>5, <2>1, <2>2
<1>7. QED
  BY <1>1, <1>4, <1>5, <1>6

\* A new member at the end.
LEMMA AppendedNew ==
  ASSUME NEW l \in Seq(Symbols), Unrepeated(l), NEW s \in Symbols, ~IsIn(s, l)
  PROVE  /\ Append(l, s) \in Seq(Symbols) /\ Unrepeated(Append(l, s))
         /\ \A r : IsIn(r, Append(l, s)) <=> r = s \/ IsIn(r, l)
<1> DEFINE k == Append(l, s)
<1>1. /\ k \in Seq(Symbols) /\ DOMAIN k = 1 .. Len(l) + 1 /\ DOMAIN l = 1 .. Len(l)
      /\ Len(l) \in Nat /\ k[Len(l) + 1] = s /\ \A n \in 1 .. Len(l) : k[n] = l[n]
  OBVIOUS
<1> HIDE DEF k
<1>2. \A n \in DOMAIN k : n \in DOMAIN l \/ n = Len(l) + 1
  BY <1>1
<1>3. \A n \in DOMAIN l : n \in DOMAIN k /\ l[n] # s
  BY <1>1 DEF IsIn
<1>4. Unrepeated(k)
  BY <1>1, <1>2, <1>3 DEF Unrepeated
<1>5. \A r : IsIn(r, k) <=> r = s \/ IsIn(r, l)
  BY <1>1, <1>2, <1>3 DEF IsIn
<1>6. QED
  BY <1>1, <1>4, <1>5 DEF k

\* The signals of an evaluation: any choice of the instruments shown, in any order.
LEMMA SignalsAreUnrepeated ==
  ASSUME NEW S \in SUBSET Symbols, NEW l \in SetToAllKPermutations(S), IsFiniteSet(S)
  PROVE  l \in Seq(Symbols) /\ Unrepeated(l) /\ \A s : IsIn(s, l) => s \in S
<1>1. PICK T \in SUBSET S : l \in SetToSeqs(T)
  BY DEF SetToAllKPermutations
<1>2. IsFiniteSet(T)
  BY FS_Subset
<1>3. Cardinality(T) \in Nat
  BY <1>2, FS_CardinalityType
<1>4. /\ l \in [1 .. Cardinality(T) -> T]
      /\ \A i, j \in 1 .. Cardinality(T) : i # j => l[i] # l[j]
  BY <1>1 DEF SetToSeqs
<1>5. DOMAIN l = 1 .. Cardinality(T) /\ l \in [1 .. Cardinality(T) -> Symbols]
  BY <1>4
<1>6. l \in Seq(Symbols)
  BY <1>3, <1>5
<1>7. Unrepeated(l) /\ \A s : IsIn(s, l) => s \in S
  BY <1>4, <1>5 DEF Unrepeated, IsIn
<1>8. QED
  BY <1>6, <1>7

(***************************************************************************)
(* The invariant.                                                          *)
(***************************************************************************)
Stages == {"evaluate", "enter", "entering", "entry_raised", "exit", "exiting", "exit_raised", "done"}
Entries == {"evaluate", "enter", "entering", "entry_raised"}   \* before the exits
Waiting == {"entering", "exiting"}                             \* for submit to return

Entering(s) == stage = "entering" /\ s = Head(todo)
Exiting(s) == stage = "exiting" /\ s = Head(todo)

\* An entry order of s was accepted, in this run or an earlier one.
Placed(s) == keys[<<s, "entry">>] # NoOrder

\* s has a bar to exit on.
CanExit(s) == \E u \in 1 .. SessionEnd : HasBar(s, u)

SessionTyped ==
  /\ bars \in Panels /\ stage \in Stages
  /\ asOf \in Nat \ {0} /\ todo \in Seq(Symbols)
  /\ entries \in [Symbols -> Nat] /\ order \in Seq(Symbols)
  /\ stranded \in [Symbols -> Int]
  /\ runs \in Nat \ {0} /\ left \in [Symbols -> Int]

\* Every order is an entry of an evaluation, or the exit of an instrument entered.
IsEntry(s, t) ==
  LET o == orders[<<s, t>>]
  IN /\ o.symbol = s /\ o.side = "BUY" /\ o.key = <<s, "entry">>
     /\ o.state # "CANCELLED" /\ o.quantity = Shares(s, t)
     /\ Later(s, t) # {}

IsExit(s) ==
  LET o == orders[<<s, 0>>]
  IN o.symbol = s /\ o.side = "SELL" /\ o.key = <<s, "exit">> /\ Placed(s)

OrdersInv ==
  \A s \in Symbols :
    /\ \A t \in 1 .. SessionEnd : Known(<<s, t>>) => IsEntry(s, t)
    /\ Known(<<s, 0>>) => IsExit(s)

\* A key is held by an order of its leg that was accepted.
LegsInv ==
  \A s \in Symbols :
    /\ Placed(s) => \E t \in 1 .. SessionEnd :
                      /\ keys[<<s, "entry">>] = <<s, t>>
                      /\ Known(<<s, t>>) /\ orders[<<s, t>>].state # "REJECTED"
    /\ keys[<<s, "exit">>] # NoOrder => Known(<<s, 0>>)

\* Buys are executions of the one entry that was accepted, at the open of its bar.
IsOfEntry(f, s, t) ==
  /\ f.order = <<s, t>> /\ f.symbol = s
  /\ f.price = bars[s][NextBar(s, t)].open
  /\ keys[<<s, "entry">>] = <<s, t>>

FillsInv ==
  \A n \in DOMAIN fills :
    fills[n].side = "BUY" => \E s \in Symbols, t \in 1 .. SessionEnd : IsOfEntry(fills[n], s, t)

\* A quote is served only while the session waits for it, and only to the order it
\* came with, the last of the queue.
Awaited == <<Head(todo), IF stage = "entering" THEN asOf ELSE 0>>

ServedInv ==
  /\ stage \notin Waiting => ~Serving
  /\ stage \in Waiting =>
       /\ todo # <<>> /\ queue # <<>> /\ quote.at >= Len(queue) - 1
       /\ queue[Len(queue)] = Awaited
       /\ Known(Awaited) /\ orders[Awaited].state # "REJECTED"

\* While it waits for an entry the run has nothing of the instrument yet; an exit is of
\* whole shares.
WaitingInv ==
  /\ \A s \in Symbols : Entering(s) =>
       /\ quote.ask = bars[s][NextBar(s, asOf)].open
       /\ keys[<<s, "entry">>] = <<s, asOf>>
       /\ entries[s] = 0 /\ ~Known(<<s, 0>>) /\ left[s] = 0
  /\ \A s \in Symbols : Exiting(s) => entries[s] % Lot = 0 /\ Known(<<s, 0>>)

\* What is still to be handled.
TodoInv ==
  /\ Unrepeated(todo)
  /\ stage \in {"enter", "entering", "entry_raised"} =>
       asOf <= SessionEnd /\ \A s \in Symbols : IsIn(s, todo) => CanExit(s)
  /\ stage \in {"exit", "exiting", "exit_raised"} =>
       \A s \in Symbols :
         IsIn(s, todo) => entries[s] > 0 /\ (Known(<<s, 0>>) => Exiting(s))
  /\ stage \notin Entries =>
       \A s \in Symbols : entries[s] > 0 => IsIn(s, todo) \/ Known(<<s, 0>>)
  /\ stage = "done" => todo = <<>>

\* The entries of this run.
EntriesInv ==
  /\ Unrepeated(order)
  /\ \A s \in Symbols :
       /\ IsIn(s, order) <=> entries[s] > 0
       /\ entries[s] > 0 => Placed(s) /\ left[s] = 0 /\ CanExit(s)
       /\ stage \in Entries => stranded[s] = 0 /\ (Known(<<s, 0>>) => entries[s] = 0)
       /\ entries[s] % Lot # 0 /\ Known(<<s, 0>>) => stranded[s] = entries[s]

\* What the run has of an instrument.
Has(s) ==
  IF Entering(s) THEN orders[<<s, asOf>>].filled
  ELSE IF Exiting(s) THEN entries[s] - orders[<<s, 0>>].filled
  ELSE IF Known(<<s, 0>>) THEN stranded[s] ELSE entries[s]

HeldInv ==
  \A s \in Symbols : /\ held[s] = left[s] + Has(s)
                     /\ ~Placed(s) => held[s] = 0

\* In the first run an entry is what its order filled, and no order is of a later
\* evaluation or of one still to come.
FirstRunInv ==
  runs = 1 =>
    \A s \in Symbols :
      /\ left[s] = 0
      /\ Placed(s) /\ ~Entering(s) => entries[s] = orders[keys[<<s, "entry">>]].filled
      /\ \A t \in 1 .. SessionEnd :
           Known(<<s, t>>) =>
             \/ t < asOf
             \/ /\ t = asOf /\ stage # "evaluate"
                /\ IsIn(s, todo) => Entering(s)

RaisedInv ==
  /\ ~problems
  /\ raised = "duplicate" => stage = "entry_raised" /\ todo # <<>>
  /\ stage = "entry_raised" \/ stage = "exit_raised" \/ raised = "nothing"

BookInv == IInv /\ BooksAgree /\ OrdersInv /\ LegsInv /\ FillsInv

RunInv == /\ SessionTyped /\ ServedInv /\ WaitingInv /\ TodoInv /\ EntriesInv /\ HeldInv
          /\ FirstRunInv /\ RaisedInv /\ DuplicateMeansRestingEntry

SessionInv == BookInv /\ RunInv

(***************************************************************************)
(* The book.                                                               *)
(***************************************************************************)
\* The panel stays the panel, and so do the bars a session would take from it.
BarsAreKept ==
  /\ \A s, t : Later(s, t)' = Later(s, t) /\ NextBar(s, t)' = NextBar(s, t)
               /\ Shares(s, t)' = Shares(s, t)
  /\ \A s : LastBar(s)' = LastBar(s) /\ CanExit(s)' = CanExit(s)

\* All that is asked of the bars depends on the bars alone.
LEMMA KeptBars ==
  ASSUME bars' = bars
  PROVE  BarsAreKept
<1>1. \A s, t : HasBar(s, t)' = HasBar(s, t)
  BY DEF HasBar
<1>2. \A s, t : Later(s, t)' = Later(s, t)
  BY <1>1 DEF Later
<1>3. \A s, t : NextBar(s, t)' = NextBar(s, t)
  BY <1>2 DEF NextBar
<1>4. \A s, t : Shares(s, t)' = Shares(s, t)
  BY <1>3 DEF Shares
<1>5. \A s : LastBar(s)' = LastBar(s) /\ CanExit(s)' = CanExit(s)
  BY <1>1 DEF LastBar, CanExit
<1>6. QED
  BY <1>2, <1>3, <1>4, <1>5 DEF BarsAreKept

\* Ids and keys are pairs.
LEMMA Pairs ==
  /\ \A s \in Symbols, t \in 0 .. SessionEnd : <<s, t>> \in OrderIds
  /\ \A s \in Symbols, l \in {"entry", "exit"} : <<s, l>> \in Keys /\ <<s, l>> # NoKey
  /\ \A i \in OrderIds : \E s \in Symbols, t \in 0 .. SessionEnd : i = <<s, t>>
  /\ NoOrder \notin OrderIds
  /\ 0 \in 0 .. SessionEnd /\ \A t \in 1 .. SessionEnd : t \in 0 .. SessionEnd /\ t # 0
BY SessionConstants, BrokerConstants

\* A step that leaves orders, keys, fills and bars alone leaves their invariants.
LEMMA SameOrders ==
  ASSUME OrdersInv, LegsInv, FillsInv, UNCHANGED <<orders, keys, fills, bars>>
  PROVE  OrdersInv' /\ LegsInv' /\ FillsInv'
<1>1. BarsAreKept
  BY KeptBars
<1>2. /\ \A i : Known(i)' = Known(i)
      /\ \A s : Placed(s)' = Placed(s)
  BY DEF Known, Placed
<1>3. \A s, t : IsEntry(s, t)' = IsEntry(s, t) /\ IsExit(s)' = IsExit(s)
  BY <1>1, <1>2 DEF IsEntry, IsExit, BarsAreKept
<1>4. OrdersInv'
  BY <1>2, <1>3 DEF OrdersInv
<1>5. LegsInv'
  BY <1>2 DEF LegsInv
<1>6. FillsInv'
  BY <1>1 DEF FillsInv, IsOfEntry, BarsAreKept
<1>7. QED
  BY <1>4, <1>5, <1>6

\* So a step of the session that asks nothing of the broker keeps the book.
LEMMA BookKept ==
  ASSUME BookInv, UNCHANGED <<vars, bars>>
  PROVE  BookInv'
<1>1. IInv' /\ BooksAgree'
  BY StepPreserves, BooksStep DEF BookInv
<1>2. UNCHANGED <<orders, keys, fills, bars>>
  BY DEF vars
<1>3. QED
  BY <1>1, <1>2, SameOrders DEF BookInv

\* Nothing is served on no quote.
LEMMA NotServing == quote = NoQuote /\ orders \in [OrderIds -> OrderType \cup {Unknown}]
                      /\ queue \in Seq(OrderIds) => ~Serving
<1> SUFFICES ASSUME quote = NoQuote, orders \in [OrderIds -> OrderType \cup {Unknown}],
                    queue \in Seq(OrderIds), NEW n \in 1 .. Len(queue), Fillable(n)
             PROVE  FALSE
  BY DEF Serving, NoQuote
<1>1. orders[queue[n]] \in OrderType /\ orders[queue[n]].symbol = NoSymbol
  BY DEF Fillable, Working, WorkingStates, Unknown, NoQuote
<1>2. QED
  BY <1>1, BrokerConstants DEF OrderType

\* An order as a session submits it.
IsLeg(o, s, t) ==
  /\ o \in FreshOrders /\ o.symbol = s
  /\ t = 0 => o.side = "SELL" /\ o.key = <<s, "exit">>
  /\ t # 0 => o.side = "BUY" /\ o.key = <<s, "entry">>

\* It was placed: what that changes.
IsPlaced(s, t, o, state) ==
  /\ ~Known(<<s, t>>) /\ orders' = [orders EXCEPT ![<<s, t>>] = [o EXCEPT !.state = state]]
  /\ keys[o.key] = NoOrder
  /\ keys' = IF state = "OPEN" THEN [keys EXCEPT ![o.key] = <<s, t>>] ELSE keys
  /\ queue' = Append(queue, <<s, t>>)
  /\ UNCHANGED <<fills, held, cash, problems, halted>>

\* An accepted order is placed, and so is a refused one; what a session submits has a key.
LEMMA LegIsPlaced ==
  ASSUME NEW s \in Symbols, NEW t \in 0 .. SessionEnd, NEW o, IsLeg(o, s, t)
  PROVE  /\ Reject(<<s, t>>, o) => IsPlaced(s, t, o, "REJECTED")
         /\ \A q : Accept(<<s, t>>, o, q) => IsPlaced(s, t, o, "OPEN")
<1>1. o.key # NoKey
  BY Pairs DEF IsLeg
<1>2. QED
  BY <1>1 DEF Reject, Accept, MaySubmit, RegisterKey, IsPlaced

\* The fields of the orders and keys after that.
AsPlaced(s, t, o, state) ==
  /\ \A r \in Symbols, u \in 0 .. SessionEnd :
       <<r, u>> # <<s, t>> => /\ orders'[<<r, u>>] = orders[<<r, u>>]
                              /\ Known(<<r, u>>)' = Known(<<r, u>>)
  /\ Known(<<s, t>>)' /\ orders'[<<s, t>>].state = state /\ orders'[<<s, t>>].filled = 0
  /\ orders'[<<s, t>>].symbol = s /\ orders'[<<s, t>>].side = o.side
  /\ orders'[<<s, t>>].key = o.key /\ orders'[<<s, t>>].quantity = o.quantity
  /\ o.key \in Keys
  /\ \A k \in Keys : keys'[k] = IF k = o.key /\ state = "OPEN" THEN <<s, t>> ELSE keys[k]
  /\ \A k \in Keys : keys[k] # NoOrder => keys'[k] = keys[k]

\* That is what follows.
LEMMA PlacedLeg ==
  ASSUME TypeOK, NEW s \in Symbols, NEW t \in 0 .. SessionEnd, NEW o, IsLeg(o, s, t),
         NEW st \in {"OPEN", "REJECTED"}, IsPlaced(s, t, o, st)
  PROVE  AsPlaced(s, t, o, st)
<1>1. o \in OrderType /\ o.filled = 0
  BY DEF IsLeg, FreshOrders
<1>2. orders'[<<s, t>>] = [o EXCEPT !.state = st]
  BY Pairs DEF IsPlaced, TypeOK
<1>3. \A r \in Symbols, u \in 0 .. SessionEnd :
        <<r, u>> # <<s, t>> => orders'[<<r, u>>] = orders[<<r, u>>]
  BY Pairs DEF IsPlaced, TypeOK
<1>4. /\ orders'[<<s, t>>].state = st /\ orders'[<<s, t>>].filled = 0
      /\ orders'[<<s, t>>].symbol = s /\ orders'[<<s, t>>].side = o.side
      /\ orders'[<<s, t>>].key = o.key /\ orders'[<<s, t>>].quantity = o.quantity
  BY <1>1, <1>2 DEF OrderType, IsLeg
<1>5. o.key \in Keys
  BY Pairs DEF IsLeg
<1>6. \A k \in Keys : keys'[k] = IF k = o.key /\ st = "OPEN" THEN <<s, t>> ELSE keys[k]
  BY <1>5 DEF IsPlaced, TypeOK
<1>7. \A k \in Keys : keys[k] # NoOrder => keys'[k] = keys[k]
  BY <1>6 DEF IsPlaced
<1>8. QED
  BY <1>2, <1>3, <1>4, <1>5, <1>6, <1>7 DEF Known, AsPlaced

\* Placing a leg keeps the book: it is of its instrument and, if it is an exit, after an
\* entry; the key it takes was free.
LEMMA BookPlaced ==
  ASSUME BookInv, bars' = bars,
         NEW s \in Symbols, NEW t \in 0 .. SessionEnd, NEW o, IsLeg(o, s, t),
         t = 0 => Placed(s),
         t # 0 => Later(s, t) # {} /\ o.quantity = Shares(s, t),
         Reject(<<s, t>>, o) \/ \E q \in QuoteType : Accept(<<s, t>>, o, q)
  PROVE  BookInv'
<1>1. [Step]_vars
  BY Pairs DEF IsLeg, Step
<1>2. IInv' /\ BooksAgree'
  BY <1>1, StepPreserves, BooksStep DEF BookInv
<1>3. PICK st \in {"OPEN", "REJECTED"} : IsPlaced(s, t, o, st)
  BY LegIsPlaced
<1>4. BarsAreKept
  BY KeptBars
<1>5. TypeOK /\ OrdersInv /\ LegsInv /\ FillsInv
  BY DEF BookInv, IInv
<1>6. AsPlaced(s, t, o, st)
  BY <1>3, <1>5, PlacedLeg
<1>7. \A r \in Symbols : Placed(r) => Placed(r)'
  BY <1>6, Pairs DEF AsPlaced, Placed
<1>8. OrdersInv'
  <2>1. ASSUME NEW r \in Symbols, NEW u \in 1 .. SessionEnd, Known(<<r, u>>)'
        PROVE  IsEntry(r, u)'
    <3>1. CASE <<r, u>> = <<s, t>>
      <4>1. r = s /\ u = t /\ t # 0
        BY <3>1
      <4>2. QED
        BY <1>4, <1>6, <4>1 DEF AsPlaced, IsEntry, IsLeg, BarsAreKept
    <3>2. CASE <<r, u>> # <<s, t>>
      <4>1. IsEntry(r, u) /\ orders'[<<r, u>>] = orders[<<r, u>>]
        <5>1. Known(<<r, u>>)' = Known(<<r, u>>) /\ orders'[<<r, u>>] = orders[<<r, u>>]
          BY <1>6, <3>2, Pairs DEF AsPlaced
        <5>2. Known(<<r, u>>) => IsEntry(r, u)
          BY <1>5 DEF OrdersInv
        <5>3. QED
          BY ONLY <2>1, <5>1, <5>2
      <4>2. QED
        BY <1>4, <4>1 DEF IsEntry, BarsAreKept
    <3>3. QED
      BY <3>1, <3>2
  <2>2. ASSUME NEW r \in Symbols, Known(<<r, 0>>)'
        PROVE  IsExit(r)'
    <3>1. CASE <<r, 0>> = <<s, t>>
      <4>1. r = s /\ t = 0
        BY <3>1
      <4>2. QED
        BY <1>6, <1>7, <4>1 DEF AsPlaced, IsExit, IsLeg
    <3>2. CASE <<r, 0>> # <<s, t>>
      <4>1. IsExit(r) /\ orders'[<<r, 0>>] = orders[<<r, 0>>]
        <5>1. Known(<<r, 0>>)' = Known(<<r, 0>>) /\ orders'[<<r, 0>>] = orders[<<r, 0>>]
          BY <1>6, <3>2, Pairs DEF AsPlaced
        <5>2. Known(<<r, 0>>) => IsExit(r)
          BY <1>5 DEF OrdersInv
        <5>3. QED
          BY ONLY <2>2, <5>1, <5>2
      <4>2. QED
        BY <1>7, <4>1 DEF IsExit
    <3>3. QED
      BY <3>1, <3>2
  <2>3. QED
    BY <2>1, <2>2 DEF OrdersInv
<1>9. LegsInv'
  <2>1. ASSUME NEW r \in Symbols, Placed(r)'
        PROVE  \E u \in 1 .. SessionEnd :
                 /\ keys'[<<r, "entry">>] = <<r, u>>
                 /\ Known(<<r, u>>)' /\ orders'[<<r, u>>].state # "REJECTED"
    <3>1. CASE Placed(r)
      <4>1. PICK u \in 1 .. SessionEnd :
              /\ keys[<<r, "entry">>] = <<r, u>>
              /\ Known(<<r, u>>) /\ orders[<<r, u>>].state # "REJECTED"
        BY <1>5, <3>1 DEF LegsInv
      <4>2. <<r, u>> # <<s, t>>
        BY <1>3, <4>1 DEF IsPlaced
      <4>3. keys'[<<r, "entry">>] = <<r, u>>
        BY <1>6, <3>1, <4>1, Pairs DEF AsPlaced, Placed
      <4>4. QED
        BY <1>6, <4>1, <4>2, <4>3, Pairs DEF AsPlaced
    <3>2. CASE ~Placed(r)
      <4>1. o.key = <<r, "entry">> /\ st = "OPEN" /\ keys'[<<r, "entry">>] = <<s, t>>
        BY <1>6, <2>1, <3>2, Pairs DEF AsPlaced, Placed
      <4>2. r = s /\ t \in 1 .. SessionEnd
        BY <4>1, SessionConstants DEF IsLeg
      <4>3. Known(<<r, t>>)' /\ orders'[<<r, t>>].state # "REJECTED"
        BY ONLY <1>6, <4>1, <4>2 DEF AsPlaced
      <4>4. QED
        BY ONLY <4>1, <4>2, <4>3
    <3>3. QED
      BY <3>1, <3>2
  <2>2. ASSUME NEW r \in Symbols, keys'[<<r, "exit">>] # NoOrder
        PROVE  Known(<<r, 0>>)'
    <3>1. CASE keys[<<r, "exit">>] # NoOrder
      <4>1. Known(<<r, 0>>)
        BY <1>5, <3>1 DEF LegsInv
      <4>2. 0 \in 0 .. SessionEnd
        BY SessionConstants
      <4>3. <<r, 0>> # <<s, t>> => Known(<<r, 0>>)' = Known(<<r, 0>>)
        BY ONLY <1>6, <4>2 DEF AsPlaced
      <4>4. <<r, 0>> = <<s, t>> => Known(<<r, 0>>)'
        BY ONLY <1>6 DEF AsPlaced
      <4>5. QED
        BY ONLY <4>1, <4>3, <4>4
    <3>2. CASE keys[<<r, "exit">>] = NoOrder
      <4>1. o.key = <<r, "exit">>
        BY <1>6, <2>2, <3>2, Pairs DEF AsPlaced
      <4>2. r = s /\ t = 0
        BY <4>1 DEF IsLeg
      <4>3. QED
        BY <1>6, <4>2 DEF AsPlaced
    <3>3. QED
      BY <3>1, <3>2
  <2>3. QED
    BY <2>1, <2>2 DEF LegsInv, Placed
<1>10. FillsInv'
  <2>1. fills' = fills
    BY <1>3 DEF IsPlaced
  <2>2. ASSUME NEW f, NEW r \in Symbols, NEW u \in 1 .. SessionEnd, IsOfEntry(f, r, u)
        PROVE  IsOfEntry(f, r, u)'
    <3>1. keys[<<r, "entry">>] = <<r, u>> /\ <<r, u>> # NoOrder
      BY <2>2, Pairs DEF IsOfEntry
    <3>2. keys'[<<r, "entry">>] = <<r, u>>
      BY <1>6, <3>1, Pairs DEF AsPlaced
    <3>3. QED
      BY <1>4, <2>2, <3>2 DEF IsOfEntry, BarsAreKept
  <2>3. QED
    BY <1>5, <2>1, <2>2 DEF FillsInv
<1>11. QED
  BY <1>2, <1>8, <1>9, <1>10 DEF BookInv

\* What a fill changes: the order it goes to, the position of its instrument, the list.
AsFilled(i, q, p) ==
  LET o == orders[i]
      fill == [order |-> i, symbol |-> o.symbol, side |-> o.side, quantity |-> q, price |-> p]
  IN /\ q > 0
     /\ \A j \in OrderIds : j # i => orders'[j] = orders[j]
     /\ orders'[i].filled = o.filled + q /\ o.filled \in Nat
     /\ orders'[i].symbol = o.symbol /\ orders'[i].side = o.side
     /\ orders'[i].key = o.key /\ orders'[i].quantity = o.quantity
     /\ o.state \in WorkingStates
     /\ orders'[i].state \in {"PARTIALLY_FILLED", "FILLED"}
     /\ \A s \in Symbols :
          held'[s] = held[s] + IF s # o.symbol THEN 0 ELSE IF o.side = "BUY" THEN q ELSE -q
     /\ fills' = Append(fills, fill)
     /\ UNCHANGED <<queue, keys, problems, halted>>

\* So an execution does.
LEMMA ExecutionFills ==
  ASSUME IInv, NEW i \in OrderIds, NEW q \in Nat, NEW p \in Nat, ApplyFill(i, q, p)
  PROVE  AsFilled(i, q, p)
<1>1. orders[i] \in OrderType /\ q > 0
  BY ExecutedCounts
<1>2. orders' = [orders EXCEPT ![i] = Advanced(i, q)] /\ orders[i].state \in WorkingStates
  BY DEF ApplyFill, Working
<1>3. orders'[i] = Advanced(i, q) /\ \A j \in OrderIds : j # i => orders'[j] = orders[j]
  BY <1>2 DEF IInv, TypeOK
<1>4. /\ orders'[i].filled = orders[i].filled + q /\ orders[i].filled \in Nat
      /\ orders'[i].symbol = orders[i].symbol /\ orders'[i].side = orders[i].side
      /\ orders'[i].key = orders[i].key /\ orders'[i].quantity = orders[i].quantity
      /\ orders'[i].state \in {"PARTIALLY_FILLED", "FILLED"}
  BY <1>1, <1>3 DEF Advanced, OrderType
<1>5. \A s \in Symbols :
        held'[s] = held[s] + IF s # orders[i].symbol THEN 0
                             ELSE IF orders[i].side = "BUY" THEN q ELSE -q
  BY ExecutedBooks
<1>6. UNCHANGED <<queue, keys, problems, halted>>
  BY DEF ApplyFill
<1>7. fills' = Append(fills, [order |-> i, symbol |-> orders[i].symbol, side |-> orders[i].side,
                              quantity |-> q, price |-> p])
  BY DEF ApplyFill
<1>8. QED
  BY <1>1, <1>2, <1>3, <1>4, <1>5, <1>6, <1>7 DEF AsFilled

\* The quote a session gave with an order fills that order.
LEMMA ServesAwaited ==
  ASSUME SessionInv, Serve
  PROVE  /\ stage \in Waiting /\ Awaited \in OrderIds
         /\ \E q \in Nat : /\ AsFilled(Awaited, q, MarketablePrice(Awaited))
                           /\ quote'.ask = quote.ask /\ quote'.at = Len(queue)
<1>1. IInv /\ TypeOK /\ StateMatchesFilled /\ ServedInv
  BY DEF SessionInv, BookInv, RunInv, IInv
<1>2. PICK n \in quote.at + 1 .. Len(queue) :
        /\ NextFilled(n)
        /\ ApplyFill(queue[n], FillSize(queue[n]), MarketablePrice(queue[n]))
        /\ quote' = Drained(n, FillSize(queue[n]))
  BY DEF Serve
<1>3. Fillable(n) /\ quote.at \in Nat /\ Len(queue) \in Nat
  BY <1>1, <1>2 DEF NextFilled, TypeOK, ServedType
<1>4. stage \in Waiting
  BY <1>1, <1>2, <1>3 DEF ServedInv, Serving
<1>5. n = Len(queue) /\ n \in 1 .. Len(queue) /\ queue[n] = Awaited
  BY <1>1, <1>3, <1>4 DEF ServedInv
<1>6. queue[n] \in OrderIds
  BY <1>1, <1>5 DEF TypeOK
<1>7. /\ FillSize(queue[n]) \in Nat
      /\ MarketablePrice(queue[n]) \in Nat
  BY <1>1, <1>3, <1>5, DrainedTyped
<1>8. AsFilled(Awaited, FillSize(Awaited), MarketablePrice(Awaited))
  BY <1>1, <1>2, <1>5, <1>6, <1>7, ExecutionFills
<1>9. quote'.ask = quote.ask /\ quote'.at = Len(queue)
  BY <1>1, <1>2, <1>5 DEF Drained, TypeOK, ServedType
<1>10. QED
  BY <1>4, <1>5, <1>6, <1>7, <1>8, <1>9

\* The order that is awaited is the entry, or the exit, of the instrument at the head.
LEMMA AwaitedOrder ==
  ASSUME SessionInv, stage \in Waiting
  PROVE  /\ Head(todo) \in Symbols /\ Known(Awaited)
         /\ stage = "entering" => /\ asOf \in 1 .. SessionEnd /\ Awaited = <<Head(todo), asOf>>
                                  /\ IsEntry(Head(todo), asOf) /\ Entering(Head(todo))
         /\ stage = "exiting" => /\ Awaited = <<Head(todo), 0>> /\ IsExit(Head(todo))
                                 /\ Exiting(Head(todo))
<1>1. todo \in Seq(Symbols) /\ todo # <<>> /\ asOf \in Nat \ {0} /\ Known(Awaited)
  BY DEF SessionInv, RunInv, SessionTyped, ServedInv
<1>2. Head(todo) \in Symbols
  BY <1>1
<1>3. ASSUME stage = "entering"
      PROVE  /\ asOf \in 1 .. SessionEnd /\ Awaited = <<Head(todo), asOf>>
             /\ IsEntry(Head(todo), asOf) /\ Entering(Head(todo))
  <2>1. asOf \in 1 .. SessionEnd
    BY <1>1, <1>3, SessionConstants DEF SessionInv, RunInv, TodoInv
  <2>2. Awaited = <<Head(todo), asOf>>
    BY <1>3 DEF Awaited
  <2>3. QED
    BY <1>1, <1>2, <1>3, <2>1, <2>2 DEF SessionInv, BookInv, OrdersInv, Entering
<1>4. ASSUME stage = "exiting"
      PROVE  Awaited = <<Head(todo), 0>> /\ IsExit(Head(todo)) /\ Exiting(Head(todo))
  <2>1. Awaited = <<Head(todo), 0>>
    BY <1>4 DEF Awaited
  <2>2. QED
    BY <1>1, <1>2, <1>4, <2>1 DEF SessionInv, BookInv, OrdersInv, Exiting
<1>5. QED
  BY <1>1, <1>2, <1>3, <1>4

\* Serving it keeps the book: the fill is of the entry that was accepted, at the open of
\* its bar, or of an exit.
LEMMA BookServed ==
  ASSUME SessionInv, Serve, bars' = bars
  PROVE  BookInv'
<1>1. IInv' /\ BooksAgree'
  BY StepPreserves, BooksStep DEF SessionInv, BookInv, Step
<1>2. PICK q \in Nat : AsFilled(Awaited, q, MarketablePrice(Awaited))
  BY ServesAwaited
<1>3. /\ stage \in Waiting /\ Awaited \in OrderIds /\ Head(todo) \in Symbols /\ Known(Awaited)
      /\ stage = "entering" => /\ asOf \in 1 .. SessionEnd /\ Awaited = <<Head(todo), asOf>>
                               /\ IsEntry(Head(todo), asOf) /\ Entering(Head(todo))
      /\ stage = "exiting" => Awaited = <<Head(todo), 0>> /\ IsExit(Head(todo))
  BY ServesAwaited, AwaitedOrder
<1>4. BarsAreKept
  BY KeptBars
<1>5. TypeOK /\ OrdersInv /\ LegsInv /\ FillsInv /\ WaitingInv
  BY DEF SessionInv, BookInv, RunInv, IInv
<1>6. /\ keys' = keys /\ \A s : Placed(s)' = Placed(s)
      /\ \A i \in OrderIds : /\ i # Awaited => orders'[i] = orders[i]
                             /\ Known(i)' <=> Known(i)
                             /\ orders'[i].symbol = orders[i].symbol
                             /\ orders'[i].side = orders[i].side
                             /\ orders'[i].key = orders[i].key
                             /\ orders'[i].quantity = orders[i].quantity
                             /\ orders'[i].state \in {"CANCELLED", "REJECTED"} =>
                                  orders'[i].state = orders[i].state
  <2>1. /\ orders'[Awaited].symbol = orders[Awaited].symbol
        /\ orders'[Awaited].side = orders[Awaited].side
        /\ orders'[Awaited].key = orders[Awaited].key
        /\ orders'[Awaited].quantity = orders[Awaited].quantity
        /\ orders'[Awaited].state \in {"PARTIALLY_FILLED", "FILLED"}
        /\ \A i \in OrderIds : i # Awaited => orders'[i] = orders[i]
        /\ keys' = keys
    BY <1>2 DEF AsFilled
  <2>2. QED
    BY <1>3, <2>1 DEF Known, Placed
<1>7. OrdersInv'
  <2>1. ASSUME NEW s \in Symbols, NEW t \in 1 .. SessionEnd, Known(<<s, t>>)'
        PROVE  IsEntry(s, t)'
    <3>1. IsEntry(s, t)
      BY <1>5, <1>6, <2>1, Pairs DEF OrdersInv
    <3>2. QED
      BY <1>4, <1>6, <3>1, Pairs DEF IsEntry, BarsAreKept
  <2>2. ASSUME NEW s \in Symbols, Known(<<s, 0>>)'
        PROVE  IsExit(s)'
    <3>1. IsExit(s)
      BY <1>5, <1>6, <2>2, Pairs DEF OrdersInv
    <3>2. QED
      BY <1>6, <3>1, Pairs DEF IsExit
  <2>3. QED
    BY <2>1, <2>2 DEF OrdersInv
<1>8. LegsInv'
  <2>1. ASSUME NEW s \in Symbols, NEW t \in 1 .. SessionEnd,
               Known(<<s, t>>), orders[<<s, t>>].state # "REJECTED"
        PROVE  Known(<<s, t>>)' /\ orders'[<<s, t>>].state # "REJECTED"
    BY <1>6, <2>1, Pairs
  <2>2. \A s \in Symbols : Known(<<s, 0>>) => Known(<<s, 0>>)'
    BY <1>6, Pairs
  <2>3. QED
    BY <1>5, <1>6, <2>1, <2>2 DEF LegsInv
<1>9. FillsInv'
  <2>1. fills' = Append(fills, [order |-> Awaited, symbol |-> orders[Awaited].symbol,
                                side |-> orders[Awaited].side, quantity |-> q,
                                price |-> MarketablePrice(Awaited)])
    BY <1>2 DEF AsFilled
  <2>2. ASSUME NEW f, NEW s \in Symbols, NEW t \in 1 .. SessionEnd, IsOfEntry(f, s, t)
        PROVE  /\ f.order = <<s, t>> /\ f.symbol = s
               /\ f.price = bars'[s][NextBar(s, t)'].open /\ keys'[<<s, "entry">>] = <<s, t>>
    BY <1>4, <1>6, <2>2 DEF IsOfEntry, BarsAreKept
  <2>3. ASSUME orders[Awaited].side = "BUY"
        PROVE  IsOfEntry([order |-> Awaited, symbol |-> orders[Awaited].symbol,
                          side |-> orders[Awaited].side, quantity |-> q,
                          price |-> MarketablePrice(Awaited)], Head(todo), asOf)
    <3>1. stage = "entering"
      BY <1>3, <2>3 DEF Waiting, IsExit
    <3>2. QED
      BY <1>3, <1>5, <2>3, <3>1 DEF IsOfEntry, IsEntry, WaitingInv, MarketablePrice
  <2>4. ASSUME NEW n \in DOMAIN fills', fills'[n].side = "BUY"
        PROVE  \E s \in Symbols, t \in 1 .. SessionEnd : IsOfEntry(fills[n], s, t)'
    <3>1. fills \in Seq(Fills)
      BY <1>5 DEF TypeOK
    <3>2. CASE n \in DOMAIN fills
      <4>1. fills'[n] = fills[n]
        BY <2>1, <3>1, <3>2
      <4>2. PICK s \in Symbols, t \in 1 .. SessionEnd : IsOfEntry(fills[n], s, t)
        BY <1>5, <2>4, <3>2, <4>1 DEF FillsInv
      <4>3. /\ fills'[n].order = <<s, t>> /\ fills'[n].symbol = s
            /\ fills'[n].price = bars'[s][NextBar(s, t)'].open
            /\ keys'[<<s, "entry">>] = <<s, t>>
        BY <2>2, <4>1, <4>2
      <4>4. QED
        BY <4>3 DEF IsOfEntry
    <3>3. CASE n \notin DOMAIN fills
      <4>1. fills'[n] = [order |-> Awaited, symbol |-> orders[Awaited].symbol,
                         side |-> orders[Awaited].side, quantity |-> q,
                         price |-> MarketablePrice(Awaited)]
        BY <2>1, <2>4, <3>1, <3>3
      <4>2. orders[Awaited].side = "BUY" /\ asOf \in 1 .. SessionEnd
        BY <1>3, <2>4, <4>1 DEF Waiting, IsExit
      <4>3. PICK s \in Symbols, t \in 1 .. SessionEnd : s = Head(todo) /\ t = asOf
        BY <1>3, <4>2
      <4>4. IsOfEntry(fills'[n], s, t)
        BY <2>3, <4>1, <4>2, <4>3
      <4>5. /\ fills'[n].order = <<s, t>> /\ fills'[n].symbol = s
            /\ fills'[n].price = bars'[s][NextBar(s, t)'].open
            /\ keys'[<<s, "entry">>] = <<s, t>>
        BY <2>2, <4>4
      <4>6. QED
        BY <4>5 DEF IsOfEntry
    <3>4. QED
      BY <3>2, <3>3
  <2>5. QED
    BY <2>4 DEF FillsInv
<1>10. QED
  BY <1>1, <1>7, <1>8, <1>9 DEF BookInv

(***************************************************************************)
(* Steps of the run that ask nothing of the broker.                        *)
(***************************************************************************)
\* They leave what the invariant says of the broker.
BrokerIsKept ==
  /\ UNCHANGED <<vars, bars, runs, left>> /\ BarsAreKept /\ Serving' = Serving
  /\ \A i : Known(i)' = Known(i)
  /\ \A s : Placed(s)' = Placed(s)

\* What a step asks of the broker depends on its variables alone.
LEMMA KeptBroker ==
  ASSUME UNCHANGED <<vars, given>>
  PROVE  BrokerIsKept
<1>1. UNCHANGED <<orders, queue, quote, keys, bars, runs, left>>
  BY DEF vars, given
<1>2. BarsAreKept
  BY <1>1, KeptBars
<1>3. \A n : Fillable(n)' = Fillable(n)
  BY <1>1 DEF Fillable, Working, Marketable, MarketablePrice, WithinLimit
<1>4. Serving' = Serving
  BY <1>1, <1>3 DEF Serving
<1>5. QED
  BY <1>1, <1>2, <1>4 DEF BrokerIsKept, Known, Placed

\* No exception: nothing to say about one.
LEMMA NothingRaised ==
  ASSUME raised' = "nothing"
  PROVE  DuplicateMeansRestingEntry'
BY DEF DuplicateMeansRestingEntry

\* Each instrument has an order id of its own, so that there are finitely many.
LEMMA FiniteSymbols == IsFiniteSet(Symbols)
<1> DEFINE f == [s \in Symbols |-> <<s, 0>>]
<1>1. f \in Injection(Symbols, OrderIds)
  <2>1. f \in [Symbols -> OrderIds] /\ \A r, s \in DOMAIN f : f[r] = f[s] => r = s
    BY Pairs
  <2>2. QED
    BY <2>1 DEF Injection, IsInjective
<1>2. QED
  BY <1>1, FS_Injection, BrokerConstants

\* The strategy was asked.
LEMMA EvaluateKeeps ==
  ASSUME SessionInv, Evaluate
  PROVE  RunInv'
<1>1. BrokerIsKept
  BY KeptBroker DEF Evaluate
<1>2. RunInv /\ BookInv
  BY DEF SessionInv
<1>3. /\ todo' \in Seq(Symbols) /\ Unrepeated(todo')
      /\ \A s \in Symbols : IsIn(s, todo') => CanExit(s)
  <2> DEFINE S == {s \in Symbols : \E t \in 1 .. asOf : HasBar(s, t)}
  <2>1. S \in SUBSET Symbols /\ IsFiniteSet(S) /\ todo' \in SetToAllKPermutations(S)
    BY FiniteSymbols, FS_Subset DEF Evaluate
  <2>2. \A s \in S : CanExit(s)
    BY <1>2, SessionConstants DEF CanExit, Evaluate, RunInv, SessionTyped
  <2> HIDE DEF S
  <2>3. QED
    BY <2>1, <2>2, SignalsAreUnrepeated
<1>4. /\ stage = "evaluate" /\ stage' = "enter" /\ asOf <= SessionEnd /\ raised = "nothing"
      /\ UNCHANGED <<asOf, entries, order, stranded, raised>>
  BY <1>2 DEF Evaluate, RunInv, RaisedInv
<1>5. SessionTyped'
  BY <1>1, <1>2, <1>3, <1>4 DEF RunInv, SessionTyped, BrokerIsKept, Stages
<1>6. ServedInv' /\ WaitingInv'
  BY <1>1, <1>2, <1>4 DEF RunInv, ServedInv, WaitingInv, Waiting, BrokerIsKept, Entering, Exiting
<1>7. TodoInv'
  BY <1>1, <1>3, <1>4 DEF TodoInv, Entries, BrokerIsKept, BarsAreKept
<1>8. EntriesInv'
  BY <1>1, <1>2, <1>4 DEF RunInv, EntriesInv, Entries, BrokerIsKept, BarsAreKept
<1>9. HeldInv'
  BY <1>1, <1>2, <1>4 DEF RunInv, HeldInv, Has, Entering, Exiting, BrokerIsKept, vars
<1>10. FirstRunInv'
  BY <1>1, <1>2, <1>4 DEF RunInv, FirstRunInv, Entering, BrokerIsKept, vars
<1>11. RaisedInv' /\ DuplicateMeansRestingEntry'
  BY <1>1, <1>2, <1>4, NothingRaised DEF RunInv, RaisedInv, BrokerIsKept, vars
<1>12. QED
  BY <1>5, <1>6, <1>7, <1>8, <1>9, <1>10, <1>11 DEF RunInv

\* A signal was passed over.
LEMMA SkipKeeps ==
  ASSUME SessionInv, Skip
  PROVE  RunInv'
<1>1. BrokerIsKept
  BY KeptBroker DEF Skip
<1>2. RunInv /\ BookInv
  BY DEF SessionInv
<1>3. /\ stage = "enter" /\ todo # <<>> /\ todo' = Tail(todo) /\ raised = "nothing"
      /\ UNCHANGED <<stage, asOf, entries, order, stranded, raised>>
  BY <1>2 DEF Skip, RunInv, RaisedInv
<1>4. /\ Tail(todo) \in Seq(Symbols) /\ Unrepeated(Tail(todo))
      /\ \A s : IsIn(s, Tail(todo)) => IsIn(s, todo)
  BY <1>2, <1>3, HeadAndTail DEF RunInv, SessionTyped, TodoInv
<1>5. SessionTyped'
  BY <1>1, <1>2, <1>3, <1>4 DEF RunInv, SessionTyped, BrokerIsKept
<1>6. ServedInv' /\ WaitingInv'
  BY <1>1, <1>2, <1>3 DEF RunInv, ServedInv, WaitingInv, Waiting, BrokerIsKept, Entering, Exiting
<1>7. TodoInv'
  BY <1>1, <1>2, <1>3, <1>4 DEF RunInv, TodoInv, Entries, BrokerIsKept, BarsAreKept
<1>8. EntriesInv'
  BY <1>1, <1>2, <1>3 DEF RunInv, EntriesInv, Entries, BrokerIsKept, BarsAreKept
<1>9. HeldInv'
  BY <1>1, <1>2, <1>3 DEF RunInv, HeldInv, Has, Entering, Exiting, BrokerIsKept, vars
<1>10. FirstRunInv'
  BY <1>1, <1>2, <1>3, <1>4 DEF RunInv, FirstRunInv, Entering, BrokerIsKept, vars
<1>11. RaisedInv' /\ DuplicateMeansRestingEntry'
  BY <1>1, <1>2, <1>3, NothingRaised DEF RunInv, RaisedInv, BrokerIsKept, vars
<1>12. QED
  BY <1>5, <1>6, <1>7, <1>8, <1>9, <1>10, <1>11 DEF RunInv

\* The clock moved on.
LEMMA NextStepKeeps ==
  ASSUME SessionInv, NextStep
  PROVE  RunInv'
<1>1. BrokerIsKept
  BY KeptBroker DEF NextStep
<1>2. RunInv /\ BookInv
  BY DEF SessionInv
<1>3. /\ stage = "enter" /\ stage' = "evaluate" /\ todo = <<>> /\ raised = "nothing"
      /\ UNCHANGED <<todo, entries, order, stranded, raised>>
      /\ asOf \in Nat \ {0} /\ asOf' \in Nat \ {0} /\ asOf' > asOf
  BY <1>2, SessionConstants DEF NextStep, RunInv, RaisedInv, SessionTyped
<1>5. SessionTyped'
  BY <1>1, <1>2, <1>3 DEF RunInv, SessionTyped, BrokerIsKept, Stages
<1>6. ServedInv' /\ WaitingInv'
  BY <1>1, <1>2, <1>3 DEF RunInv, ServedInv, WaitingInv, Waiting, BrokerIsKept, Entering, Exiting
<1>7. TodoInv'
  BY <1>1, <1>2, <1>3 DEF RunInv, TodoInv, Entries, BrokerIsKept, BarsAreKept
<1>8. EntriesInv'
  BY <1>1, <1>2, <1>3 DEF RunInv, EntriesInv, Entries, BrokerIsKept, BarsAreKept
<1>9. HeldInv'
  BY <1>1, <1>2, <1>3 DEF RunInv, HeldInv, Has, Entering, Exiting, BrokerIsKept, vars
<1>10. FirstRunInv'
  <2>. SUFFICES ASSUME runs = 1 PROVE FirstRunInv'
    BY <1>1 DEF FirstRunInv, BrokerIsKept
  <2>1. ASSUME NEW s \in Symbols, NEW t \in 1 .. SessionEnd, Known(<<s, t>>)
        PROVE  t <= asOf
    <3>1. t < asOf \/ t = asOf
      BY <1>2, <2>1 DEF RunInv, FirstRunInv
    <3>2. t \in Int /\ asOf \in Int
      BY <1>3, SessionConstants
    <3>3. QED
      BY <3>1, <3>2
  <2>2. \A s \in Symbols, t \in 1 .. SessionEnd : Known(<<s, t>>)' => t < asOf'
    BY <1>1, <1>3, <2>1, SessionConstants DEF BrokerIsKept
  <2>3. \A s \in Symbols :
          left'[s] = 0 /\ (Placed(s)' => entries'[s] = orders'[keys'[<<s, "entry">>]].filled)
    BY <1>1, <1>2, <1>3 DEF RunInv, FirstRunInv, Entering, BrokerIsKept, vars
  <2>4. QED
    BY <2>2, <2>3 DEF FirstRunInv
<1>11. RaisedInv' /\ DuplicateMeansRestingEntry'
  BY <1>1, <1>2, <1>3, NothingRaised DEF RunInv, RaisedInv, BrokerIsKept, vars
<1>12. QED
  BY <1>5, <1>6, <1>7, <1>8, <1>9, <1>10, <1>11 DEF RunInv

\* The entries of the run are to be exited.
LEMMA CloseKeeps ==
  ASSUME SessionInv, Close
  PROVE  RunInv'
<1>1. BrokerIsKept
  BY KeptBroker DEF Close
<1>2. RunInv /\ BookInv
  BY DEF SessionInv
<1>3. /\ stage = "evaluate" /\ stage' = "exit" /\ todo' = order /\ raised = "nothing"
      /\ UNCHANGED <<asOf, entries, order, stranded, raised>>
  BY <1>2 DEF Close, RunInv, RaisedInv
<1>5. SessionTyped'
  BY <1>1, <1>2, <1>3 DEF RunInv, SessionTyped, BrokerIsKept, Stages
<1>6. ServedInv' /\ WaitingInv'
  BY <1>1, <1>2, <1>3 DEF RunInv, ServedInv, WaitingInv, Waiting, BrokerIsKept, Entering, Exiting
<1>7. TodoInv'
  <2>1. \A s \in Symbols : /\ IsIn(s, order) <=> entries[s] > 0
                           /\ Known(<<s, 0>>) => entries[s] = 0
    BY <1>2, <1>3 DEF RunInv, EntriesInv, Entries
  <2>2. Unrepeated(order)
    BY <1>2 DEF RunInv, EntriesInv
  <2>3. QED
    BY <1>1, <1>3, <2>1, <2>2 DEF TodoInv, BrokerIsKept
<1>8. EntriesInv'
  BY <1>1, <1>2, <1>3 DEF RunInv, EntriesInv, Entries, BrokerIsKept, BarsAreKept
<1>9. HeldInv'
  BY <1>1, <1>2, <1>3 DEF RunInv, HeldInv, Has, Entering, Exiting, BrokerIsKept, vars
<1>10. FirstRunInv'
  BY <1>1, <1>2, <1>3 DEF RunInv, FirstRunInv, Entering, BrokerIsKept, vars
<1>11. RaisedInv' /\ DuplicateMeansRestingEntry'
  BY <1>1, <1>2, <1>3, NothingRaised DEF RunInv, RaisedInv, BrokerIsKept, vars
<1>12. QED
  BY <1>5, <1>6, <1>7, <1>8, <1>9, <1>10, <1>11 DEF RunInv

\* They all are.
LEMMA FinishKeeps ==
  ASSUME SessionInv, Finish
  PROVE  RunInv'
<1>1. BrokerIsKept
  BY KeptBroker DEF Finish
<1>2. RunInv /\ BookInv
  BY DEF SessionInv
<1>3. /\ stage = "exit" /\ stage' = "done" /\ todo = <<>> /\ raised = "nothing"
      /\ UNCHANGED <<asOf, todo, entries, order, stranded, raised>>
  BY <1>2 DEF Finish, RunInv, RaisedInv
<1>5. SessionTyped'
  BY <1>1, <1>2, <1>3 DEF RunInv, SessionTyped, BrokerIsKept, Stages
<1>6. ServedInv' /\ WaitingInv'
  BY <1>1, <1>2, <1>3 DEF RunInv, ServedInv, WaitingInv, Waiting, BrokerIsKept, Entering, Exiting
<1>7. TodoInv'
  BY <1>1, <1>2, <1>3 DEF RunInv, TodoInv, Entries, BrokerIsKept
<1>8. EntriesInv'
  BY <1>1, <1>2, <1>3 DEF RunInv, EntriesInv, Entries, BrokerIsKept, BarsAreKept
<1>9. HeldInv'
  BY <1>1, <1>2, <1>3 DEF RunInv, HeldInv, Has, Entering, Exiting, BrokerIsKept, vars
<1>10. FirstRunInv'
  BY <1>1, <1>2, <1>3 DEF RunInv, FirstRunInv, Entering, BrokerIsKept, vars
<1>11. RaisedInv' /\ DuplicateMeansRestingEntry'
  BY <1>1, <1>2, <1>3, NothingRaised DEF RunInv, RaisedInv, BrokerIsKept, vars
<1>12. QED
  BY <1>5, <1>6, <1>7, <1>8, <1>9, <1>10, <1>11 DEF RunInv

\* What the head of the list says of the list.
LEMMA HeadOfTodo ==
  ASSUME SessionTyped, TodoInv, todo # <<>>
  PROVE  /\ Head(todo) \in Symbols /\ IsIn(Head(todo), todo)
         /\ Tail(todo) \in Seq(Symbols) /\ Unrepeated(Tail(todo))
         /\ ~IsIn(Head(todo), Tail(todo))
         /\ \A s : IsIn(s, Tail(todo)) => IsIn(s, todo)
         /\ \A s : IsIn(s, todo) => s = Head(todo) \/ IsIn(s, Tail(todo))
BY HeadAndTail DEF SessionTyped, TodoInv

\* submit has returned from an entry.
LEMMA EnteredKeeps ==
  ASSUME SessionInv, Entered
  PROVE  RunInv'
<1>1. BrokerIsKept
  BY KeptBroker DEF Entered
<1>2. /\ RunInv /\ BookInv /\ TypeOK /\ SessionTyped /\ ServedInv /\ WaitingInv /\ TodoInv
      /\ EntriesInv /\ HeldInv /\ FirstRunInv /\ RaisedInv
  BY DEF SessionInv, RunInv, BookInv, IInv
<1>3. PICK s \in Symbols : s = Head(todo)
  BY <1>2, AwaitedOrder DEF Entered, Waiting
<1>4. PICK filled \in Nat : filled = orders[<<s, asOf>>].filled
  <2>1. asOf \in 1 .. SessionEnd /\ Known(<<s, asOf>>)
    BY <1>2, <1>3, AwaitedOrder DEF Entered, Waiting
  <2>2. orders[<<s, asOf>>] \in OrderType
    BY <1>2, <2>1, Pairs DEF TypeOK, Known, Unknown
  <2>3. QED
    BY <2>2 DEF OrderType
<1>5. /\ stage = "entering" /\ stage' = "enter" /\ todo' = Tail(todo) /\ todo # <<>>
      /\ raised = "nothing" /\ ~Serving /\ UNCHANGED <<asOf, stranded, raised>>
  BY <1>2 DEF Entered, RaisedInv, ServedInv, Waiting
<1>6. /\ keys[<<s, "entry">>] = <<s, asOf>> /\ Placed(s)
      /\ entries[s] = 0 /\ ~Known(<<s, 0>>) /\ left[s] = 0
      /\ asOf \in 1 .. SessionEnd /\ CanExit(s) /\ Entering(s)
  <2>1. /\ Entering(s) /\ asOf \in 1 .. SessionEnd
    BY <1>2, <1>3, <1>5, AwaitedOrder DEF Waiting
  <2>2. /\ keys[<<s, "entry">>] = <<s, asOf>>
        /\ entries[s] = 0 /\ ~Known(<<s, 0>>) /\ left[s] = 0
    BY <1>2, <2>1 DEF WaitingInv
  <2>3. Placed(s)
    BY <2>1, <2>2, Pairs DEF Placed
  <2>4. CanExit(s)
    BY <1>2, <1>3, <1>5, HeadOfTodo DEF TodoInv
  <2>5. QED
    BY <2>1, <2>2, <2>3, <2>4
<1>7. \A r \in Symbols : Entering(r) <=> r = s
  BY <1>3, <1>5 DEF Entering
<1>8. /\ todo' \in Seq(Symbols) /\ Unrepeated(todo') /\ ~IsIn(s, todo')
      /\ \A r : IsIn(r, todo') => IsIn(r, todo)
  BY <1>2, <1>3, <1>5, HeadOfTodo
<1>9. /\ entries' \in [Symbols -> Nat]
      /\ entries'[s] = filled /\ \A r \in Symbols : r # s => entries'[r] = entries[r]
  BY <1>2, <1>3, <1>4, <1>6 DEF Entered, SessionTyped
<1>10. /\ order' \in Seq(Symbols) /\ Unrepeated(order')
       /\ \A r \in Symbols : IsIn(r, order') <=> (IsIn(r, order) \/ (r = s /\ filled > 0))
  <2>1. order \in Seq(Symbols) /\ Unrepeated(order) /\ ~IsIn(s, order)
    BY <1>2, <1>6 DEF SessionTyped, EntriesInv
  <2>2. CASE filled = 0
    <3>1. order' = order
      BY <1>3, <1>4, <2>2 DEF Entered
    <3>2. QED
      BY <2>1, <2>2, <3>1
  <2>3. CASE filled # 0
    <3>1. order' = Append(order, s) /\ filled > 0
      BY <1>3, <1>4, <2>3 DEF Entered
    <3>2. QED
      BY <2>1, <3>1, AppendedNew
  <2>4. QED
    BY <2>2, <2>3
<1>11. SessionTyped'
  BY <1>1, <1>2, <1>5, <1>8, <1>9, <1>10 DEF SessionTyped, BrokerIsKept, Stages
<1>12. ServedInv' /\ WaitingInv'
  BY <1>1, <1>5 DEF ServedInv, WaitingInv, Waiting, BrokerIsKept, Entering, Exiting
<1>13. TodoInv'
  BY <1>1, <1>2, <1>5, <1>8 DEF TodoInv, Entries, BrokerIsKept, BarsAreKept
<1>14. EntriesInv'
  <2>1. ASSUME NEW r \in Symbols
        PROVE  /\ IsIn(r, order') <=> entries'[r] > 0
               /\ entries'[r] > 0 => Placed(r) /\ left[r] = 0 /\ CanExit(r)
               /\ stranded[r] = 0 /\ (Known(<<r, 0>>) => entries'[r] = 0)
               /\ entries'[r] % Lot # 0 /\ Known(<<r, 0>>) => stranded[r] = entries'[r]
    <3>1. CASE r = s
      <4>1. ~IsIn(s, order) /\ stranded[s] = 0
        BY <1>2, <1>5, <1>6 DEF EntriesInv, Entries
      <4>2. QED
        BY <1>6, <1>9, <1>10, <3>1, <4>1
    <3>2. CASE r # s
      BY <1>2, <1>5, <1>9, <1>10, <3>2 DEF EntriesInv, Entries
    <3>3. QED
      BY <3>1, <3>2
  <2>2. QED
    BY <1>1, <1>5, <1>10, <2>1 DEF EntriesInv, BrokerIsKept, BarsAreKept
<1>15. HeldInv'
  <2>1. ASSUME NEW r \in Symbols
        PROVE  Has(r) = IF Known(<<r, 0>>) THEN stranded[r] ELSE entries'[r]
    BY <1>4, <1>5, <1>6, <1>7, <1>9 DEF Has, Exiting
  <2>2. ASSUME NEW r \in Symbols
        PROVE  Has(r)' = IF Known(<<r, 0>>) THEN stranded[r] ELSE entries'[r]
    BY <1>1, <1>5 DEF Has, Entering, Exiting, BrokerIsKept
  <2>3. QED
    BY <1>1, <1>2, <2>1, <2>2 DEF HeldInv, BrokerIsKept, vars
<1>16. FirstRunInv'
  <2>1. ASSUME runs = 1, NEW r \in Symbols
        PROVE  /\ left[r] = 0
               /\ Placed(r) => entries'[r] = orders[keys[<<r, "entry">>]].filled
               /\ \A t \in 1 .. SessionEnd :
                    Known(<<r, t>>) => t < asOf \/ (t = asOf /\ ~IsIn(r, todo'))
    <3>1. left[r] = 0
      BY <1>2, <2>1 DEF FirstRunInv
    <3>2. ASSUME Placed(r)
          PROVE  entries'[r] = orders[keys[<<r, "entry">>]].filled
      BY <1>2, <1>4, <1>6, <1>7, <1>9, <2>1, <3>2 DEF FirstRunInv
    <3>3. ASSUME NEW t \in 1 .. SessionEnd, Known(<<r, t>>)
          PROVE  t < asOf \/ (t = asOf /\ ~IsIn(r, todo'))
      BY <1>2, <1>7, <1>8, <2>1, <3>3 DEF FirstRunInv
    <3>4. QED
      BY <3>1, <3>2, <3>3
  <2>2. QED
    BY <1>1, <1>5, <2>1 DEF FirstRunInv, Entering, BrokerIsKept, vars
<1>17. RaisedInv' /\ DuplicateMeansRestingEntry'
  BY <1>1, <1>2, <1>5, NothingRaised DEF RaisedInv, BrokerIsKept, vars
<1>18. QED
  BY <1>11, <1>12, <1>13, <1>14, <1>15, <1>16, <1>17 DEF RunInv

\* submit has returned from an exit.
LEMMA ExitedKeeps ==
  ASSUME SessionInv, Exited
  PROVE  RunInv'
<1>1. BrokerIsKept
  BY KeptBroker DEF Exited
<1>2. /\ RunInv /\ BookInv /\ TypeOK /\ SessionTyped /\ ServedInv /\ WaitingInv /\ TodoInv
      /\ EntriesInv /\ HeldInv /\ FirstRunInv /\ RaisedInv
  BY DEF SessionInv, RunInv, BookInv, IInv
<1>3. PICK s \in Symbols : s = Head(todo)
  BY <1>2, AwaitedOrder DEF Exited, Waiting
<1>4. /\ stage = "exiting" /\ stage' = "exit" /\ todo' = Tail(todo) /\ todo # <<>>
      /\ raised = "nothing" /\ ~Serving /\ UNCHANGED <<asOf, entries, order, raised>>
  BY <1>2 DEF Exited, RaisedInv, ServedInv, Waiting
<1>5. Exiting(s) /\ Known(<<s, 0>>) /\ entries[s] % Lot = 0
  BY <1>2, <1>3, <1>4 DEF Exiting, WaitingInv
<1>6. \A r \in Symbols : ~Entering(r) /\ (Exiting(r) <=> r = s)
  BY <1>3, <1>4 DEF Exiting, Entering
<1>7. /\ todo' \in Seq(Symbols) /\ Unrepeated(todo') /\ ~IsIn(s, todo')
      /\ \A r : IsIn(r, todo') => IsIn(r, todo)
      /\ \A r : IsIn(r, todo) => r = s \/ IsIn(r, todo')
  BY <1>2, <1>3, <1>4, HeadOfTodo
<1>8. orders[<<s, 0>>].filled \in Nat
  BY <1>2, Pairs DEF TypeOK, OrderType, Unknown
<1>9. /\ stranded' \in [Symbols -> Int]
      /\ stranded'[s] = entries[s] - orders[<<s, 0>>].filled
      /\ \A r \in Symbols : r # s => stranded'[r] = stranded[r]
  BY <1>2, <1>3, <1>8 DEF Exited, SessionTyped
<1>10. SessionTyped'
  BY <1>1, <1>2, <1>4, <1>7, <1>9 DEF SessionTyped, BrokerIsKept, Stages
<1>11. ServedInv' /\ WaitingInv'
  BY <1>1, <1>4 DEF ServedInv, WaitingInv, Waiting, BrokerIsKept, Entering, Exiting
<1>12. TodoInv'
  <2>1. \A r \in Symbols : IsIn(r, todo') => entries[r] > 0 /\ ~Known(<<r, 0>>)
    BY <1>2, <1>4, <1>6, <1>7 DEF TodoInv
  <2>2. \A r \in Symbols : entries[r] > 0 => IsIn(r, todo') \/ Known(<<r, 0>>)
    BY <1>2, <1>4, <1>5, <1>7 DEF TodoInv, Entries
  <2>3. QED
    BY <1>1, <1>4, <1>7, <2>1, <2>2 DEF TodoInv, BrokerIsKept
<1>13. EntriesInv'
  <2>1. \A r \in Symbols :
          entries[r] % Lot # 0 /\ Known(<<r, 0>>) => stranded'[r] = entries[r]
    BY <1>2, <1>5, <1>9 DEF EntriesInv
  <2>2. QED
    BY <1>1, <1>2, <1>4, <2>1 DEF EntriesInv, Entries, BrokerIsKept, BarsAreKept
<1>14. HeldInv'
  <2>1. ASSUME NEW r \in Symbols
        PROVE  Has(r) = IF Known(<<r, 0>>) THEN stranded'[r] ELSE entries[r]
    BY <1>5, <1>6, <1>9 DEF Has
  <2>2. ASSUME NEW r \in Symbols
        PROVE  Has(r)' = IF Known(<<r, 0>>) THEN stranded'[r] ELSE entries[r]
    BY <1>1, <1>4 DEF Has, Entering, Exiting, BrokerIsKept
  <2>3. QED
    BY <1>1, <1>2, <2>1, <2>2 DEF HeldInv, BrokerIsKept, vars
<1>15. FirstRunInv'
  BY <1>1, <1>2, <1>4, <1>6, <1>7 DEF FirstRunInv, Entering, BrokerIsKept, vars
<1>16. RaisedInv' /\ DuplicateMeansRestingEntry'
  BY <1>1, <1>2, <1>4, NothingRaised DEF RaisedInv, BrokerIsKept, vars
<1>17. QED
  BY <1>10, <1>11, <1>12, <1>13, <1>14, <1>15, <1>16 DEF RunInv

(***************************************************************************)
(* Steps of the run that submit an order.                                  *)
(***************************************************************************)
\* The invariant, part by part.
InvParts ==
  /\ IInv /\ TypeOK /\ StateMatchesFilled /\ OrdersInv /\ LegsInv
  /\ SessionTyped /\ ServedInv /\ WaitingInv /\ TodoInv
  /\ EntriesInv /\ HeldInv /\ FirstRunInv /\ RaisedInv /\ DuplicateMeansRestingEntry

\* The parts of the invariant that a step is proved from.
LEMMA HasParts == SessionInv => InvParts
BY DEF SessionInv, RunInv, BookInv, IInv, InvParts

\* An entry about to be submitted: of an instrument this run has nothing of yet.
LEMMA AboutToEnter ==
  ASSUME SessionInv, Enter
  PROVE  /\ stage = "enter" /\ todo # <<>> /\ Head(todo) \in Symbols /\ IsIn(Head(todo), todo)
         /\ asOf \in 1 .. SessionEnd /\ raised = "nothing" /\ ~problems /\ ~Serving
         /\ entries[Head(todo)] = 0 /\ Later(Head(todo), asOf) # {}
         /\ Shares(Head(todo), asOf) > 0
         /\ bars \in Panels /\ CanExit(Head(todo))
         /\ \A r : ~Entering(r) /\ ~Exiting(r)
<1>1. InvParts
  BY HasParts
<1>2. /\ stage = "enter" /\ todo # <<>> /\ entries[Head(todo)] = 0
      /\ Later(Head(todo), asOf) # {} /\ Shares(Head(todo), asOf) > 0
  BY DEF Enter
<1>3. Head(todo) \in Symbols /\ IsIn(Head(todo), todo)
  BY <1>1, <1>2, HeadOfTodo DEF InvParts
<1>4. asOf \in 1 .. SessionEnd /\ CanExit(Head(todo))
  <2>1. asOf \in 1 .. SessionEnd
    BY <1>1, <1>2, SessionConstants DEF InvParts, TodoInv, SessionTyped
  <2>2. CanExit(Head(todo))
    BY <1>1, <1>2, <1>3 DEF InvParts, TodoInv
  <2>3. QED
    BY <2>1, <2>2
<1>5. raised = "nothing" /\ ~problems /\ ~Serving /\ bars \in Panels
  BY <1>1, <1>2 DEF InvParts, RaisedInv, ServedInv, Waiting, SessionTyped
<1>6. QED
  BY <1>2, <1>3, <1>4, <1>5 DEF Entering, Exiting

\* An exit about to be submitted: of an entry of this run, for the first time.
LEMMA AboutToExit ==
  ASSUME SessionInv, Exit
  PROVE  /\ stage = "exit" /\ todo # <<>> /\ Head(todo) \in Symbols /\ IsIn(Head(todo), todo)
         /\ raised = "nothing" /\ ~problems /\ ~Serving
         /\ entries[Head(todo)] \in Nat \ {0} /\ ~Known(<<Head(todo), 0>>)
         /\ keys[<<Head(todo), "exit">>] = NoOrder
         /\ bars \in Panels /\ CanExit(Head(todo)) /\ Placed(Head(todo))
         /\ \A r : ~Entering(r) /\ ~Exiting(r)
<1>1. InvParts
  BY HasParts
<1>2. stage = "exit" /\ todo # <<>>
  BY DEF Exit
<1>3. Head(todo) \in Symbols /\ IsIn(Head(todo), todo)
  BY <1>1, <1>2, HeadOfTodo DEF InvParts
<1>4. \A r : ~Entering(r) /\ ~Exiting(r)
  BY <1>2 DEF Entering, Exiting
<1>5. entries[Head(todo)] \in Nat \ {0} /\ ~Known(<<Head(todo), 0>>)
  BY <1>1, <1>2, <1>3, <1>4 DEF InvParts, TodoInv, SessionTyped
<1>6. CanExit(Head(todo)) /\ Placed(Head(todo))
  BY <1>1, <1>3, <1>5 DEF InvParts, EntriesInv
<1>7. keys[<<Head(todo), "exit">>] = NoOrder
  BY <1>1, <1>3, <1>5 DEF InvParts, LegsInv
<1>8. raised = "nothing" /\ ~problems /\ ~Serving /\ bars \in Panels
  BY <1>1, <1>2 DEF InvParts, RaisedInv, ServedInv, Waiting, SessionTyped
<1>9. QED
  BY <1>2, <1>3, <1>4, <1>5, <1>6, <1>7, <1>8

\* An entry that is refused as a duplicate: either an earlier run submitted one of its
\* instrument, or the one accepted before has filled nothing and rests.
LEMMA DuplicateEntry ==
  ASSUME SessionInv, Enter, Known(<<Head(todo), asOf>>) \/ Placed(Head(todo))
  PROVE  \/ runs > 1 /\ \E t \in 1 .. SessionEnd : Known(<<Head(todo), t>>)
         \/ \E t \in 1 .. asOf - 1 :
              /\ orders[<<Head(todo), t>>].state = "OPEN" /\ held[Head(todo)] = 0
              /\ keys[<<Head(todo), "entry">>] = <<Head(todo), t>>
<1>1. InvParts
  BY HasParts
<1>2. PICK s \in Symbols : s = Head(todo)
  BY AboutToEnter
<1>3. /\ stage = "enter" /\ asOf \in 1 .. SessionEnd /\ entries[s] = 0 /\ IsIn(s, todo)
      /\ ~Entering(s) /\ ~Exiting(s)
  BY <1>2, AboutToEnter
<1>4. ASSUME Placed(s)
      PROVE  \E t \in 1 .. SessionEnd : /\ keys[<<s, "entry">>] = <<s, t>>
                                        /\ Known(<<s, t>>) /\ orders[<<s, t>>].state # "REJECTED"
  BY <1>1, <1>4 DEF InvParts, LegsInv
<1>5. CASE runs # 1
  <2>1. runs > 1
    BY <1>1, <1>5 DEF InvParts, SessionTyped
  <2>2. \E t \in 1 .. SessionEnd : Known(<<s, t>>)
    BY <1>2, <1>3, <1>4
  <2>3. QED
    BY <1>2, <2>1, <2>2
<1>6. CASE runs = 1
  <2>1. \A t \in 1 .. SessionEnd : Known(<<s, t>>) => t < asOf
    BY <1>1, <1>3, <1>6 DEF InvParts, FirstRunInv
  <2>2. Placed(s)
    BY <1>2, <1>3, <2>1
  <2>3. PICK t \in 1 .. SessionEnd : /\ keys[<<s, "entry">>] = <<s, t>>
                                     /\ Known(<<s, t>>) /\ orders[<<s, t>>].state # "REJECTED"
    BY <1>4, <2>2
  <2>4. t \in 1 .. asOf - 1
    BY <1>3, <2>1, <2>3, SessionConstants
  <2>5. orders[<<s, t>>].filled = 0 /\ left[s] = 0
    BY <1>1, <1>3, <1>6, <2>2, <2>3 DEF InvParts, FirstRunInv
  <2>6. orders[<<s, t>>] \in OrderType /\ orders[<<s, t>>].state # "CANCELLED"
    <3>1. orders[<<s, t>>] \in OrderType
      BY <1>1, <2>3, Pairs DEF InvParts, TypeOK, Known, Unknown
    <3>2. IsEntry(s, t)
      BY <1>1, <2>3 DEF InvParts, OrdersInv
    <3>3. QED
      BY <3>1, <3>2 DEF IsEntry
  <2>7. orders[<<s, t>>].quantity \in Nat \ {0} /\ orders[<<s, t>>].state \in States
    BY <2>6 DEF OrderType
  <2>8. /\ orders[<<s, t>>].state # "PARTIALLY_FILLED"
        /\ orders[<<s, t>>].state # "FILLED"
    BY <1>1, <2>5, <2>7, Pairs DEF InvParts, StateMatchesFilled
  <2>9. orders[<<s, t>>].state = "OPEN"
    BY <2>3, <2>6, <2>7, <2>8 DEF States, Known
  <2>10. Has(s) = 0
    BY <1>1, <1>3 DEF InvParts, Has, EntriesInv, Entries
  <2>11. held[s] = 0
    BY <1>1, <2>5, <2>10 DEF InvParts, HeldInv
  <2>12. QED
    BY <1>2, <2>3, <2>4, <2>9, <2>11
<1>7. QED
  BY <1>5, <1>6

\* submit raised on an entry.
LEMMA EntryRaisedKeeps ==
  ASSUME SessionInv, Enter, Raise(<<Head(todo), asOf>>, EntryOrder(Head(todo), asOf))
  PROVE  BookInv' /\ RunInv'
<1>1. BrokerIsKept
  BY KeptBroker DEF Raise
<1>2. InvParts
  BY HasParts
<1>3. /\ stage = "enter" /\ todo # <<>> /\ asOf \in 1 .. SessionEnd /\ raised = "nothing"
      /\ ~problems /\ ~Serving /\ \A r : ~Entering(r) /\ ~Exiting(r)
  BY AboutToEnter
<1>4. stage' = "entry_raised" /\ UNCHANGED <<asOf, todo, entries, order, stranded>>
  BY DEF Raise, EntryOrder, NewOrder
<1>5. BookInv'
  BY <1>1, BookKept DEF SessionInv, BrokerIsKept
<1>6. SessionTyped'
  BY <1>1, <1>2, <1>4 DEF InvParts, SessionTyped, BrokerIsKept, Stages
<1>7. ServedInv' /\ WaitingInv'
  BY <1>1, <1>3, <1>4 DEF ServedInv, WaitingInv, Waiting, BrokerIsKept, Entering, Exiting
<1>8. TodoInv'
  BY <1>1, <1>2, <1>3, <1>4 DEF InvParts, TodoInv, Entries, BrokerIsKept, BarsAreKept
<1>9. EntriesInv'
  BY <1>1, <1>2, <1>3, <1>4 DEF InvParts, EntriesInv, Entries, BrokerIsKept, BarsAreKept
<1>10. HeldInv'
  BY <1>1, <1>2, <1>3, <1>4 DEF InvParts, HeldInv, Has, Entering, Exiting, BrokerIsKept, vars
<1>11. FirstRunInv'
  BY <1>1, <1>2, <1>3, <1>4 DEF InvParts, FirstRunInv, Entering, BrokerIsKept, vars
<1>12. RaisedInv'
  BY <1>1, <1>3, <1>4 DEF RaisedInv, BrokerIsKept, vars
<1>13. DuplicateMeansRestingEntry'
  <2>1. SUFFICES ASSUME raised' = "duplicate"
                 PROVE  DuplicateMeansRestingEntry'
    BY DEF DuplicateMeansRestingEntry
  <2>2. Known(<<Head(todo), asOf>>) \/ Placed(Head(todo))
    BY <1>3, <2>1 DEF Raise, Refused, EntryOrder, NewOrder, Placed
  <2>3. \/ runs > 1 /\ \E t \in 1 .. SessionEnd : Known(<<Head(todo), t>>)
        \/ \E t \in 1 .. asOf - 1 :
             /\ orders[<<Head(todo), t>>].state = "OPEN" /\ held[Head(todo)] = 0
             /\ keys[<<Head(todo), "entry">>] = <<Head(todo), t>>
    BY <2>2, DuplicateEntry
  <2>4. QED
    BY <1>1, <1>4, <2>3 DEF DuplicateMeansRestingEntry, BrokerIsKept, vars
<1>14. QED
  BY <1>5, <1>6, <1>7, <1>8, <1>9, <1>10, <1>11, <1>12, <1>13 DEF RunInv

\* submit raised on an exit: the switch did it.
LEMMA ExitRaisedKeeps ==
  ASSUME SessionInv, Exit, Raise(<<Head(todo), 0>>, ExitOrder(Head(todo)))
  PROVE  BookInv' /\ RunInv'
<1>1. BrokerIsKept
  BY KeptBroker DEF Raise
<1>2. InvParts
  BY HasParts
<1>3. /\ stage = "exit" /\ todo # <<>> /\ raised = "nothing" /\ ~problems /\ ~Serving
      /\ ~Known(<<Head(todo), 0>>) /\ keys[<<Head(todo), "exit">>] = NoOrder
      /\ \A r : ~Entering(r) /\ ~Exiting(r)
  BY AboutToExit
<1>4. stage' = "exit_raised" /\ UNCHANGED <<asOf, todo, entries, order, stranded>>
  BY DEF Raise, ExitOrder, NewOrder
<1>5. raised' = "kill_switch"
  BY <1>3 DEF Raise, Refused, ExitOrder, NewOrder
<1>6. BookInv'
  BY <1>1, BookKept DEF SessionInv, BrokerIsKept
<1>7. SessionTyped'
  BY <1>1, <1>2, <1>4 DEF InvParts, SessionTyped, BrokerIsKept, Stages
<1>8. ServedInv' /\ WaitingInv'
  BY <1>1, <1>3, <1>4 DEF ServedInv, WaitingInv, Waiting, BrokerIsKept, Entering, Exiting
<1>9. TodoInv'
  <2>1. \A r \in Symbols : IsIn(r, todo) => entries[r] > 0 /\ ~Known(<<r, 0>>)
    BY <1>2, <1>3 DEF InvParts, TodoInv
  <2>2. QED
    BY <1>1, <1>2, <1>3, <1>4, <2>1 DEF InvParts, TodoInv, Entries, BrokerIsKept
<1>10. EntriesInv'
  BY <1>1, <1>2, <1>3, <1>4 DEF InvParts, EntriesInv, Entries, BrokerIsKept, BarsAreKept
<1>11. HeldInv'
  BY <1>1, <1>2, <1>3, <1>4 DEF InvParts, HeldInv, Has, Entering, Exiting, BrokerIsKept, vars
<1>12. FirstRunInv'
  BY <1>1, <1>2, <1>3, <1>4 DEF InvParts, FirstRunInv, Entering, BrokerIsKept, vars
<1>13. RaisedInv' /\ DuplicateMeansRestingEntry'
  BY <1>1, <1>3, <1>4, <1>5 DEF RaisedInv, DuplicateMeansRestingEntry, BrokerIsKept, vars
<1>14. QED
  BY <1>6, <1>7, <1>8, <1>9, <1>10, <1>11, <1>12, <1>13 DEF RunInv

\* An entry of the run as the broker is given it, and an exit.
LEMMA EntryIsLeg ==
  ASSUME SessionInv, Enter
  PROVE  LET s == Head(todo)
         IN /\ IsLeg(EntryOrder(s, asOf), s, asOf)
            /\ EntryOrder(s, asOf).quantity = Shares(s, asOf)
            /\ EntryOrder(s, asOf).key = <<s, "entry">>
            /\ QuoteFrom(s, NextBar(s, asOf)) \in QuoteType
            /\ QuoteFrom(s, NextBar(s, asOf)) # NoQuote
            /\ QuoteFrom(s, NextBar(s, asOf)).ask = bars[s][NextBar(s, asOf)].open
<1>1. PICK s \in Symbols : s = Head(todo)
  BY AboutToEnter
<1>2. /\ asOf \in 1 .. SessionEnd /\ bars \in Panels /\ Later(s, asOf) # {}
      /\ Shares(s, asOf) > 0
  BY <1>1, AboutToEnter
<1>3. asOf # 0
  BY <1>2, SessionConstants
<1>4. /\ EntryOrder(s, asOf) \in FreshOrders
      /\ EntryOrder(s, asOf).symbol = s /\ EntryOrder(s, asOf).side = "BUY"
      /\ EntryOrder(s, asOf).key = <<s, "entry">>
      /\ EntryOrder(s, asOf).quantity = Shares(s, asOf)
      /\ NextBar(s, asOf) \in 1 .. LastTime /\ HasBar(s, NextBar(s, asOf))
  BY <1>2, EntryOrderFresh
<1>5. /\ QuoteFrom(s, NextBar(s, asOf)) \in QuoteType
      /\ QuoteFrom(s, NextBar(s, asOf)) # NoQuote
      /\ QuoteFrom(s, NextBar(s, asOf)).ask = bars[s][NextBar(s, asOf)].open
  BY <1>2, <1>4, QuoteFromTyped
<1>6. QED
  BY <1>1, <1>3, <1>4, <1>5 DEF IsLeg

\* An exit sells what was entered, and the last bar gives it a quote.
LEMMA ExitIsLeg ==
  ASSUME SessionInv, Exit
  PROVE  LET s == Head(todo)
         IN /\ IsLeg(ExitOrder(s), s, 0)
            /\ ExitOrder(s).quantity = entries[s]
            /\ ExitOrder(s).key = <<s, "exit">>
            /\ QuoteFrom(s, LastBar(s)) \in QuoteType
            /\ QuoteFrom(s, LastBar(s)) # NoQuote
<1>1. PICK s \in Symbols : s = Head(todo)
  BY AboutToExit
<1>2. entries[s] \in Nat \ {0} /\ bars \in Panels
  BY <1>1, AboutToExit
<1>3. PICK u \in 1 .. SessionEnd : HasBar(s, u)
  BY <1>1, AboutToExit DEF CanExit
<1>4. /\ ExitOrder(s) \in FreshOrders
      /\ ExitOrder(s).symbol = s /\ ExitOrder(s).side = "SELL"
      /\ ExitOrder(s).key = <<s, "exit">> /\ ExitOrder(s).quantity = entries[s]
      /\ LastBar(s) \in 1 .. LastTime /\ HasBar(s, LastBar(s))
  BY <1>2, <1>3, ExitOrderFresh
<1>5. QuoteFrom(s, LastBar(s)) \in QuoteType /\ QuoteFrom(s, LastBar(s)) # NoQuote
  BY <1>2, <1>4, QuoteFromTyped
<1>6. QED
  BY <1>1, <1>4, <1>5 DEF IsLeg

\* With no quote nothing is served, before a step and after it.
NoneServed ==
  quote = NoQuote /\ orders \in [OrderIds -> OrderType \cup {Unknown}] /\ queue \in Seq(OrderIds)
    => ~Serving

\* Without a quote no order is being served.
LEMMA NoneIsServed == NoneServed
BY NotServing DEF NoneServed

\* Nor is one after a step that leaves no quote.
LEMMA NoneServedAfter ==
  ASSUME BookInv', quote' = NoQuote
  PROVE  ~Serving'
<1>1. NoneServed'
  BY NoneIsServed, PTL
<1>2. QED
  BY <1>1 DEF NoneServed, BookInv, IInv, TypeOK

\* The broker refused an entry.
LEMMA EntryRejectedKeeps ==
  ASSUME SessionInv, Enter, Reject(<<Head(todo), asOf>>, EntryOrder(Head(todo), asOf)),
         todo' = Tail(todo), UNCHANGED <<given, stage, asOf, entries, order, stranded, raised>>
  PROVE  BookInv' /\ RunInv'
<1>1. InvParts /\ BookInv
  BY HasParts DEF SessionInv
<1>2. PICK s \in Symbols : s = Head(todo)
  BY AboutToEnter
<1>3. PICK o : o = EntryOrder(s, asOf)
  OBVIOUS
<1>4. /\ stage = "enter" /\ todo # <<>> /\ asOf \in 1 .. SessionEnd /\ asOf \in 0 .. SessionEnd
      /\ asOf # 0 /\ raised = "nothing" /\ ~problems /\ Later(s, asOf) # {}
      /\ \A r : ~Entering(r) /\ ~Exiting(r)
  BY <1>2, AboutToEnter, Pairs
<1>5. /\ IsLeg(o, s, asOf) /\ o.quantity = Shares(s, asOf) /\ o.key = <<s, "entry">>
  BY <1>2, <1>3, EntryIsLeg
<1>6. UNCHANGED <<bars, runs, left>> /\ BarsAreKept
  BY KeptBars DEF given
<1>7. BookInv'
  BY <1>1, <1>2, <1>3, <1>4, <1>5, <1>6, BookPlaced
<1>8. IsPlaced(s, asOf, o, "REJECTED")
  BY <1>2, <1>3, <1>4, <1>5, LegIsPlaced
<1>9. AsPlaced(s, asOf, o, "REJECTED") /\ UNCHANGED <<keys, held, problems>> /\ ~Known(<<s, asOf>>)
  BY <1>1, <1>4, <1>5, <1>8, PlacedLeg DEF InvParts, IsPlaced
<1>10. ~Serving'
  BY <1>7, NoneServedAfter DEF Reject
<1>11. /\ \A r \in Symbols : Known(<<r, 0>>)' = Known(<<r, 0>>)
       /\ \A r \in Symbols, t \in 1 .. SessionEnd :
            <<r, t>> # <<s, asOf>> => Known(<<r, t>>)' = Known(<<r, t>>)
                                      /\ orders'[<<r, t>>] = orders[<<r, t>>]
       /\ \A r : Placed(r)' = Placed(r)
  BY <1>4, <1>9, Pairs DEF AsPlaced, Placed
<1>12. /\ todo' \in Seq(Symbols) /\ Unrepeated(todo') /\ ~IsIn(s, todo')
       /\ \A r : IsIn(r, todo') => IsIn(r, todo)
  BY <1>1, <1>2, <1>4, HeadOfTodo DEF InvParts
<1>13. SessionTyped'
  BY <1>1, <1>6, <1>12 DEF InvParts, SessionTyped
<1>14. ServedInv' /\ WaitingInv'
  BY <1>4, <1>10 DEF ServedInv, WaitingInv, Waiting, Entering, Exiting
<1>15. TodoInv'
  BY <1>1, <1>4, <1>6, <1>12 DEF InvParts, TodoInv, Entries, BarsAreKept
<1>16. EntriesInv'
  BY <1>1, <1>4, <1>6, <1>11 DEF InvParts, EntriesInv, Entries, BarsAreKept
<1>17. HeldInv'
  BY <1>1, <1>4, <1>6, <1>9, <1>11 DEF InvParts, HeldInv, Has, Entering, Exiting
<1>18. FirstRunInv'
  <2>1. ASSUME runs = 1, NEW r \in Symbols
        PROVE  /\ left[r] = 0
               /\ Placed(r) => entries[r] = orders'[keys[<<r, "entry">>]].filled
               /\ \A t \in 1 .. SessionEnd :
                    Known(<<r, t>>)' => t < asOf \/ (t = asOf /\ ~IsIn(r, todo'))
    <3>1. left[r] = 0
      BY <1>1, <2>1 DEF InvParts, FirstRunInv
    <3>2. ASSUME Placed(r)
          PROVE  entries[r] = orders'[keys[<<r, "entry">>]].filled
      <4>1. PICK t \in 1 .. SessionEnd : keys[<<r, "entry">>] = <<r, t>> /\ Known(<<r, t>>)
        BY <1>1, <3>2 DEF InvParts, LegsInv
      <4>2. orders'[<<r, t>>] = orders[<<r, t>>]
        BY <1>9, <1>11, <4>1
      <4>3. QED
        BY <1>1, <1>4, <2>1, <3>2, <4>1, <4>2 DEF InvParts, FirstRunInv
    <3>3. ASSUME NEW t \in 1 .. SessionEnd, Known(<<r, t>>)'
          PROVE  t < asOf \/ (t = asOf /\ ~IsIn(r, todo'))
      <4>1. CASE <<r, t>> = <<s, asOf>>
        <5>1. r = s /\ t = asOf
          BY <4>1
        <5>2. QED
          BY <1>12, <5>1
      <4>2. CASE <<r, t>> # <<s, asOf>>
        BY <1>1, <1>4, <1>11, <1>12, <2>1, <3>3, <4>2 DEF InvParts, FirstRunInv
      <4>3. QED
        BY <4>1, <4>2
    <3>4. QED
      BY <3>1, <3>2, <3>3
  <2>2. QED
    BY <1>4, <1>6, <1>9, <1>11, <2>1 DEF FirstRunInv, Entering
<1>19. RaisedInv' /\ DuplicateMeansRestingEntry'
  BY <1>4, <1>9, NothingRaised DEF RaisedInv
<1>20. QED
  BY <1>7, <1>13, <1>14, <1>15, <1>16, <1>17, <1>18, <1>19 DEF RunInv

\* The broker took an entry, and serves it the quote that came with it.
LEMMA EntryAcceptedKeeps ==
  ASSUME SessionInv, Enter,
         Accept(<<Head(todo), asOf>>, EntryOrder(Head(todo), asOf),
                QuoteFrom(Head(todo), NextBar(Head(todo), asOf))),
         stage' = "entering", UNCHANGED <<given, asOf, todo, entries, order, stranded, raised>>
  PROVE  BookInv' /\ RunInv'
<1>1. InvParts /\ BookInv
  BY HasParts DEF SessionInv
<1>2. PICK s \in Symbols : s = Head(todo)
  BY AboutToEnter
<1>3. PICK o, q : o = EntryOrder(s, asOf) /\ q = QuoteFrom(s, NextBar(s, asOf))
  OBVIOUS
<1>4. /\ stage = "enter" /\ todo # <<>> /\ asOf \in 1 .. SessionEnd /\ asOf \in 0 .. SessionEnd
      /\ asOf # 0 /\ raised = "nothing" /\ ~problems /\ Later(s, asOf) # {}
      /\ entries[s] = 0 /\ \A r : ~Entering(r) /\ ~Exiting(r)
  BY <1>2, AboutToEnter, Pairs
<1>5. /\ IsLeg(o, s, asOf) /\ o.quantity = Shares(s, asOf) /\ o.key = <<s, "entry">>
      /\ q \in QuoteType /\ q # NoQuote /\ q.ask = bars[s][NextBar(s, asOf)].open
  BY <1>2, <1>3, EntryIsLeg
<1>6. UNCHANGED <<bars, runs, left>> /\ BarsAreKept
  BY KeptBars DEF given
<1>7. Accept(<<s, asOf>>, o, q)
  BY <1>2, <1>3
<1>8. BookInv'
  BY <1>1, <1>4, <1>5, <1>6, <1>7, BookPlaced
<1>9. IsPlaced(s, asOf, o, "OPEN")
  BY <1>4, <1>5, <1>7, LegIsPlaced
<1>10. /\ AsPlaced(s, asOf, o, "OPEN") /\ UNCHANGED <<held, problems>>
       /\ ~Known(<<s, asOf>>) /\ ~Placed(s) /\ queue' = Append(queue, <<s, asOf>>)
  BY <1>1, <1>4, <1>5, <1>9, PlacedLeg DEF InvParts, IsPlaced, Placed
<1>11. /\ \A r \in Symbols : Known(<<r, 0>>)' = Known(<<r, 0>>)
       /\ \A r \in Symbols, t \in 1 .. SessionEnd :
            <<r, t>> # <<s, asOf>> => Known(<<r, t>>)' = Known(<<r, t>>)
                                      /\ orders'[<<r, t>>] = orders[<<r, t>>]
       /\ \A r \in Symbols : r # s => keys'[<<r, "entry">>] = keys[<<r, "entry">>]
                                      /\ Placed(r)' = Placed(r)
       /\ keys'[<<s, "entry">>] = <<s, asOf>> /\ Placed(s)'
  <2>1. \A r \in Symbols : Known(<<r, 0>>)' = Known(<<r, 0>>)
    BY <1>4, <1>10, Pairs DEF AsPlaced
  <2>2. \A r \in Symbols : r # s => keys'[<<r, "entry">>] = keys[<<r, "entry">>]
    <3>1. ASSUME NEW r \in Symbols, r # s
          PROVE  <<r, "entry">> # o.key
      BY <1>5, <3>1
    <3>2. \A r \in Symbols : <<r, "entry">> \in Keys
      BY Pairs
    <3>3. QED
      BY <1>10, <3>1, <3>2 DEF AsPlaced
  <2>3. keys'[<<s, "entry">>] = <<s, asOf>>
    BY <1>5, <1>10, Pairs DEF AsPlaced
  <2>4. \A r \in Symbols : r # s => Placed(r)' = Placed(r)
    BY <2>2 DEF Placed
  <2>5. Placed(s)'
    BY <1>4, <2>3, Pairs DEF Placed
  <2>6. QED
    BY <1>10, <2>1, <2>2, <2>3, <2>4, <2>5, Pairs DEF AsPlaced
<1>12. quote'.at = Len(queue) /\ quote'.ask = bars[s][NextBar(s, asOf)].open
  BY <1>5, <1>7 DEF Accept, Opened
<1>13. Known(<<s, asOf>>)' /\ orders'[<<s, asOf>>].state = "OPEN" /\ orders'[<<s, asOf>>].filled = 0
  BY <1>10 DEF AsPlaced
<1>14. ~Known(<<s, 0>>)
  BY <1>1, <1>10 DEF InvParts, OrdersInv, IsExit
<1>15. Has(s) = 0 /\ left[s] = 0
  <2>1. Has(s) = 0
    BY <1>4, <1>14 DEF Has
  <2>2. held[s] = 0 /\ held[s] = left[s] + Has(s) /\ left[s] \in Int
    BY <1>1, <1>10 DEF InvParts, HeldInv, SessionTyped
  <2>3. QED
    BY <2>1, <2>2
<1>16. \A r \in Symbols : Entering(r)' <=> r = s
  BY <1>2 DEF Entering
<1>17. SessionTyped'
  BY <1>1, <1>6 DEF InvParts, SessionTyped, Stages
<1>18. ServedInv'
  <2>1. queue \in Seq(OrderIds) /\ <<s, asOf>> \in OrderIds
    BY <1>1, <1>4, Pairs DEF InvParts, TypeOK
  <2>2. /\ queue' # <<>> /\ Len(queue') = Len(queue) + 1 /\ Len(queue) \in Nat
        /\ queue'[Len(queue')] = <<s, asOf>>
    BY <1>10, <2>1
  <2>3. Awaited' = <<s, asOf>>
    BY <1>2 DEF Awaited
  <2>4. quote'.at >= Len(queue') - 1
    BY <1>12, <2>2
  <2>5. stage' \in Waiting /\ todo' # <<>>
    BY <1>4 DEF Waiting
  <2>6. Known(Awaited)' /\ orders'[Awaited'].state # "REJECTED"
    BY <1>13, <2>3 DEF Known
  <2>7. QED
    BY <2>2, <2>3, <2>4, <2>5, <2>6 DEF ServedInv
<1>19. WaitingInv'
  <2>1. ASSUME NEW r \in Symbols, Entering(r)'
        PROVE  /\ quote'.ask = bars'[r][NextBar(r, asOf)'].open
               /\ keys'[<<r, "entry">>] = <<r, asOf'>>
               /\ entries'[r] = 0 /\ ~Known(<<r, 0>>)' /\ left'[r] = 0
    <3>1. r = s
      BY <1>16, <2>1
    <3>2. NextBar(s, asOf)' = NextBar(s, asOf)
      BY <1>6 DEF NextBar, Later, HasBar
    <3>3. QED
      BY <1>4, <1>6, <1>11, <1>12, <1>14, <1>15, <3>1, <3>2
  <2>2. \A r : ~Exiting(r)'
    BY DEF Exiting
  <2>3. QED
    BY <2>1, <2>2 DEF WaitingInv
<1>20. TodoInv'
  BY <1>1, <1>4, <1>6 DEF InvParts, TodoInv, Entries, BarsAreKept
<1>0. EntriesInv'
  BY <1>1, <1>4, <1>6, <1>11 DEF InvParts, EntriesInv, Entries, BarsAreKept
<1>22. HeldInv'
  <2>1. ASSUME NEW r \in Symbols
        PROVE  Has(r)' = Has(r)
    <3>1. CASE r = s
      <4>1. Has(s)' = 0
        BY <1>2, <1>13 DEF Has, Entering
      <4>2. QED
        BY <1>15, <3>1, <4>1
    <3>2. CASE r # s
      <4>1. ~Entering(r)' /\ ~Exiting(r)'
        BY <1>16, <3>2 DEF Exiting
      <4>2. QED
        BY <1>4, <1>11, <4>1 DEF Has
    <3>3. QED
      BY <3>1, <3>2
  <2>2. \A r \in Symbols : ~Placed(r)' => ~Placed(r)
    BY <1>11
  <2>3. QED
    BY <1>1, <1>6, <1>10, <2>1, <2>2 DEF InvParts, HeldInv
<1>23. FirstRunInv'
  <2>1. ASSUME runs = 1, NEW r \in Symbols
        PROVE  /\ left[r] = 0
               /\ Placed(r)' /\ r # s => entries[r] = orders'[keys'[<<r, "entry">>]].filled
               /\ \A t \in 1 .. SessionEnd :
                    Known(<<r, t>>)' => t < asOf \/ (t = asOf /\ (IsIn(r, todo) => r = s))
    <3>1. left[r] = 0
      BY <1>1, <2>1 DEF InvParts, FirstRunInv
    <3>2. ASSUME Placed(r)', r # s
          PROVE  entries[r] = orders'[keys'[<<r, "entry">>]].filled
      <4>1. Placed(r) /\ keys'[<<r, "entry">>] = keys[<<r, "entry">>]
        BY <1>11, <3>2
      <4>2. PICK t \in 1 .. SessionEnd : keys[<<r, "entry">>] = <<r, t>>
        BY <1>1, <4>1 DEF InvParts, LegsInv
      <4>3. orders'[<<r, t>>] = orders[<<r, t>>]
        BY <1>11, <3>2
      <4>4. QED
        BY <1>1, <1>4, <2>1, <4>1, <4>2, <4>3 DEF InvParts, FirstRunInv
    <3>3. ASSUME NEW t \in 1 .. SessionEnd, Known(<<r, t>>)'
          PROVE  t < asOf \/ (t = asOf /\ (IsIn(r, todo) => r = s))
      <4>1. CASE <<r, t>> = <<s, asOf>>
        <5>1. r = s /\ t = asOf
          BY <4>1
        <5>2. QED
          BY <5>1
      <4>2. CASE <<r, t>> # <<s, asOf>>
        <5>1. Known(<<r, t>>)
          BY <1>11, <3>3, <4>2
        <5>2. \A u \in 1 .. SessionEnd :
                Known(<<r, u>>) => u < asOf \/ (u = asOf /\ (IsIn(r, todo) => Entering(r)))
          BY <1>1, <2>1 DEF InvParts, FirstRunInv
        <5>3. ~Entering(r)
          BY <1>4
        <5>4. QED
          BY ONLY <3>3, <5>1, <5>2, <5>3
      <4>3. QED
        BY <4>1, <4>2
    <3>4. QED
      BY <3>1, <3>2, <3>3
  <2>2. QED
    BY <1>6, <1>16, <2>1 DEF FirstRunInv
<1>24. RaisedInv' /\ DuplicateMeansRestingEntry'
  BY <1>4, <1>10, NothingRaised DEF RaisedInv
<1>25. QED
  BY <1>8, <1>17, <1>18, <1>19, <1>20, <1>0, <1>22, <1>23, <1>24 DEF RunInv

\* What an exit that was submitted changes of the orders and keys, whatever the answer:
\* nothing of any entry.
AsExit(s, st) ==
  /\ \A r \in Symbols, t \in 1 .. SessionEnd :
       Known(<<r, t>>)' = Known(<<r, t>>) /\ orders'[<<r, t>>] = orders[<<r, t>>]
  /\ \A r \in Symbols : r # s => Known(<<r, 0>>)' = Known(<<r, 0>>)
                                 /\ orders'[<<r, 0>>] = orders[<<r, 0>>]
  /\ \A r \in Symbols : keys'[<<r, "entry">>] = keys[<<r, "entry">>] /\ Placed(r)' = Placed(r)
  /\ Known(<<s, 0>>)' /\ orders'[<<s, 0>>].state = st /\ orders'[<<s, 0>>].filled = 0

\* The broker's answer to an exit is such a change.
LEMMA ExitPlaced ==
  ASSUME SessionInv, Exit, NEW s \in Symbols, s = Head(todo), NEW st \in {"OPEN", "REJECTED"},
         IsPlaced(s, 0, ExitOrder(s), st)
  PROVE  AsExit(s, st)
<1>1. InvParts
  BY HasParts
<1>2. IsLeg(ExitOrder(s), s, 0) /\ ExitOrder(s).key = <<s, "exit">>
  BY ExitIsLeg
<1>3. AsPlaced(s, 0, ExitOrder(s), st)
  BY <1>1, <1>2, Pairs, PlacedLeg DEF InvParts
<1>4. /\ \A r \in Symbols, t \in 1 .. SessionEnd :
           Known(<<r, t>>)' = Known(<<r, t>>) /\ orders'[<<r, t>>] = orders[<<r, t>>]
      /\ \A r \in Symbols : r # s => Known(<<r, 0>>)' = Known(<<r, 0>>)
                                     /\ orders'[<<r, 0>>] = orders[<<r, 0>>]
  BY <1>3, Pairs DEF AsPlaced
<1>5. \A r \in Symbols : keys'[<<r, "entry">>] = keys[<<r, "entry">>]
  <2>1. \A r \in Symbols : <<r, "entry">> \in Keys /\ <<r, "entry">> # <<s, "exit">>
    BY Pairs
  <2>2. QED
    BY <1>2, <1>3, <2>1 DEF AsPlaced
<1>6. \A r \in Symbols : Placed(r)' = Placed(r)
  BY <1>5 DEF Placed
<1>7. Known(<<s, 0>>)' /\ orders'[<<s, 0>>].state = st /\ orders'[<<s, 0>>].filled = 0
  BY <1>3 DEF AsPlaced
<1>8. QED
  BY <1>4, <1>5, <1>6, <1>7 DEF AsExit

\* So what the first run has of its entries stays as it is.
LEMMA ExitKeepsFirstRun ==
  ASSUME SessionInv, Exit, NEW s \in Symbols, NEW st, AsExit(s, st),
         stage' \in {"exit", "exiting"}, UNCHANGED <<asOf, entries, runs, left>>,
         \A r : IsIn(r, todo') => IsIn(r, todo)
  PROVE  FirstRunInv'
<1>1. InvParts
  BY HasParts
<1>2. stage = "exit" /\ \A r : ~Entering(r)
  BY AboutToExit
<1>3. /\ \A r \in Symbols, t \in 1 .. SessionEnd :
           Known(<<r, t>>)' = Known(<<r, t>>) /\ orders'[<<r, t>>] = orders[<<r, t>>]
      /\ \A r \in Symbols : keys'[<<r, "entry">>] = keys[<<r, "entry">>] /\ Placed(r)' = Placed(r)
  BY DEF AsExit
<1>4. ASSUME runs = 1, NEW r \in Symbols
      PROVE  /\ left[r] = 0
             /\ Placed(r) => entries[r] = orders'[keys'[<<r, "entry">>]].filled
             /\ \A t \in 1 .. SessionEnd :
                  Known(<<r, t>>)' => t < asOf \/ (t = asOf /\ ~IsIn(r, todo'))
  <2>1. left[r] = 0
    BY <1>1, <1>4 DEF InvParts, FirstRunInv
  <2>2. ASSUME Placed(r)
        PROVE  entries[r] = orders'[keys'[<<r, "entry">>]].filled
    <3>1. PICK t \in 1 .. SessionEnd : keys[<<r, "entry">>] = <<r, t>>
      BY <1>1, <2>2 DEF InvParts, LegsInv
    <3>2. orders'[<<r, t>>] = orders[<<r, t>>] /\ keys'[<<r, "entry">>] = <<r, t>>
      BY <1>3, <3>1
    <3>3. QED
      BY <1>1, <1>2, <1>4, <2>2, <3>1, <3>2 DEF InvParts, FirstRunInv
  <2>3. ASSUME NEW t \in 1 .. SessionEnd, Known(<<r, t>>)'
        PROVE  t < asOf \/ (t = asOf /\ ~IsIn(r, todo'))
    BY <1>1, <1>2, <1>3, <1>4, <2>3 DEF InvParts, FirstRunInv
  <2>4. QED
    BY <2>1, <2>2, <2>3
<1>5. QED
  BY <1>3, <1>4 DEF FirstRunInv

\* The broker refused an exit.
LEMMA ExitRejectedKeeps ==
  ASSUME SessionInv, Exit, Reject(<<Head(todo), 0>>, ExitOrder(Head(todo))),
         stranded' = [stranded EXCEPT ![Head(todo)] = entries[Head(todo)]],
         todo' = Tail(todo), UNCHANGED <<given, stage, asOf, entries, order, raised>>
  PROVE  BookInv' /\ RunInv'
<1>1. InvParts /\ BookInv
  BY HasParts DEF SessionInv
<1>2. PICK s \in Symbols : s = Head(todo)
  BY AboutToExit
<1>3. /\ stage = "exit" /\ todo # <<>> /\ raised = "nothing" /\ ~problems
      /\ entries[s] \in Nat \ {0} /\ ~Known(<<s, 0>>) /\ Placed(s)
      /\ \A r : ~Entering(r) /\ ~Exiting(r)
  BY <1>2, AboutToExit
<1>4. UNCHANGED <<bars, runs, left>> /\ BarsAreKept
  BY KeptBars DEF given
<1>5. IsLeg(ExitOrder(s), s, 0)
  BY <1>2, ExitIsLeg
<1>6. BookInv'
  BY <1>1, <1>2, <1>3, <1>4, <1>5, Pairs, BookPlaced
<1>7. IsPlaced(s, 0, ExitOrder(s), "REJECTED")
  BY <1>2, <1>5, Pairs, LegIsPlaced
<1>8. /\ \A r \in Symbols, t \in 1 .. SessionEnd :
           Known(<<r, t>>)' = Known(<<r, t>>) /\ orders'[<<r, t>>] = orders[<<r, t>>]
      /\ \A r \in Symbols : r # s => Known(<<r, 0>>)' = Known(<<r, 0>>)
      /\ \A r \in Symbols : Placed(r)' = Placed(r)
      /\ Known(<<s, 0>>)' /\ AsExit(s, "REJECTED")
  BY <1>2, <1>7, ExitPlaced DEF AsExit
<1>9. UNCHANGED <<held, problems>>
  BY <1>7 DEF IsPlaced
<1>10. ~Serving'
  BY <1>6, NoneServedAfter DEF Reject
<1>11. /\ todo' \in Seq(Symbols) /\ Unrepeated(todo') /\ ~IsIn(s, todo')
       /\ \A r : IsIn(r, todo') => IsIn(r, todo)
       /\ \A r : IsIn(r, todo) => r = s \/ IsIn(r, todo')
  BY <1>1, <1>2, <1>3, HeadOfTodo DEF InvParts
<1>12. /\ stranded' \in [Symbols -> Int] /\ stranded'[s] = entries[s]
       /\ \A r \in Symbols : r # s => stranded'[r] = stranded[r]
  BY <1>1, <1>2, <1>3 DEF InvParts, SessionTyped
<1>13. SessionTyped'
  BY <1>1, <1>4, <1>11, <1>12 DEF InvParts, SessionTyped
<1>14. ServedInv' /\ WaitingInv'
  BY <1>3, <1>10 DEF ServedInv, WaitingInv, Waiting, Entering, Exiting
<1>15. TodoInv'
  <2>1. \A r \in Symbols : IsIn(r, todo') => entries[r] > 0 /\ ~Known(<<r, 0>>)'
    BY <1>1, <1>3, <1>8, <1>11 DEF InvParts, TodoInv
  <2>2. \A r \in Symbols : entries[r] > 0 => IsIn(r, todo') \/ Known(<<r, 0>>)'
    BY <1>1, <1>3, <1>8, <1>11 DEF InvParts, TodoInv, Entries
  <2>3. QED
    BY <1>3, <1>11, <2>1, <2>2 DEF TodoInv
<1>16. EntriesInv'
  <2>1. \A r \in Symbols :
          entries[r] % Lot # 0 /\ Known(<<r, 0>>)' => stranded'[r] = entries[r]
    BY <1>1, <1>8, <1>12 DEF InvParts, EntriesInv
  <2>2. QED
    BY <1>1, <1>3, <1>4, <1>8, <2>1 DEF InvParts, EntriesInv, Entries, BarsAreKept
<1>17. HeldInv'
  <2>1. ASSUME NEW r \in Symbols
        PROVE  Has(r)' = Has(r)
    BY <1>3, <1>8, <1>12 DEF Has, Entering, Exiting
  <2>2. QED
    BY <1>1, <1>4, <1>8, <1>9, <2>1 DEF InvParts, HeldInv
<1>18. FirstRunInv'
  BY <1>3, <1>4, <1>8, <1>11, ExitKeepsFirstRun
<1>19. RaisedInv' /\ DuplicateMeansRestingEntry'
  BY <1>3, <1>9, NothingRaised DEF RaisedInv
<1>20. QED
  BY <1>6, <1>13, <1>14, <1>15, <1>16, <1>17, <1>18, <1>19 DEF RunInv

\* The broker took an exit: it is of whole shares.
LEMMA ExitAcceptedKeeps ==
  ASSUME SessionInv, Exit,
         Accept(<<Head(todo), 0>>, ExitOrder(Head(todo)), QuoteFrom(Head(todo), LastBar(Head(todo)))),
         stage' = "exiting", UNCHANGED <<given, asOf, todo, entries, order, stranded, raised>>
  PROVE  BookInv' /\ RunInv'
<1>1. InvParts /\ BookInv
  BY HasParts DEF SessionInv
<1>2. PICK s \in Symbols : s = Head(todo)
  BY AboutToExit
<1>3. PICK q : q = QuoteFrom(s, LastBar(s))
  OBVIOUS
<1>4. /\ stage = "exit" /\ todo # <<>> /\ raised = "nothing" /\ ~problems
      /\ entries[s] \in Nat \ {0} /\ ~Known(<<s, 0>>) /\ Placed(s)
      /\ \A r : ~Entering(r) /\ ~Exiting(r)
  BY <1>2, AboutToExit
<1>5. UNCHANGED <<bars, runs, left>> /\ BarsAreKept
  BY KeptBars DEF given
<1>6. IsLeg(ExitOrder(s), s, 0) /\ ExitOrder(s).quantity = entries[s]
      /\ q \in QuoteType /\ q # NoQuote
  BY <1>2, <1>3, ExitIsLeg
<1>7. Accept(<<s, 0>>, ExitOrder(s), q)
  BY <1>2, <1>3
<1>8. BookInv'
  BY <1>1, <1>4, <1>5, <1>6, <1>7, Pairs, BookPlaced
<1>9. IsPlaced(s, 0, ExitOrder(s), "OPEN")
  BY <1>6, <1>7, Pairs, LegIsPlaced
<1>10. /\ \A r \in Symbols, t \in 1 .. SessionEnd :
            Known(<<r, t>>)' = Known(<<r, t>>) /\ orders'[<<r, t>>] = orders[<<r, t>>]
       /\ \A r \in Symbols : r # s => Known(<<r, 0>>)' = Known(<<r, 0>>)
       /\ \A r \in Symbols : Placed(r)' = Placed(r)
       /\ Known(<<s, 0>>)' /\ orders'[<<s, 0>>].state = "OPEN"
       /\ orders'[<<s, 0>>].filled = 0 /\ AsExit(s, "OPEN")
  BY <1>2, <1>9, ExitPlaced DEF AsExit
<1>11. UNCHANGED <<held, problems>> /\ queue' = Append(queue, <<s, 0>>)
  BY <1>9 DEF IsPlaced
<1>12. quote'.at = Len(queue)
  BY <1>6, <1>7 DEF Accept, Opened
<1>13. entries[s] % Lot = 0
  BY <1>6, <1>7 DEF Accept, RejectionReason, Malformed
<1>14. \A r \in Symbols : (Exiting(r)' <=> r = s) /\ ~Entering(r)'
  BY <1>2 DEF Exiting, Entering
<1>15. SessionTyped'
  BY <1>1, <1>5 DEF InvParts, SessionTyped, Stages
<1>16. ServedInv'
  <2>1. queue \in Seq(OrderIds) /\ <<s, 0>> \in OrderIds
    BY <1>1, Pairs DEF InvParts, TypeOK
  <2>2. /\ queue' # <<>> /\ Len(queue') = Len(queue) + 1 /\ Len(queue) \in Nat
        /\ queue'[Len(queue')] = <<s, 0>>
    BY <1>11, <2>1
  <2>3. Awaited' = <<s, 0>>
    BY <1>2 DEF Awaited
  <2>4. quote'.at >= Len(queue') - 1
    BY <1>12, <2>2
  <2>5. stage' \in Waiting /\ todo' # <<>>
    BY <1>4 DEF Waiting
  <2>6. Known(Awaited)' /\ orders'[Awaited'].state # "REJECTED"
    BY <1>10, <2>3 DEF Known
  <2>7. QED
    BY <2>2, <2>3, <2>4, <2>5, <2>6 DEF ServedInv
<1>17. WaitingInv'
  BY <1>10, <1>13, <1>14 DEF WaitingInv
<1>18. TodoInv'
  <2>1. \A r \in Symbols : IsIn(r, todo) => entries[r] > 0 /\ (Known(<<r, 0>>)' => Exiting(r)')
    BY <1>1, <1>4, <1>10, <1>14 DEF InvParts, TodoInv
  <2>2. \A r \in Symbols : entries[r] > 0 => IsIn(r, todo) \/ Known(<<r, 0>>)'
    BY <1>1, <1>4, <1>10 DEF InvParts, TodoInv, Entries
  <2>3. Unrepeated(todo)
    BY <1>1 DEF InvParts, TodoInv
  <2>4. QED
    BY <2>1, <2>2, <2>3 DEF TodoInv
<1>19. EntriesInv'
  <2>1. \A r \in Symbols :
          entries[r] % Lot # 0 /\ Known(<<r, 0>>)' => stranded[r] = entries[r]
    BY <1>1, <1>10, <1>13 DEF InvParts, EntriesInv
  <2>2. QED
    BY <1>1, <1>5, <1>10, <2>1 DEF InvParts, EntriesInv, Entries, BarsAreKept
<1>20. HeldInv'
  <2>1. ASSUME NEW r \in Symbols
        PROVE  Has(r)' = Has(r)
    <3>1. CASE r = s
      <4>1. Has(s)' = entries[s] - orders'[<<s, 0>>].filled
        BY <1>14 DEF Has
      <4>2. Has(s) = entries[s]
        BY <1>4 DEF Has
      <4>3. QED
        BY <1>4, <1>10, <3>1, <4>1, <4>2
    <3>2. CASE r # s
      BY <1>4, <1>10, <1>14, <3>2 DEF Has
    <3>3. QED
      BY <3>1, <3>2
  <2>2. QED
    BY <1>1, <1>5, <1>10, <1>11, <2>1 DEF InvParts, HeldInv
<1>0. FirstRunInv'
  BY <1>5, <1>10, ExitKeepsFirstRun
<1>22. RaisedInv' /\ DuplicateMeansRestingEntry'
  BY <1>4, <1>11, NothingRaised DEF RaisedInv
<1>23. QED
  BY <1>8, <1>15, <1>16, <1>17, <1>18, <1>19, <1>20, <1>0, <1>22 DEF RunInv

(***************************************************************************)
(* Steps of the broker and of the operator, and another run.               *)
(***************************************************************************)
\* What the run has grows with its entry and shrinks with its exit as the position does.
LEMMA ServeKeeps ==
  ASSUME SessionInv, Serve, UNCHANGED sessionVars
  PROVE  BookInv' /\ RunInv'
<1>1. InvParts
  BY HasParts
<1>2. UNCHANGED <<bars, runs, left, stage, asOf, todo, entries, order, stranded, raised>>
  BY DEF sessionVars, given
<1>3. BarsAreKept /\ BookInv'
  BY <1>2, KeptBars, BookServed
<1>0. PICK i : i = Awaited
  OBVIOUS
<1>4. PICK q \in Nat : /\ AsFilled(i, q, MarketablePrice(i)) /\ i = Awaited
                       /\ quote'.ask = quote.ask /\ quote'.at = Len(queue)
  BY <1>0, ServesAwaited
<1>5. PICK s : s = Head(todo)
  OBVIOUS
<1>6. /\ stage \in Waiting /\ i \in OrderIds /\ s \in Symbols /\ Known(i)
      /\ stage = "entering" => /\ asOf \in 1 .. SessionEnd /\ i = <<s, asOf>>
                               /\ IsEntry(s, asOf) /\ Entering(s)
      /\ stage = "exiting" => i = <<s, 0>> /\ IsExit(s) /\ Exiting(s)
  BY <1>4, <1>5, ServesAwaited, AwaitedOrder
<1>7. /\ \A j \in OrderIds : j # i => orders'[j] = orders[j]
      /\ orders'[i].filled = orders[i].filled + q /\ orders[i].filled \in Nat
      /\ orders'[i].state \in {"PARTIALLY_FILLED", "FILLED"}
      /\ \A r \in Symbols :
           held'[r] = held[r] + IF r # orders[i].symbol THEN 0
                                ELSE IF orders[i].side = "BUY" THEN q ELSE -q
      /\ UNCHANGED <<queue, keys, problems, halted>>
  BY <1>4 DEF AsFilled
<1>8. \A j \in OrderIds : Known(j)' = Known(j)
  BY <1>6, <1>7 DEF Known
<1>9. \A r : Placed(r)' = Placed(r)
  BY <1>7 DEF Placed
<1>10. \A r : Entering(r)' = Entering(r) /\ Exiting(r)' = Exiting(r)
  BY <1>2 DEF Entering, Exiting
<1>11. \A r \in Symbols : Known(<<r, 0>>)' = Known(<<r, 0>>)
  BY <1>8, Pairs
<1>12. SessionTyped'
  BY <1>1, <1>2 DEF InvParts, SessionTyped
<1>13. ServedInv'
  <2>1. Awaited' = i
    BY <1>2, <1>4 DEF Awaited
  <2>2. /\ todo # <<>> /\ queue # <<>> /\ queue[Len(queue)] = i /\ queue \in Seq(OrderIds)
    BY <1>1, <1>4, <1>6 DEF InvParts, ServedInv, TypeOK
  <2>3. Len(queue) \in Nat
    BY <2>2
  <2>4. quote'.at >= Len(queue') - 1
    BY <1>4, <1>7, <2>3
  <2>5. Known(Awaited)' /\ orders'[Awaited'].state # "REJECTED"
    BY <1>7, <2>1 DEF Known
  <2>6. QED
    BY <1>2, <1>6, <1>7, <2>1, <2>2, <2>4, <2>5 DEF ServedInv
<1>14. WaitingInv'
  <2>1. ASSUME NEW r \in Symbols, Entering(r)'
        PROVE  /\ quote'.ask = bars'[r][NextBar(r, asOf)'].open
               /\ keys'[<<r, "entry">>] = <<r, asOf'>>
               /\ entries'[r] = 0 /\ ~Known(<<r, 0>>)' /\ left'[r] = 0
    <3>1. /\ quote.ask = bars[r][NextBar(r, asOf)].open
          /\ keys[<<r, "entry">>] = <<r, asOf>>
          /\ entries[r] = 0 /\ ~Known(<<r, 0>>) /\ left[r] = 0
      BY <1>1, <1>10, <2>1 DEF InvParts, WaitingInv
    <3>2. NextBar(r, asOf)' = NextBar(r, asOf)
      BY <1>2 DEF NextBar, Later, HasBar
    <3>3. QED
      BY <1>2, <1>4, <1>7, <1>11, <3>1, <3>2
  <2>2. \A r \in Symbols : Exiting(r)' => entries'[r] % Lot = 0 /\ Known(<<r, 0>>)'
    BY <1>1, <1>2, <1>10, <1>11 DEF InvParts, WaitingInv
  <2>3. QED
    BY <2>1, <2>2 DEF WaitingInv
<1>15. TodoInv'
  BY <1>1, <1>2, <1>3, <1>10, <1>11 DEF InvParts, TodoInv, Entries, BarsAreKept
<1>16. EntriesInv'
  BY <1>1, <1>2, <1>3, <1>9, <1>11 DEF InvParts, EntriesInv, Entries, BarsAreKept
<1>17. HeldInv'
  <2>1. ASSUME NEW r \in Symbols
        PROVE  held'[r] = left[r] + Has(r)'
    <3>1. /\ held[r] = left[r] + Has(r) /\ left[r] \in Int /\ entries[r] \in Nat
          /\ stranded[r] \in Int
      BY <1>1 DEF InvParts, HeldInv, SessionTyped
    <3>2. CASE stage = "entering" /\ r = s
      <4>1. Has(r) = orders[i].filled
        BY <1>6, <3>2 DEF Has
      <4>2. Has(r)' = orders'[i].filled
        BY <1>2, <1>6, <1>10, <3>2 DEF Has
      <4>3. held'[r] = held[r] + q
        BY <1>6, <1>7, <3>2 DEF IsEntry
      <4>4. QED
        BY <1>7, <3>1, <4>1, <4>2, <4>3
    <3>3. CASE stage = "exiting" /\ r = s
      <4>1. ~Entering(r)
        BY <3>3 DEF Entering
      <4>2. Has(r) = entries[r] - orders[i].filled
        BY <1>6, <3>3, <4>1 DEF Has
      <4>3. Has(r)' = entries[r] - orders'[i].filled
        BY <1>2, <1>6, <1>10, <3>3, <4>1 DEF Has
      <4>4. held'[r] = held[r] - q
        <5>1. orders[i].symbol = r /\ orders[i].side = "SELL"
          BY <1>6, <3>3 DEF IsExit
        <5>2. held'[r] = held[r] + (-q) /\ held[r] \in Int
          BY <1>1, <1>7, <5>1 DEF InvParts, TypeOK
        <5>3. QED
          BY <5>2
      <4>5. QED
        BY <1>7, <3>1, <4>2, <4>3, <4>4
    <3>4. CASE r # s
      <4>1. ~Entering(r) /\ ~Exiting(r)
        BY <1>5, <3>4 DEF Entering, Exiting
      <4>2. Has(r)' = Has(r)
        BY <1>2, <1>10, <1>11, <4>1 DEF Has
      <4>3. orders[i].symbol = s
        BY <1>6 DEF Waiting, IsEntry, IsExit
      <4>4. held'[r] = held[r] /\ held[r] \in Int
        BY <1>1, <1>7, <3>4, <4>3 DEF InvParts, TypeOK
      <4>5. QED
        BY <3>1, <4>2, <4>4
    <3>5. QED
      BY <1>6, <3>2, <3>3, <3>4 DEF Waiting
  <2>2. ASSUME NEW r \in Symbols, ~Placed(r)
        PROVE  held'[r] = 0
    <3>1. Placed(s)
      <4>1. CASE stage = "entering"
        <5>1. keys[<<s, "entry">>] = <<s, asOf>>
          BY <1>1, <1>6, <4>1 DEF InvParts, WaitingInv
        <5>2. <<s, asOf>> # NoOrder
          BY <1>6, <4>1, Pairs
        <5>3. QED
          BY <5>1, <5>2 DEF Placed
      <4>2. CASE stage = "exiting"
        BY <1>6, <4>2 DEF IsExit
      <4>3. QED
        BY <1>6, <4>1, <4>2 DEF Waiting
    <3>2. orders[i].symbol # r
      BY <1>6, <2>2, <3>1 DEF Waiting, IsEntry, IsExit
    <3>3. held[r] = 0
      BY <1>1, <2>2 DEF InvParts, HeldInv
    <3>4. QED
      BY <1>7, <3>2, <3>3
  <2>3. QED
    BY <1>2, <1>9, <2>1, <2>2 DEF HeldInv
<1>18. FirstRunInv'
  <2>1. ASSUME runs = 1, NEW r \in Symbols
        PROVE  /\ left[r] = 0
               /\ Placed(r) /\ ~Entering(r) => entries[r] = orders'[keys[<<r, "entry">>]].filled
               /\ \A t \in 1 .. SessionEnd :
                    Known(<<r, t>>)' => \/ t < asOf
                                        \/ /\ t = asOf /\ stage # "evaluate"
                                           /\ IsIn(r, todo) => Entering(r)
    <3>1. left[r] = 0
      BY <1>1, <2>1 DEF InvParts, FirstRunInv
    <3>2. ASSUME Placed(r), ~Entering(r)
          PROVE  entries[r] = orders'[keys[<<r, "entry">>]].filled
      <4>1. PICK t \in 1 .. SessionEnd : keys[<<r, "entry">>] = <<r, t>>
        BY <1>1, <3>2 DEF InvParts, LegsInv
      <4>2. <<r, t>> # i
        BY <1>6, <3>2, Pairs DEF Waiting
      <4>3. orders'[<<r, t>>] = orders[<<r, t>>]
        BY <1>7, <4>2, Pairs
      <4>4. QED
        BY <1>1, <2>1, <3>2, <4>1, <4>3 DEF InvParts, FirstRunInv
    <3>3. \A t \in 1 .. SessionEnd : Known(<<r, t>>)' = Known(<<r, t>>)
      BY <1>8, Pairs
    <3>4. QED
      BY <1>1, <2>1, <3>1, <3>2, <3>3 DEF InvParts, FirstRunInv
  <2>2. QED
    BY <1>2, <1>7, <1>9, <1>10, <2>1 DEF FirstRunInv
<1>19. RaisedInv' /\ DuplicateMeansRestingEntry'
  BY <1>1, <1>2, <1>6, <1>7, NothingRaised DEF InvParts, RaisedInv, Waiting
<1>20. QED
  BY <1>3, <1>12, <1>13, <1>14, <1>15, <1>16, <1>17, <1>18, <1>19 DEF RunInv

\* The operator touches the switch, or nothing happens.
LEMMA SwitchKeeps ==
  ASSUME SessionInv, Engage \/ Release \/ UNCHANGED vars, UNCHANGED sessionVars
  PROVE  BookInv' /\ RunInv'
<1>1. InvParts /\ BookInv
  BY HasParts DEF SessionInv
<1>2. /\ UNCHANGED <<bars, runs, left, stage, asOf, todo, entries, order, stranded, raised>>
      /\ UNCHANGED <<orders, queue, fills, held, cash, keys, problems, quote>>
  BY DEF sessionVars, given, Engage, Release, vars
<1>3. IInv' /\ BooksAgree'
  BY <1>1, StepPreserves, BooksStep DEF BookInv, Step
<1>4. BookInv'
  BY <1>1, <1>2, <1>3, SameOrders DEF BookInv
<1>5. BarsAreKept
  BY <1>2, KeptBars
<1>6. /\ \A i : Known(i)' = Known(i)
      /\ \A s : Placed(s)' = Placed(s) /\ Entering(s)' = Entering(s) /\ Exiting(s)' = Exiting(s)
  BY <1>2 DEF Known, Placed, Entering, Exiting
<1>7. Serving' = Serving
  <2>1. \A n : Fillable(n)' = Fillable(n)
    BY <1>2 DEF Fillable, Working, Marketable, MarketablePrice, WithinLimit
  <2>2. QED
    BY <1>2, <2>1 DEF Serving
<1>8. SessionTyped'
  BY <1>1, <1>2 DEF InvParts, SessionTyped
<1>9. ServedInv'
  BY <1>1, <1>2, <1>7 DEF InvParts, ServedInv, Awaited, Known
<1>10. WaitingInv'
  BY <1>1, <1>2, <1>5, <1>6 DEF InvParts, WaitingInv, BarsAreKept
<1>11. TodoInv' /\ EntriesInv'
  BY <1>1, <1>2, <1>5, <1>6 DEF InvParts, TodoInv, EntriesInv, Entries, BarsAreKept
<1>12. HeldInv'
  BY <1>1, <1>2, <1>6 DEF InvParts, HeldInv, Has
<1>13. FirstRunInv'
  BY <1>1, <1>2, <1>6 DEF InvParts, FirstRunInv
<1>14. RaisedInv' /\ DuplicateMeansRestingEntry'
  BY <1>1, <1>2, <1>6 DEF InvParts, RaisedInv, DuplicateMeansRestingEntry
<1>15. QED
  BY <1>4, <1>8, <1>9, <1>10, <1>11, <1>12, <1>13, <1>14 DEF RunInv

\* A book without its quote is the same book.
LEMMA SameBook ==
  ASSUME BookInv, quote' = NoQuote,
         UNCHANGED <<bars, orders, queue, fills, held, cash, keys, problems, halted>>
  PROVE  BookInv'
<1>1. TypeOK /\ StateMatchesFilled /\ KeysAreRegistered
  BY DEF BookInv, IInv
<1>2. TypeOK'
  BY <1>1, NoQuoteTyped DEF TypeOK
<1>3. StateMatchesFilled'
  BY <1>1 DEF StateMatchesFilled
<1>4. KeysAreRegistered'
  BY <1>1 DEF KeysAreRegistered, Known
<1>5. BooksAgree'
  <2>1. /\ \A i \in OrderIds : orders[i].filled = FilledSum(fills, i)
        /\ \A s \in Symbols : held[s] = HeldSum(fills, s)
        /\ cash = InitialCash - PaidSum(fills)
    BY BooksAreSums DEF BookInv
  <2>2. /\ \A i \in OrderIds : orders'[i].filled = FilledSum(fills', i)
        /\ \A s \in Symbols : held'[s] = HeldSum(fills', s)
        /\ cash' = InitialCash - PaidSum(fills')
    BY <2>1
  <2>3. QED
    BY <2>2 DEF BooksAgree, FilledSum, HeldSum, PaidSum
<1>6. QED
  BY <1>2, <1>3, <1>4, <1>5, SameOrders DEF BookInv, IInv

\* The session starts over, from what the book holds.
LEMMA RunAgainKeeps ==
  ASSUME SessionInv, RunAgain
  PROVE  BookInv' /\ RunInv'
<1>1. InvParts /\ BookInv
  BY HasParts DEF SessionInv
<1>2. /\ stage' = "evaluate" /\ asOf' = 1 /\ todo' = <<>> /\ order' = <<>>
      /\ \A s \in Symbols : entries'[s] = 0 /\ stranded'[s] = 0
      /\ entries' \in [Symbols -> Nat] /\ stranded' \in [Symbols -> Int]
      /\ raised' = "nothing" /\ runs' = runs + 1 /\ left' = held /\ quote' = NoQuote
      /\ UNCHANGED <<bars, orders, queue, fills, held, cash, keys, problems, halted>>
  BY DEF RunAgain
<1>3. BookInv' /\ ~Serving'
  BY <1>1, <1>2, SameBook, NoneServedAfter
<1>4. runs' \in Nat \ {0} /\ runs' # 1 /\ held \in [Symbols -> Int]
  BY <1>1, <1>2 DEF InvParts, SessionTyped, TypeOK
<1>5. \A s : ~IsIn(s, <<>>)
  BY DEF IsIn
<1>6. SessionTyped'
  BY <1>1, <1>2, <1>4 DEF InvParts, SessionTyped, Stages
<1>7. ServedInv' /\ WaitingInv'
  BY <1>2, <1>3 DEF ServedInv, WaitingInv, Waiting, Entering, Exiting
<1>8. TodoInv'
  BY <1>2 DEF TodoInv, Entries, Unrepeated
<1>9. EntriesInv'
  BY <1>2, <1>5 DEF EntriesInv, Entries, Unrepeated
<1>10. HeldInv'
  <2>1. \A s \in Symbols : Has(s)' = 0
    BY <1>2 DEF Has, Entering, Exiting
  <2>2. \A s : Placed(s)' = Placed(s)
    BY <1>2 DEF Placed
  <2>3. \A s \in Symbols : held[s] \in Int /\ held[s] = held[s] + 0
    BY <1>4
  <2>4. \A s \in Symbols : ~Placed(s) => held[s] = 0
    BY <1>1 DEF InvParts, HeldInv
  <2>5. QED
    BY <1>2, <2>1, <2>2, <2>3, <2>4 DEF HeldInv
<1>11. FirstRunInv'
  BY <1>4 DEF FirstRunInv
<1>12. RaisedInv' /\ DuplicateMeansRestingEntry'
  BY <1>1, <1>2, NothingRaised DEF InvParts, RaisedInv
<1>13. QED
  BY <1>3, <1>6, <1>7, <1>8, <1>9, <1>10, <1>11, <1>12 DEF RunInv

(***************************************************************************)
(* The invariant holds.                                                    *)
(***************************************************************************)
\* Of a session that begins over a new book.
LEMMA InitSession == SessionInit => SessionInv
<1> SUFFICES ASSUME SessionInit PROVE SessionInv
  OBVIOUS
<1>1. /\ Init /\ IInv /\ TypeOK /\ BooksAgree
      /\ bars \in Panels /\ stage = "evaluate" /\ asOf = 1 /\ todo = <<>> /\ order = <<>>
      /\ entries \in [Symbols -> Nat] /\ stranded \in [Symbols -> Int]
      /\ \A s \in Symbols : entries[s] = 0 /\ stranded[s] = 0
      /\ raised = "nothing" /\ runs = 1 /\ left = held
  BY InitIInv, InitBooks DEF SessionInit, IInv
<1>2. /\ fills = <<>> /\ queue = <<>> /\ ~problems
      /\ held \in [Symbols -> Int] /\ \A s \in Symbols : held[s] = 0
  BY <1>1 DEF Init
<1>3. \A i \in OrderIds : ~Known(i)
  BY <1>1 DEF Init, Known, Unknown
<1>4. \A k \in Keys : keys[k] = NoOrder
  BY <1>1 DEF Init
<1>5. \A s \in Symbols : /\ ~Placed(s) /\ keys[<<s, "exit">>] = NoOrder
                         /\ \A t \in 0 .. SessionEnd : ~Known(<<s, t>>)
  BY <1>3, <1>4, Pairs DEF Placed
<1>6. \A s : ~IsIn(s, <<>>)
  BY DEF IsIn
<1>7. OrdersInv /\ LegsInv
  BY <1>5, Pairs DEF OrdersInv, LegsInv
<1>8. FillsInv
  BY <1>2 DEF FillsInv
<1>9. SessionTyped
  BY <1>1, <1>2 DEF SessionTyped, Stages
<1>10. ServedInv /\ WaitingInv
  <2>1. ~Serving
    BY <1>1, NotServing DEF Init, TypeOK
  <2>2. QED
    BY <1>1, <2>1 DEF ServedInv, WaitingInv, Waiting, Entering, Exiting
<1>11. TodoInv /\ EntriesInv
  BY <1>1, <1>6 DEF TodoInv, EntriesInv, Entries, Unrepeated
<1>12. HeldInv
  <2>1. \A s \in Symbols : Has(s) = 0
    BY <1>1 DEF Has, Entering, Exiting
  <2>2. QED
    BY <1>1, <1>2, <2>1 DEF HeldInv
<1>13. FirstRunInv
  BY <1>1, <1>2, <1>5, Pairs DEF FirstRunInv
<1>14. RaisedInv /\ DuplicateMeansRestingEntry
  BY <1>1, <1>2 DEF RaisedInv, DuplicateMeansRestingEntry
<1>15. QED
  BY <1>1, <1>7, <1>8, <1>9, <1>10, <1>11, <1>12, <1>13, <1>14 DEF SessionInv, BookInv, RunInv

\* Entering an instrument is one of three things.
LEMMA EnterKeeps ==
  ASSUME SessionInv, Enter
  PROVE  BookInv' /\ RunInv'
<1>1. CASE Raise(<<Head(todo), asOf>>, EntryOrder(Head(todo), asOf))
  BY <1>1, EntryRaisedKeeps
<1>2. CASE /\ Reject(<<Head(todo), asOf>>, EntryOrder(Head(todo), asOf))
           /\ todo' = Tail(todo)
           /\ UNCHANGED <<given, stage, asOf, entries, order, stranded, raised>>
  BY <1>2, EntryRejectedKeeps
<1>3. CASE /\ Accept(<<Head(todo), asOf>>, EntryOrder(Head(todo), asOf),
                     QuoteFrom(Head(todo), NextBar(Head(todo), asOf)))
           /\ stage' = "entering"
           /\ UNCHANGED <<given, asOf, todo, entries, order, stranded, raised>>
  BY <1>3, EntryAcceptedKeeps
<1>4. QED
  BY <1>1, <1>2, <1>3 DEF Enter

\* And so is exiting it.
LEMMA ExitKeeps ==
  ASSUME SessionInv, Exit
  PROVE  BookInv' /\ RunInv'
<1>1. CASE Raise(<<Head(todo), 0>>, ExitOrder(Head(todo)))
  BY <1>1, ExitRaisedKeeps
<1>2. CASE /\ Reject(<<Head(todo), 0>>, ExitOrder(Head(todo)))
           /\ stranded' = [stranded EXCEPT ![Head(todo)] = entries[Head(todo)]]
           /\ todo' = Tail(todo)
           /\ UNCHANGED <<given, stage, asOf, entries, order, raised>>
  BY <1>2, ExitRejectedKeeps
<1>3. CASE /\ Accept(<<Head(todo), 0>>, ExitOrder(Head(todo)),
                     QuoteFrom(Head(todo), LastBar(Head(todo))))
           /\ stage' = "exiting"
           /\ UNCHANGED <<given, asOf, todo, entries, order, stranded, raised>>
  BY <1>3, ExitAcceptedKeeps
<1>4. QED
  BY <1>1, <1>2, <1>3 DEF Exit

\* A step that asks nothing of the broker keeps the book.
LEMMA QuietKeepsBook ==
  ASSUME SessionInv, UNCHANGED <<vars, given>>
  PROVE  BookInv'
BY BookKept DEF SessionInv, given

\* Every step keeps the invariant.
LEMMA StepKeepsSession == SessionInv /\ [SessionNext]_allVars => SessionInv'
<1> SUFFICES ASSUME SessionInv, [SessionNext]_allVars
             PROVE  BookInv' /\ RunInv'
  BY DEF SessionInv
<1>1. CASE Evaluate
  BY <1>1, EvaluateKeeps, QuietKeepsBook DEF Evaluate
<1>2. CASE Skip
  BY <1>2, SkipKeeps, QuietKeepsBook DEF Skip
<1>3. CASE Enter
  BY <1>3, EnterKeeps
<1>4. CASE Entered
  BY <1>4, EnteredKeeps, QuietKeepsBook DEF Entered
<1>5. CASE NextStep
  BY <1>5, NextStepKeeps, QuietKeepsBook DEF NextStep
<1>6. CASE Close
  BY <1>6, CloseKeeps, QuietKeepsBook DEF Close
<1>7. CASE Exit
  BY <1>7, ExitKeeps
<1>8. CASE Exited
  BY <1>8, ExitedKeeps, QuietKeepsBook DEF Exited
<1>9. CASE Finish
  BY <1>9, FinishKeeps, QuietKeepsBook DEF Finish
<1>10. CASE RunAgain
  BY <1>10, RunAgainKeeps
<1>11. CASE BrokerStep
  BY <1>11, ServeKeeps, SwitchKeeps DEF BrokerStep
<1>12. CASE UNCHANGED allVars
  BY <1>12, SwitchKeeps DEF allVars
<1>13. QED
  BY <1>1, <1>2, <1>3, <1>4, <1>5, <1>6, <1>7, <1>8, <1>9, <1>10, <1>11, <1>12
     DEF SessionNext, SessionStep

\* The invariant of a session, for any panel, any signals and any number of runs.
THEOREM SessionInvariance == SessionSpec => []SessionInv
BY InitSession, StepKeepsSession, PTL DEF SessionSpec

(***************************************************************************)
(* What a session promises.                                                *)
(***************************************************************************)
\* What a run believes it holds is what the book says beyond what earlier runs left
\* (run_session, SessionReport).
THEOREM ReportIsTheBook == SessionSpec => []ReportMatchesBook
<1>1. SessionInv => ReportMatchesBook
  <2> SUFFICES ASSUME SessionInv, stage \notin {"entering", "exiting"}, NEW s \in Symbols
               PROVE  held[s] = left[s] + IF orders[<<s, 0>>].state = "PENDING"
                                          THEN entries[s] ELSE stranded[s]
    BY DEF ReportMatchesBook
  <2>1. held[s] = left[s] + Has(s)
    BY HasParts DEF InvParts, HeldInv
  <2>2. Has(s) = IF Known(<<s, 0>>) THEN stranded[s] ELSE entries[s]
    BY DEF Has, Entering, Exiting
  <2>3. QED
    BY <2>1, <2>2 DEF Known
<1>2. QED
  BY <1>1, SessionInvariance, PTL

\* An order of the session is refused as a duplicate in two cases only, and no exit ever
\* is (run_session.py:181).
THEOREM DuplicatesAreKnown == SessionSpec => []DuplicateMeansRestingEntry
<1>1. SessionInv => DuplicateMeansRestingEntry
  BY HasParts DEF InvParts
<1>2. QED
  BY <1>1, SessionInvariance, PTL

\* An entry with part of a share stays to the last share: it is reported as stranded
\* whole and never sold (simulated_broker.py:431).
THEOREM FractionsAreStranded == SessionSpec => []FractionIsStrandedWhole
<1>1. SessionInv => FractionIsStrandedWhole
  <2> SUFFICES ASSUME SessionInv, NEW s \in Symbols, entries[s] % Lot # 0, stage = "done"
               PROVE  stranded[s] = entries[s] /\ held[s] = entries[s]
    BY DEF FractionIsStrandedWhole
  <2>1. InvParts
    BY HasParts
  <2>2. entries[s] \in Nat
    BY <2>1 DEF InvParts, SessionTyped
  <2>3. entries[s] # 0
    BY BrokerConstants
  <2>4. Known(<<s, 0>>)
    BY <2>1, <2>2, <2>3 DEF InvParts, TodoInv, Entries, IsIn
  <2>5. stranded[s] = entries[s] /\ left[s] = 0
    BY <2>1, <2>2, <2>3, <2>4 DEF InvParts, EntriesInv
  <2>6. Has(s) = stranded[s]
    BY <2>4 DEF Has, Entering, Exiting
  <2>7. held[s] = left[s] + Has(s)
    BY <2>1 DEF InvParts, HeldInv
  <2>8. QED
    BY <2>2, <2>5, <2>6, <2>7
<1>2. QED
  BY <1>1, SessionInvariance, PTL

\* The executions that bought an instrument.
Bought(s) == {n \in DOMAIN fills : fills[n].symbol = s /\ fills[n].side = "BUY"}

\* They are of one order at one price, that of its bar.
LEMMA BoughtByOneOrder ==
  ASSUME SessionInv, NEW s \in Symbols, Bought(s) # {}
  PROVE  \E t \in 1 .. SessionEnd :
           /\ Known(<<s, t>>)
           /\ \A n \in Bought(s) : /\ fills[n].order = <<s, t>>
                                   /\ fills[n].price = bars[s][NextBar(s, t)].open
<1>1. InvParts /\ FillsInv
  BY HasParts DEF SessionInv, BookInv
<1>2. ASSUME NEW n \in Bought(s)
      PROVE  \E t \in 1 .. SessionEnd : IsOfEntry(fills[n], s, t)
  <2>1. n \in DOMAIN fills /\ fills[n].symbol = s /\ fills[n].side = "BUY"
    BY <1>2 DEF Bought
  <2>2. PICK r \in Symbols, t \in 1 .. SessionEnd : IsOfEntry(fills[n], r, t)
    BY <1>1, <2>1 DEF FillsInv
  <2>3. r = s
    BY <2>1, <2>2 DEF IsOfEntry
  <2>4. QED
    BY <2>2, <2>3
<1>3. PICK m \in Bought(s) : TRUE
  OBVIOUS
<1>4. PICK t \in 1 .. SessionEnd : IsOfEntry(fills[m], s, t)
  BY <1>2
<1>5. keys[<<s, "entry">>] = <<s, t>>
  BY <1>4 DEF IsOfEntry
<1>6. Placed(s)
  BY <1>5, Pairs DEF Placed
<1>7. PICK u \in 1 .. SessionEnd : keys[<<s, "entry">>] = <<s, u>> /\ Known(<<s, u>>)
  BY <1>1, <1>6 DEF InvParts, LegsInv
<1>8. Known(<<s, t>>)
  BY <1>5, <1>7
<1>9. ASSUME NEW n \in Bought(s)
      PROVE  fills[n].order = <<s, t>> /\ fills[n].price = bars[s][NextBar(s, t)].open
  <2>1. PICK v \in 1 .. SessionEnd : IsOfEntry(fills[n], s, v)
    BY <1>2
  <2>2. v = t
    BY <1>5, <2>1 DEF IsOfEntry
  <2>3. QED
    BY <2>1, <2>2 DEF IsOfEntry
<1>10. QED
  BY <1>8, <1>9

\* What some executions of an order cost at a price is no more than its quantity at it.
LEMMA CostOfOrder ==
  ASSUME IInv, BooksAgree, NEW i \in OrderIds, Known(i), NEW p \in Nat,
         NEW B, \A n \in B : /\ n \in DOMAIN fills /\ fills[n].order = i
                             /\ fills[n].price = p
  PROVE  /\ SumFunction([n \in B |-> fills[n].quantity * fills[n].price]) \in Int
         /\ orders[i].quantity * p \in Int
         /\ SumFunction([n \in B |-> fills[n].quantity * fills[n].price]) <= orders[i].quantity * p
<1> DEFINE S == {n \in DOMAIN fills : fills[n].order = i}
           cost == [n \in B |-> fills[n].quantity * fills[n].price]
           size == [n \in S |-> fills[n].quantity]
           some == [n \in S |-> IF n \in B THEN fills[n].quantity * p ELSE 0]
           all == [n \in S |-> fills[n].quantity * p]
<1>1. fills \in Seq(Fills) /\ DOMAIN fills = 1 .. Len(fills) /\ Len(fills) \in Nat
  BY DEF IInv, TypeOK
<1>2. IsFiniteSet(S)
  <2>1. IsFiniteSet(1 .. Len(fills))
    BY ONLY <1>1, FS_Interval
  <2>2. S \in SUBSET (1 .. Len(fills))
    BY <1>1
  <2>3. QED
    BY <2>1, <2>2, FS_Subset
<1>3. B \in SUBSET S
  OBVIOUS
<1>4. \A n \in S : fills[n].quantity \in Nat
  <2>1. \A n \in 1 .. Len(fills) : fills[n] \in Fills
    BY <1>1
  <2>2. QED
    BY <1>1, <2>1 DEF Fills
<1>5. \A n \in S : fills[n].quantity * p \in Nat
  BY <1>4
<1>6. /\ \A n \in S : /\ size[n] \in Int /\ size[n] = fills[n].quantity
                      /\ all[n] = fills[n].quantity * p
                      /\ all[n] = size[n] * p
                      /\ some[n] \in Int /\ all[n] \in Int /\ some[n] <= all[n]
      /\ \A n \in B : some[n] = cost[n] /\ cost[n] \in Int
      /\ \A n \in S \ B : some[n] = 0
      /\ DOMAIN cost = B /\ DOMAIN size = S
  BY <1>3, <1>4, <1>5
<1> HIDE DEF S, cost, size, some, all
<1>7. SumFunctionOnSet(some, S) = SumFunctionOnSet(cost, B)
  BY <1>2, <1>3, <1>6, SumWhere
<1>8. SumFunctionOnSet(some, S) <= SumFunctionOnSet(all, S)
  BY <1>2, <1>6, SumIsMonotonic
<1>9. SumFunctionOnSet(all, S) = SumFunctionOnSet(size, S) * p
  BY <1>2, <1>6, SumScaled
<1>10. SumFunctionOnSet(size, S) = orders[i].filled
  <2>1. orders[i].filled = FilledSum(fills, i)
    BY BooksAreSums
  <2>2. FilledSum(fills, i) = SumFunction(size)
    BY DEF FilledSum, size, S
  <2>3. SumFunction(size) = SumFunctionOnSet(size, S)
    BY <1>6 DEF SumFunction
  <2>4. QED
    BY <2>1, <2>2, <2>3
<1>11. orders[i].filled \in Nat /\ orders[i].quantity \in Nat /\ orders[i].filled <= orders[i].quantity
  <2>1. orders[i] \in OrderType
    BY DEF IInv, TypeOK, Known, Unknown
  <2>2. orders[i].filled \in Nat /\ orders[i].quantity \in Nat \ {0} /\ orders[i].state \in States
    BY <2>1 DEF OrderType
  <2>3. QED
    BY <2>2 DEF IInv, StateMatchesFilled, States
<1>12. p * orders[i].filled <= p * orders[i].quantity
  BY <1>11, ProductIsMonotonic
<1>13. /\ SumFunctionOnSet(cost, B) <= orders[i].quantity * p
       /\ SumFunctionOnSet(cost, B) \in Int /\ orders[i].quantity * p \in Int
  <2>1. orders[i].filled * p = p * orders[i].filled /\ orders[i].quantity * p = p * orders[i].quantity
        /\ p * orders[i].filled \in Int /\ p * orders[i].quantity \in Int
    BY <1>11
  <2>2. SumFunctionOnSet(some, S) \in Int /\ SumFunctionOnSet(all, S) \in Int
    BY <1>2, <1>6, SumIsInt
  <2>3. QED
    BY <1>7, <1>8, <1>9, <1>10, <1>12, <2>1, <2>2
<1>14. QED
  BY <1>6, <1>13 DEF SumFunction, cost

\* A session commits no more than order_notional to an instrument, however often it is
\* run again over its book (run_session.py:181).
THEOREM EntriesWithinNotional == SessionSpec => []EntryWithinNotional
<1>1. SessionInv => EntryWithinNotional
  <2> SUFFICES ASSUME SessionInv, NEW s \in Symbols
               PROVE  SumFunction([n \in Bought(s) |-> fills[n].quantity * fills[n].price])
                        <= Notional * Lot
    BY DEF EntryWithinNotional, Bought
  <2>1. Notional \in Nat /\ Lot \in Nat /\ Notional * Lot \in Nat
    BY SessionConstants, BrokerConstants
  <2>2. CASE Bought(s) = {}
    <3> DEFINE f == [n \in Bought(s) |-> fills[n].quantity * fills[n].price]
    <3>1. SumFunctionOnSet(f, {}) = 0
      BY FS_EmptySet, SumUnfold
    <3>2. SumFunction(f) = 0
      BY <2>2, <3>1 DEF SumFunction
    <3>3. QED
      BY <2>1, <3>2
  <2>3. CASE Bought(s) # {}
    <3>1. PICK t \in 1 .. SessionEnd :
            /\ Known(<<s, t>>)
            /\ \A n \in Bought(s) : /\ fills[n].order = <<s, t>>
                                    /\ fills[n].price = bars[s][NextBar(s, t)].open
      BY <2>3, BoughtByOneOrder
    <3>2. PICK p : p = bars[s][NextBar(s, t)].open
      OBVIOUS
    <3>3. orders[<<s, t>>].quantity = Shares(s, t) /\ Later(s, t) # {}
      BY <3>1, HasParts DEF InvParts, OrdersInv, IsEntry
    <3>4. p \in Nat \ {0}
      <4>1. NextBar(s, t) \in 1 .. LastTime /\ HasBar(s, NextBar(s, t))
        BY <3>3, NextBarIsLater, SessionConstants
      <4>2. QED
        BY <3>2, <4>1, BarTyped, HasParts DEF InvParts, SessionTyped
    <3>5. PICK d \in Nat : d = Notional \div p /\ d * p <= Notional
      BY <2>1, <3>4, QuotientBound
    <3>6. orders[<<s, t>>].quantity = d * Lot
      BY <3>2, <3>3, <3>5 DEF Shares
    <3>7. <<s, t>> \in OrderIds /\ IInv /\ BooksAgree
      BY Pairs DEF SessionInv, BookInv
    <3>8. \A n \in Bought(s) : /\ n \in DOMAIN fills /\ fills[n].order = <<s, t>>
                               /\ fills[n].price = p
      BY <3>1, <3>2 DEF Bought
    <3>9. /\ SumFunction([n \in Bought(s) |-> fills[n].quantity * fills[n].price]) \in Int
          /\ orders[<<s, t>>].quantity * p \in Int
          /\ SumFunction([n \in Bought(s) |-> fills[n].quantity * fills[n].price])
               <= orders[<<s, t>>].quantity * p
      BY <3>1, <3>4, <3>7, <3>8, CostOfOrder
    <3>10. (d * Lot) * p = Lot * (d * p) /\ d * p \in Nat
      BY <2>1, <3>4
    <3>11. Lot * (d * p) <= Lot * Notional
      BY <2>1, <3>5, <3>10, ProductIsMonotonic
    <3>12. orders[<<s, t>>].quantity * p <= Notional * Lot
      BY <2>1, <3>6, <3>10, <3>11
    <3>13. QED
      BY <2>1, <3>9, <3>12
  <2>4. QED
    BY <2>2, <2>3
<1>2. QED
  BY <1>1, SessionInvariance, PTL

(***************************************************************************)
(* The clock of the bars.                                                  *)
(***************************************************************************)
\* A step of a session is one of its broker, or leaves orders, fills and shares alone.
LEMMA SessionStepsTheBroker ==
  ASSUME SessionInv, [SessionNext]_allVars
  PROVE  [Step]_vars \/ UNCHANGED <<orders, fills, held>>
<1>1. InvParts
  BY HasParts
<1>2. CASE Enter
  <2>1. /\ bars \in Panels /\ Head(todo) \in Symbols /\ asOf \in 1 .. SessionEnd
        /\ Later(Head(todo), asOf) # {} /\ Shares(Head(todo), asOf) > 0
    BY <1>2, AboutToEnter
  <2>2. PICK s \in Symbols : s = Head(todo)
    BY <2>1
  <2>3. /\ EntryOrder(s, asOf) \in FreshOrders /\ <<s, asOf>> \in OrderIds
        /\ NextBar(s, asOf) \in 1 .. LastTime /\ HasBar(s, NextBar(s, asOf))
    BY <2>1, <2>2, EntryOrderFresh
  <2>4. QuoteFrom(s, NextBar(s, asOf)) \in QuoteType
    BY <2>1, <2>3, QuoteFromTyped
  <2>5. CASE Raise(<<s, asOf>>, EntryOrder(s, asOf))
    BY <2>5 DEF Raise, vars
  <2>6. CASE Reject(<<s, asOf>>, EntryOrder(s, asOf))
    BY <2>3, <2>6 DEF Step
  <2>7. CASE Accept(<<s, asOf>>, EntryOrder(s, asOf), QuoteFrom(s, NextBar(s, asOf)))
    BY <2>3, <2>4, <2>7 DEF Step
  <2>8. QED
    BY <1>2, <2>2, <2>5, <2>6, <2>7 DEF Enter
<1>3. CASE Exit
  <2>1. /\ bars \in Panels /\ Head(todo) \in Symbols /\ CanExit(Head(todo))
        /\ entries[Head(todo)] \in Nat \ {0}
    BY <1>3, AboutToExit
  <2>2. PICK s \in Symbols : s = Head(todo)
    BY <2>1
  <2>3. /\ ExitOrder(s) \in FreshOrders /\ <<s, 0>> \in OrderIds
        /\ LastBar(s) \in 1 .. LastTime /\ HasBar(s, LastBar(s))
    BY <2>1, <2>2, ExitOrderFresh DEF CanExit
  <2>4. QuoteFrom(s, LastBar(s)) \in QuoteType
    BY <2>1, <2>3, QuoteFromTyped
  <2>5. CASE Raise(<<s, 0>>, ExitOrder(s))
    BY <2>5 DEF Raise, vars
  <2>6. CASE Reject(<<s, 0>>, ExitOrder(s))
    BY <2>3, <2>6 DEF Step
  <2>7. CASE Accept(<<s, 0>>, ExitOrder(s), QuoteFrom(s, LastBar(s)))
    BY <2>3, <2>4, <2>7 DEF Step
  <2>8. QED
    BY <1>3, <2>2, <2>5, <2>6, <2>7 DEF Exit
<1>4. CASE Evaluate \/ Skip \/ Entered \/ NextStep \/ Close \/ Exited \/ Finish
  BY <1>4 DEF Evaluate, Skip, Entered, NextStep, Close, Exited, Finish
<1>5. CASE RunAgain
  BY <1>5 DEF RunAgain
<1>6. CASE BrokerStep
  BY <1>6 DEF BrokerStep, Step
<1>7. CASE UNCHANGED allVars
  BY <1>7 DEF allVars
<1>8. QED
  BY <1>2, <1>3, <1>4, <1>5, <1>6, <1>7 DEF SessionNext, SessionStep

\* Only a quote that is served adds to the fills.
LEMMA OnlyServingFills ==
  ASSUME SessionInv, [SessionNext]_allVars
  PROVE  fills' = fills \/ Serve
<1>1. CASE Enter
  BY <1>1 DEF Enter, Raise, Reject, Accept, vars
<1>2. CASE Exit
  BY <1>2 DEF Exit, Raise, Reject, Accept, vars
<1>3. CASE Evaluate \/ Skip \/ Entered \/ NextStep \/ Close \/ Exited \/ Finish
  BY <1>3 DEF Evaluate, Skip, Entered, NextStep, Close, Exited, Finish, vars
<1>4. CASE RunAgain
  BY <1>4 DEF RunAgain
<1>5. CASE BrokerStep
  BY <1>5 DEF BrokerStep, Engage, Release
<1>6. CASE UNCHANGED allVars
  BY <1>6 DEF allVars, vars
<1>7. QED
  BY <1>1, <1>2, <1>3, <1>4, <1>5, <1>6 DEF SessionNext, SessionStep

\* A sale is stamped with the last bar of its instrument, a purchase with one that is not
\* after it, or with one of the next day.
OnClock(f, t) ==
  /\ f.side = "SELL" => t = LastBar(f.symbol)
  /\ f.side = "BUY" => t <= LastBar(f.symbol) \/ t > SessionEnd

ClockInv ==
  /\ SharesCovered
  /\ stamps \in Seq(Nat) /\ Len(stamps) = Len(fills)
  /\ \A n \in DOMAIN fills : OnClock(fills[n], stamps[n])

\* The quote that is served has the time of a bar, the last one for a sale.
LEMMA StampOfServed ==
  ASSUME SessionInv, Serve
  PROVE  QuoteTime \in Nat /\ \E f \in Fills : fills' = Append(fills, f) /\ OnClock(f, QuoteTime)
<1>1. InvParts
  BY HasParts
<1>2. PICK s \in Symbols : s = Head(todo)
  BY ServesAwaited, AwaitedOrder
<1>3. PICK i \in OrderIds : i = Awaited
  BY ServesAwaited
<1>4. /\ stage \in Waiting
      /\ stage = "entering" => asOf \in 1 .. SessionEnd /\ i = <<s, asOf>> /\ IsEntry(s, asOf)
      /\ stage = "exiting" => i = <<s, 0>> /\ IsExit(s)
  BY <1>2, <1>3, ServesAwaited, AwaitedOrder
<1>5. PICK q \in Nat : AsFilled(i, q, MarketablePrice(i))
  BY <1>3, ServesAwaited
<1>6. PICK f : /\ f = [order |-> i, symbol |-> orders[i].symbol, side |-> orders[i].side,
                       quantity |-> q, price |-> MarketablePrice(i)]
               /\ fills' = Append(fills, f)
  BY <1>5 DEF AsFilled
<1>7. f.symbol = s /\ f.side = IF stage = "entering" THEN "BUY" ELSE "SELL"
  BY <1>4, <1>6 DEF IsEntry, IsExit, Waiting
<1>8. f \in Fills
  <2>1. IInv'
    BY StepPreserves DEF SessionInv, BookInv, Step
  <2>2. fills \in Seq(Fills) /\ fills' \in Seq(Fills)
    BY <1>1, <2>1 DEF InvParts, IInv, TypeOK
  <2>3. Append(fills, f)[Len(fills) + 1] = f /\ Len(fills) + 1 \in DOMAIN Append(fills, f)
    BY <2>2
  <2>4. QED
    BY <1>6, <2>2, <2>3
<1>9. LastBar(s) \in 1 .. SessionEnd /\ \A u \in 1 .. SessionEnd : HasBar(s, u) => u <= LastBar(s)
  <2>1. CanExit(s)
    <3>1. todo # <<>>
      BY <1>1, <1>4 DEF InvParts, ServedInv
    <3>2. IsIn(s, todo)
      BY <1>1, <1>2, <3>1, HeadOfTodo DEF InvParts
    <3>3. CASE stage = "entering"
      BY <1>1, <3>2, <3>3 DEF InvParts, TodoInv
    <3>4. CASE stage = "exiting"
      BY <1>1, <3>2, <3>4 DEF InvParts, TodoInv, EntriesInv
    <3>5. QED
      BY <1>4, <3>3, <3>4 DEF Waiting
  <2>2. QED
    BY <2>1, LastBarIsLast DEF CanExit
<1>10. CASE stage = "entering"
  <2>1. QuoteTime = NextBar(s, asOf)
    BY <1>2, <1>10 DEF QuoteTime
  <2>2. NextBar(s, asOf) \in asOf + 1 .. LastTime /\ HasBar(s, NextBar(s, asOf))
    BY <1>4, <1>10, NextBarIsLater DEF IsEntry
  <2>3. NextBar(s, asOf) > SessionEnd \/ NextBar(s, asOf) \in 1 .. SessionEnd
    BY <1>4, <1>10, <2>2, SessionConstants
  <2>4. QuoteTime \in Nat /\ (QuoteTime <= LastBar(s) \/ QuoteTime > SessionEnd)
    BY <1>4, <1>9, <1>10, <2>1, <2>2, <2>3, SessionConstants
  <2>5. QED
    BY <1>6, <1>7, <1>8, <1>10, <2>4 DEF OnClock
<1>11. CASE stage = "exiting"
  <2>1. QuoteTime = LastBar(s)
    BY <1>2, <1>11 DEF QuoteTime
  <2>2. QuoteTime \in Nat
    BY <1>9, <2>1, SessionConstants
  <2>3. QED
    BY <1>6, <1>7, <1>8, <1>11, <2>1, <2>2 DEF OnClock
<1>12. QED
  BY <1>4, <1>10, <1>11 DEF Waiting

\* Every step keeps the fills on the clock.
LEMMA ClockStep ==
  ASSUME SessionInv, SessionInv', ClockInv, [SessionNext]_allVars
  PROVE  ClockInv'
<1>1. IInv /\ IInv' /\ fills \in Seq(Fills)
  BY DEF SessionInv, BookInv, IInv, TypeOK
<1>2. SharesCovered'
  <2>1. CASE [Step]_vars
    BY <1>1, <2>1, SharesStep DEF ClockInv
  <2>2. CASE UNCHANGED <<orders, fills, held>>
    BY <2>2 DEF ClockInv, SharesCovered, CommittedShares, Working, Remaining
  <2>3. QED
    BY <2>1, <2>2, SessionStepsTheBroker
<1>3. bars' = bars
  <2>1. CASE SessionStep \/ BrokerStep
    BY <2>1 DEF SessionStep, BrokerStep, sessionVars, given, Evaluate, Skip, Enter, Raise, Entered,
               NextStep, Close, Exit, Exited, Finish, RunAgain
  <2>2. CASE UNCHANGED allVars
    BY <2>2 DEF allVars, sessionVars, given
  <2>3. QED
    BY <2>1, <2>2 DEF SessionNext
<1>4. \A f, t : OnClock(f, t)' = OnClock(f, t)
  BY <1>3, KeptBars DEF BarsAreKept, OnClock
<1>5. stamps' = IF fills' = fills THEN stamps ELSE Append(stamps, QuoteTime)
  BY DEF SessionNext, Stamped, allVars, vars
<1>6. CASE fills' = fills
  BY <1>2, <1>4, <1>5, <1>6 DEF ClockInv
<1>7. CASE fills' # fills /\ Serve
  <2>1. QuoteTime \in Nat
    BY <1>7, StampOfServed
  <2>2. PICK f \in Fills : fills' = Append(fills, f) /\ OnClock(f, QuoteTime)
    BY <1>7, StampOfServed
  <2>3. PICK t \in Nat : t = QuoteTime
    BY <2>1
  <2>4. stamps' = Append(stamps, t) /\ fills' = Append(fills, f) /\ OnClock(f, t)
    BY <1>5, <1>7, <2>2, <2>3
  <2>5. stamps \in Seq(Nat) /\ Len(stamps) = Len(fills)
    BY DEF ClockInv
  <2>6. /\ Append(stamps, t) \in Seq(Nat) /\ Len(Append(stamps, t)) = Len(Append(fills, f))
        /\ \A n \in DOMAIN Append(fills, f) :
             \/ n \in DOMAIN fills /\ Append(fills, f)[n] = fills[n] /\ Append(stamps, t)[n] = stamps[n]
             \/ Append(fills, f)[n] = f /\ Append(stamps, t)[n] = t
    BY <1>1, <2>5
  <2>7. \A n \in DOMAIN Append(fills, f) : OnClock(Append(fills, f)[n], Append(stamps, t)[n])
    BY <2>4, <2>6 DEF ClockInv
  <2>8. QED
    BY <1>2, <1>4, <2>4, <2>6, <2>7 DEF ClockInv
<1>8. QED
  BY <1>6, <1>7, OnlyServingFills

\* At any time the fills stamped by then have bought at least what they sold: before its
\* last bar an instrument is only bought, and by then all of its fills are stamped, unless
\* it was bought on the next day.
LEMMA ClockMeans == SessionInv /\ ClockInv => SoldAfterBought
<1> SUFFICES ASSUME SessionInv, ClockInv, NEW s \in Symbols, NEW t \in 1 .. LastTime,
                    \A n \in DOMAIN fills :
                      ~ (fills[n].symbol = s /\ fills[n].side = "BUY" /\ stamps[n] > SessionEnd)
             PROVE  Standing(s, t) >= 0
  BY DEF SoldAfterBought
<1> DEFINE of == {n \in DOMAIN fills : fills[n].symbol = s}
           by == {n \in DOMAIN fills : fills[n].symbol = s /\ stamps[n] <= t}
           f == [n \in by |-> Signed(fills[n])]
           z == [n \in by |-> 0]
<1>1. fills \in Seq(Fills) /\ IInv /\ SharesCovered /\ BooksAgree
  BY DEF SessionInv, BookInv, ClockInv, IInv, TypeOK
<1>2. \A n \in DOMAIN fills : /\ fills[n].side \in {"BUY", "SELL"} /\ fills[n].quantity \in Nat
                              /\ Signed(fills[n]) \in Int
  <2>1. \A n \in DOMAIN fills : fills[n] \in Fills
    BY <1>1
  <2>2. QED
    BY <2>1 DEF Fills, Sides, Signed
<1>3. ASSUME NEW n \in by
      PROVE  fills[n].side = "BUY" \/ LastBar(s) <= t
  BY <1>2, <1>3 DEF ClockInv, OnClock
<1>4. CASE \A n \in by : fills[n].side = "BUY"
  <2>1. \A n \in by : z[n] = 0 /\ z[n] \in Int /\ f[n] \in Int /\ z[n] <= f[n]
    BY <1>2, <1>4 DEF Signed
  <2>2. IsFiniteSet(by)
    <3>1. IsFiniteSet(DOMAIN fills)
      BY <1>1, FS_Interval
    <3>2. QED
      BY <3>1, FS_Subset
  <2>3. Standing(s, t) = SumFunctionOnSet(f, by)
    BY DEF Standing, SumFunction
  <2> HIDE DEF f, z, by
  <2>4. SumFunctionOnSet(z, by) = 0 /\ SumFunctionOnSet(z, by) <= SumFunctionOnSet(f, by)
    BY <2>1, <2>2, SumOfZeros, SumIsMonotonic
  <2>5. SumFunctionOnSet(f, by) \in Int
    BY <2>1, <2>2, SumIsInt
  <2>6. QED
    BY <2>3, <2>4, <2>5
<1>5. CASE \E n \in by : fills[n].side # "BUY"
  <2>1. PICK m \in by : fills[m].side = "SELL"
    BY <1>2, <1>5
  <2>2. LastBar(s) <= t /\ stamps[m] = LastBar(s) /\ stamps[m] \in Nat
    BY <1>3, <2>1 DEF ClockInv, OnClock
  <2>3. \A n \in of : stamps[n] <= t
    <3> TAKE n \in of
    <3>1. /\ stamps[n] \in Nat /\ OnClock(fills[n], stamps[n]) /\ fills[n].symbol = s
          /\ ~ (fills[n].side = "BUY" /\ stamps[n] > SessionEnd)
      BY <1>1 DEF ClockInv
    <3>2. stamps[n] <= LastBar(s)
      BY <1>2, <2>2, <3>1 DEF OnClock
    <3>3. QED
      BY <2>2, <3>1, <3>2
  <2>4. by = of
    BY <2>3
  <2>5. Standing(s, t) = SumFunction([n \in of |-> Signed(fills[n])])
    BY <2>4 DEF Standing
  <2>6. held[s] = SumFunction([n \in of |-> Signed(fills[n])])
    BY <1>1 DEF BooksAgree
  <2>7. held[s] >= 0
    BY <1>1, CommittedIsNatural DEF SharesCovered, IInv, TypeOK
  <2>8. QED
    BY <2>5, <2>6, <2>7
<1>6. QED
  BY <1>4, <1>5

\* On the clock of the bars no instrument is sold before it is bought, save one that is
\* bought on a bar of the next day (run_session.py:190 and 236): a sale is executed on the
\* last bar, what it sells was bought before, and what is bought is bought by then.
THEOREM NothingSoldUnbought == SessionSpec => []SoldAfterBought
<1>1. SessionInit => ClockInv
  <2> SUFFICES ASSUME SessionInit PROVE ClockInv
    OBVIOUS
  <2>1. SharesCovered
    BY InitCover DEF SessionInit, CoverInv
  <2>2. stamps = <<>> /\ fills = <<>>
    BY DEF SessionInit, Init
  <2>3. QED
    BY <2>1, <2>2 DEF ClockInv
<1>2. SessionInv /\ SessionInv' /\ ClockInv /\ [SessionNext]_allVars => ClockInv'
  BY ClockStep
<1>3. QED
  BY <1>1, <1>2, ClockMeans, SessionInvariance, PTL DEF SessionSpec
=============================================================================
