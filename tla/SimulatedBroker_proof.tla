----------------------- MODULE SimulatedBroker_proof -----------------------
(***************************************************************************)
(* Proofs about the simulated broker, for any sets of instruments, keys,   *)
(* orders, quotes and executions, and any finite set of order ids.  First  *)
(* its state: it is well formed, an order's state tells how far it is      *)
(* filled, one intent is placed at most once, a terminal order is final.   *)
(* Then its accounts: the books are sums over one list of fills, shares    *)
(* and cash cover what is committed, no new risk is taken after a halt.    *)
(* Last the quote, which is shared out in submission order and not         *)
(* oversold.                                                               *)
(***************************************************************************)
EXTENDS SimulatedBroker, Collections_proof

\* The key table knows every accepted order.  OneOrderPerIntent is not inductive by
\* itself: it needs that a key not in the table is carried by no accepted order.
KeysAreRegistered ==
  \A i \in OrderIds :
    orders[i].key # NoKey /\ Known(i) /\ orders[i].state # "REJECTED"
      => keys[orders[i].key] = i

\* What every step of the broker preserves.
IInv == TypeOK /\ StateMatchesFilled /\ KeysAreRegistered

\* A step of the broker, given any order, quote and execution.
Step ==
  \/ \E i \in OrderIds, o \in FreshOrders :
       \/ Reject(i, o)
       \/ \E q \in QuoteType \cup {NoQuote} : Accept(i, o, q)
  \/ \E i \in OrderIds : Cancel(i)
  \/ \E q \in QuoteType : OnQuote(q)
  \/ Serve
  \/ \E i \in OrderIds, q \in Nat, p \in Nat : Report(i, q, p)
  \/ MarkStateUnknown
  \/ Engage
  \/ Release

\* One of a broker to which no execution is reported from outside.
QuietStep ==
  \/ \E i \in OrderIds, o \in FreshOrders :
       \/ Reject(i, o)
       \/ \E q \in QuoteType \cup {NoQuote} : Accept(i, o, q)
  \/ \E i \in OrderIds : Cancel(i)
  \/ \E q \in QuoteType : OnQuote(q)
  \/ Serve
  \/ MarkStateUnknown
  \/ Engage
  \/ Release

\* Every step is quiet or a report.
LEMMA StepIsQuietOrReport ==
  [Step]_vars <=> [QuietStep]_vars \/ \E i \in OrderIds, q \in Nat, p \in Nat : Report(i, q, p)
BY DEF Step, QuietStep

\* Those of the model are among them.
LEMMA NextIsStep == [Next]_vars => [Step]_vars
BY BrokerConstants DEF Next, Submit, Step

\* No quote is served at first, and that has the shape of one.
LEMMA NoQuoteTyped == NoQuote \in ServedType
BY DEF NoQuote, ServedType

\* A new broker satisfies the invariant.
LEMMA InitIInv == Init => IInv
<1> SUFFICES ASSUME Init PROVE IInv
  OBVIOUS
<1>1. TypeOK
  <2>1. orders \in [OrderIds -> OrderType \cup {Unknown}]
    BY DEF Init
  <2>2. queue \in Seq(OrderIds) /\ fills \in Seq(Fills)
    BY DEF Init
  <2>6. held \in [Symbols -> Int] /\ cash \in Int
    BY BrokerConstants DEF Init
  <2>7. problems \in BOOLEAN /\ halted \in BOOLEAN
    BY DEF Init
  <2>3. keys \in [Keys -> OrderIds \cup {NoOrder}]
    BY DEF Init
  <2>4. quote \in ServedType
    BY NoQuoteTyped DEF Init
  <2>5. QED
    BY <2>1, <2>2, <2>3, <2>4, <2>6, <2>7 DEF TypeOK
<1>2. StateMatchesFilled
  BY DEF Init, StateMatchesFilled, Unknown
<1>3. KeysAreRegistered
  BY DEF Init, KeysAreRegistered, Unknown, Known
<1>4. QED
  BY <1>1, <1>2, <1>3 DEF IInv

\* A fresh order put in the place of an unknown one, accepted or refused.
LEMMA NewOrderTyped ==
  ASSUME TypeOK, NEW i \in OrderIds, NEW o \in FreshOrders, NEW s \in States
  PROVE  [orders EXCEPT ![i] = [o EXCEPT !.state = s]]
           \in [OrderIds -> OrderType \cup {Unknown}]
<1>1. o \in OrderType
  BY DEF FreshOrders
<1>2. [o EXCEPT !.state = s] \in OrderType
  BY <1>1 DEF OrderType
<1>3. QED
  BY <1>2 DEF TypeOK

\* An opened quote has the type of the quote being served.
LEMMA OpenedTyped ==
  ASSUME TypeOK, NEW q \in QuoteType, NEW place \in Nat
  PROVE  Opened(q, place) \in ServedType
<1>1. q \in QuoteType
  OBVIOUS
<1>2. Len(fills) \in Nat
  BY DEF TypeOK
<1>3. QED
  BY <1>1, <1>2 DEF Opened, QuoteType, ServedType


\* Adding to one position leaves a position book.
LEMMA PostedTyped ==
  ASSUME NEW h \in [Symbols -> Int], NEW s \in Symbols, NEW c \in Int
  PROVE  [h EXCEPT ![s] = @ + c] \in [Symbols -> Int]
OBVIOUS

\* One execution keeps the order, the fill list and the books well formed.
LEMMA ApplyFillTyped ==
  ASSUME TypeOK, StateMatchesFilled,
         NEW i \in OrderIds, NEW q \in Nat, NEW p \in Nat, ApplyFill(i, q, p)
  PROVE  /\ orders' \in [OrderIds -> OrderType \cup {Unknown}]
         /\ fills' \in Seq(Fills)
         /\ held' \in [Symbols -> Int]
         /\ cash' \in Int
         /\ Advanced(i, q) \in OrderType
<1> DEFINE fill == [order |-> i, symbol |-> orders[i].symbol, side |-> orders[i].side,
                    quantity |-> q, price |-> p]
<1>1. orders[i] \in OrderType
  BY DEF ApplyFill, Working, WorkingStates, Unknown, TypeOK
<1>2. fill \in Fills
  BY <1>1 DEF OrderType, Fills
<1>3. Signed(fill) \in Int /\ Signed(fill) * p \in Int
  BY DEF Signed
<1>4. orders[i].filled + q \in Nat
  BY <1>1 DEF OrderType
<1>5. Advanced(i, q) \in OrderType
  BY <1>1, <1>4 DEF Advanced, OrderType, States
<1>6. orders' \in [OrderIds -> OrderType \cup {Unknown}]
  BY <1>5 DEF ApplyFill, TypeOK
<1>7. fills' \in Seq(Fills)
  BY <1>2 DEF ApplyFill, TypeOK
<1>8. held' \in [Symbols -> Int] /\ cash' \in Int
  <2>1. held' = [held EXCEPT ![fill.symbol] = @ + Signed(fill)]
    BY DEF ApplyFill, PostToBook
  <2>2. cash' = cash - Signed(fill) * p
    BY DEF ApplyFill, PostToBook
  <2>3. held' \in [Symbols -> Int]
    <3>1. held \in [Symbols -> Int]
      BY DEF TypeOK
    <3>2. fill.symbol \in Symbols
      BY <1>1 DEF OrderType
    <3>3. QED
      BY ONLY <1>3, <2>1, <3>1, <3>2, PostedTyped
  <2>4. QED
    BY <1>3, <2>2, <2>3 DEF TypeOK
<1>9. QED
  BY <1>5, <1>6, <1>7, <1>8

\* The pool a quote has left stays a size: a fill takes no more than the pool holds.
LEMMA DrainedTyped ==
  ASSUME TypeOK, StateMatchesFilled, NEW n \in 1 .. Len(queue), Fillable(n)
  PROVE  /\ FillSize(queue[n]) \in Nat
         /\ MarketablePrice(queue[n]) \in Nat
         /\ Drained(n, FillSize(queue[n])) \in ServedType
<1> DEFINE i == queue[n]
<1>1. i \in OrderIds /\ quote \in ServedType
  BY DEF TypeOK
<1>2. orders[i] \in OrderType
  BY <1>1 DEF Fillable, Working, WorkingStates, Unknown, TypeOK
<1>3. Remaining(i) \in Nat
  BY <1>1, <1>2 DEF Fillable, Working, WorkingStates, StateMatchesFilled, Remaining, OrderType
<1> HIDE DEF i
<1>4. quote.pool[orders[i].side] \in Nat
  BY <1>1, <1>2 DEF ServedType, OrderType
<1>5. FillSize(i) \in Nat /\ FillSize(i) <= quote.pool[orders[i].side]
  BY <1>3, <1>4 DEF FillSize
<1>6. MarketablePrice(i) \in Nat
  BY <1>1 DEF MarketablePrice, ServedType
<1>7. Drained(n, FillSize(i)) \in ServedType
  <2>1. Drained(n, FillSize(i)) =
          [quote EXCEPT !.at = n, !.pool[orders[i].side] = @ - FillSize(i)]
    BY DEF Drained, i
  <2>2. quote.pool[orders[i].side] - FillSize(i) \in Nat
    BY <1>4, <1>5
  <2>3. [quote.pool EXCEPT ![orders[i].side] = @ - FillSize(i)] \in [Sides -> Nat]
    BY <1>1, <2>2 DEF ServedType
  <2>4. n \in Nat
    BY DEF TypeOK
  <2>5. QED
    BY <1>1, <2>1, <2>3, <2>4 DEF ServedType
<1>8. QED
  BY <1>5, <1>6, <1>7 DEF i

\* One execution moves an order along its states as far as its quantity allows.
LEMMA ApplyFillMatches ==
  ASSUME TypeOK, StateMatchesFilled,
         NEW i \in OrderIds, NEW q \in Nat, NEW p \in Nat, ApplyFill(i, q, p)
  PROVE  StateMatchesFilled'
<1>1. orders[i] \in OrderType
  BY DEF ApplyFill, Working, WorkingStates, Unknown, TypeOK
<1>2. orders' = [orders EXCEPT ![i] = Advanced(i, q)]
  BY DEF ApplyFill
<1>3. orders'[i] = Advanced(i, q)
  BY <1>2 DEF TypeOK
<1>4. q > 0 /\ q <= orders[i].quantity - orders[i].filled
  BY DEF ApplyFill, Remaining
<1>5. /\ Advanced(i, q).quantity = orders[i].quantity
      /\ Advanced(i, q).filled = orders[i].filled + q
      /\ Advanced(i, q).state = IF orders[i].filled + q >= orders[i].quantity
                                THEN "FILLED" ELSE "PARTIALLY_FILLED"
  BY <1>1 DEF Advanced, OrderType
<1>6. ASSUME NEW j \in OrderIds, j # i
      PROVE  orders'[j] = orders[j]
  BY <1>2, <1>6 DEF TypeOK
<1>7. orders[i].filled \in Nat /\ orders[i].quantity \in Nat
  BY <1>1 DEF OrderType
<1>8. SUFFICES ASSUME NEW j \in OrderIds
               PROVE  /\ orders'[j].state \in {"PENDING", "OPEN", "REJECTED"} => orders'[j].filled = 0
                      /\ orders'[j].state = "PARTIALLY_FILLED" =>
                           0 < orders'[j].filled /\ orders'[j].filled < orders'[j].quantity
                      /\ orders'[j].state = "FILLED" => orders'[j].filled = orders'[j].quantity
                      /\ orders'[j].state = "CANCELLED" => orders'[j].filled < orders'[j].quantity
  BY DEF StateMatchesFilled
<1>9. CASE j = i
  BY <1>3, <1>4, <1>5, <1>7, <1>9
<1>10. CASE j # i
  BY <1>6, <1>10 DEF StateMatchesFilled
<1>11. QED
  BY <1>9, <1>10

\* One execution leaves an order accepted under the key it was accepted under.
LEMMA ApplyFillKeys ==
  ASSUME TypeOK, KeysAreRegistered,
         NEW i \in OrderIds, NEW q \in Nat, NEW p \in Nat, ApplyFill(i, q, p)
  PROVE  KeysAreRegistered'
<1>1. orders[i] \in OrderType /\ orders[i].state \in WorkingStates
  BY DEF ApplyFill, Working, WorkingStates, Unknown, TypeOK
<1>2. orders' = [orders EXCEPT ![i] = Advanced(i, q)] /\ keys' = keys
  BY DEF ApplyFill
<1>3. orders'[i].key = orders[i].key
  BY <1>1, <1>2 DEF Advanced, OrderType, TypeOK
<1>4. ASSUME NEW j \in OrderIds, j # i
      PROVE  orders'[j] = orders[j]
  BY <1>2, <1>4 DEF TypeOK
<1>5. orders[i].key # NoKey => keys[orders[i].key] = i
  BY <1>1 DEF KeysAreRegistered, Known, WorkingStates
<1>6. QED
  BY <1>2, <1>3, <1>4, <1>5 DEF KeysAreRegistered, Known

\* A fresh order replaces nothing: no other order changes, and the state it is
\* given is the only thing that is not the caller's.
LEMMA PutOrder ==
  ASSUME TypeOK, NEW i \in OrderIds, NEW o \in FreshOrders, NEW s \in States,
         orders' = [orders EXCEPT ![i] = [o EXCEPT !.state = s]]
  PROVE  /\ orders'[i].state = s /\ orders'[i].filled = 0
         /\ orders'[i].key = o.key /\ orders'[i].quantity > 0
         /\ \A j \in OrderIds : j # i => orders'[j] = orders[j]
<1>1. o \in OrderType /\ o.filled = 0
  BY DEF FreshOrders
<1>2. orders'[i] = [o EXCEPT !.state = s]
  BY DEF TypeOK
<1>3. /\ orders'[i].state = s /\ orders'[i].filled = 0
      /\ orders'[i].key = o.key /\ orders'[i].quantity > 0
  BY <1>1, <1>2 DEF OrderType
<1>4. QED
  BY <1>3 DEF TypeOK

\* A submission that is rejected keeps the invariant.
LEMMA RejectPreserves ==
  ASSUME IInv, NEW i \in OrderIds, NEW o \in FreshOrders, Reject(i, o)
  PROVE  IInv'
<1> USE DEF IInv
<1>1. "REJECTED" \in States
  BY DEF States
<1>2. orders' = [orders EXCEPT ![i] = [o EXCEPT !.state = "REJECTED"]]
  BY DEF Reject
<1>3. TypeOK'
  <2>1. orders' \in [OrderIds -> OrderType \cup {Unknown}]
    BY <1>1, <1>2, NewOrderTyped
  <2>2. queue' \in Seq(OrderIds)
    BY DEF Reject, TypeOK
  <2>3. quote' \in ServedType
    BY NoQuoteTyped DEF Reject
  <2>4. QED
    BY <2>1, <2>2, <2>3 DEF Reject, TypeOK
<1>4. StateMatchesFilled'
  <2>1. orders'[i].state = "REJECTED" /\ orders'[i].filled = 0
    BY <1>1, <1>2, PutOrder
  <2>2. \A j \in OrderIds : j # i => orders'[j] = orders[j]
    BY <1>1, <1>2, PutOrder
  <2>3. QED
    BY <2>1, <2>2 DEF StateMatchesFilled
<1>5. KeysAreRegistered'
  <2>1. keys' = keys
    BY DEF Reject
  <2>2. QED
    BY <1>1, <1>2, <2>1, PutOrder DEF KeysAreRegistered, Known
<1>6. QED
  BY <1>3, <1>4, <1>5

\* One that is accepted keeps it: the key it takes was free.
LEMMA AcceptPreserves ==
  ASSUME IInv, NEW i \in OrderIds, NEW o \in FreshOrders,
         NEW q \in QuoteType \cup {NoQuote}, Accept(i, o, q)
  PROVE  IInv'
<1> USE DEF IInv
<1>1. "OPEN" \in States
  BY DEF States
<1>2. orders' = [orders EXCEPT ![i] = [o EXCEPT !.state = "OPEN"]]
  BY DEF Accept
<1>3. TypeOK'
  <2>1. orders' \in [OrderIds -> OrderType \cup {Unknown}]
    BY <1>1, <1>2, NewOrderTyped
  <2>2. queue' \in Seq(OrderIds)
    BY DEF Accept, TypeOK
  <2>3. quote' \in ServedType
    <3>1. CASE q = NoQuote
      BY <3>1, NoQuoteTyped DEF Accept
    <3>2. CASE q # NoQuote
      <4>1. q \in QuoteType /\ Len(queue) \in Nat
        BY <3>2 DEF TypeOK
      <4>2. quote' = Opened(q, Len(queue))
        BY <3>2 DEF Accept
      <4>3. QED
        BY <4>1, <4>2, OpenedTyped
    <3>3. QED
      BY <3>1, <3>2
  <2>4. keys' \in [Keys -> OrderIds \cup {NoOrder}]
    BY DEF Accept, RegisterKey, TypeOK
  <2>5. UNCHANGED <<fills, held, cash, problems, halted>>
    BY DEF Accept
  <2>6. QED
    BY <2>1, <2>2, <2>3, <2>4, <2>5 DEF TypeOK
<1>4. StateMatchesFilled'
  <2>1. orders'[i].state = "OPEN" /\ orders'[i].filled = 0
    BY <1>1, <1>2, PutOrder
  <2>2. \A j \in OrderIds : j # i => orders'[j] = orders[j]
    BY <1>1, <1>2, PutOrder
  <2>3. QED
    BY <2>1, <2>2 DEF StateMatchesFilled
<1>5. KeysAreRegistered'
  <2>1. SUFFICES ASSUME NEW j \in OrderIds, orders'[j].key # NoKey,
                        Known(j)', orders'[j].state # "REJECTED"
                 PROVE  keys'[orders'[j].key] = j
    BY DEF KeysAreRegistered
  <2>2. CASE j = i
    <3>1. orders'[i].key = o.key
      BY <1>1, <1>2, PutOrder
    <3>2. o.key \in Keys
      BY <2>1, <2>2, <3>1 DEF OrderType, FreshOrders
    <3>3. keys' = [keys EXCEPT ![o.key] = i]
      BY <2>1, <2>2, <3>1 DEF Accept, RegisterKey
    <3>4. QED
      BY <2>2, <3>1, <3>2, <3>3 DEF TypeOK
  <2>3. CASE j # i
    <3>1. orders'[j] = orders[j]
      BY <1>1, <1>2, <2>3, PutOrder
    <3>2. keys[orders[j].key] = j
      BY <2>1, <3>1 DEF KeysAreRegistered, Known
    <3>3. o.key # orders[j].key
      <4>1. o.key # NoKey => keys[o.key] = NoOrder
        BY DEF Accept, MaySubmit
      <4>2. QED
        BY <2>1, <3>1, <3>2, <4>1, BrokerConstants
    <3>4. keys'[orders[j].key] = keys[orders[j].key]
      BY <3>3 DEF Accept, RegisterKey, TypeOK
    <3>5. QED
      BY <3>1, <3>2, <3>4
  <2>4. QED
    BY <2>2, <2>3
<1>6. QED
  BY <1>3, <1>4, <1>5

\* A cancel keeps it.
LEMMA CancelPreserves ==
  ASSUME IInv, NEW i \in OrderIds, Cancel(i)
  PROVE  IInv'
<1> USE DEF IInv
<1>1. orders[i] \in OrderType /\ orders[i].state \in WorkingStates
  BY DEF Cancel, Known, Terminal, TerminalStates, WorkingStates, Unknown, TypeOK, OrderType, States
<1>2. orders' = [orders EXCEPT ![i].state = "CANCELLED"]
  BY DEF Cancel
<1>3. /\ orders'[i] \in OrderType /\ orders'[i].state = "CANCELLED"
      /\ orders'[i].filled = orders[i].filled /\ orders'[i].quantity = orders[i].quantity
      /\ orders'[i].key = orders[i].key
  BY <1>1, <1>2 DEF OrderType, States, TypeOK
<1>4. ASSUME NEW j \in OrderIds, j # i
      PROVE  orders'[j] = orders[j]
  BY <1>2, <1>4 DEF TypeOK
<1>5. TypeOK'
  <2>1. orders' \in [OrderIds -> OrderType \cup {Unknown}]
    BY <1>2, <1>3, <1>4 DEF TypeOK
  <2>2. quote' \in ServedType
    BY NoQuoteTyped DEF Cancel
  <2>3. QED
    BY <2>1, <2>2 DEF Cancel, TypeOK
<1>6. StateMatchesFilled'
  <2>1. orders[i].filled < orders[i].quantity
    BY <1>1 DEF StateMatchesFilled, WorkingStates, OrderType
  <2>2. QED
    BY <1>3, <1>4, <2>1 DEF StateMatchesFilled
<1>7. KeysAreRegistered'
  <2>1. keys' = keys
    BY DEF Cancel
  <2>2. orders[i].key # NoKey => keys[orders[i].key] = i
    BY <1>1 DEF KeysAreRegistered, Known, WorkingStates
  <2>3. QED
    BY <1>3, <1>4, <2>1, <2>2 DEF KeysAreRegistered, Known
<1>8. QED
  BY <1>5, <1>6, <1>7

\* An execution with a natural quantity and price, and a well-formed quote after it,
\* preserves the invariant: the part Serve and Report share.
LEMMA ApplyFillPreserves ==
  ASSUME IInv, NEW i \in OrderIds, NEW q \in Nat, NEW p \in Nat,
         ApplyFill(i, q, p), quote' \in ServedType
  PROVE  IInv'
<1>1. TypeOK /\ StateMatchesFilled /\ KeysAreRegistered
  BY DEF IInv
<1>2. UNCHANGED <<queue, keys, problems, halted>>
  BY DEF ApplyFill
<1>3. TypeOK'
  <2>1. /\ orders' \in [OrderIds -> OrderType \cup {Unknown}]
        /\ fills' \in Seq(Fills)
        /\ held' \in [Symbols -> Int]
        /\ cash' \in Int
    BY <1>1, ApplyFillTyped
  <2>2. QED
    BY <1>1, <1>2, <2>1 DEF TypeOK
<1>4. StateMatchesFilled'
  BY <1>1, ApplyFillMatches
<1>5. KeysAreRegistered'
  BY <1>1, ApplyFillKeys
<1>6. QED
  BY <1>3, <1>4, <1>5 DEF IInv

\* A fill from the quote being served keeps it.
LEMMA ServePreserves ==
  ASSUME IInv, Serve
  PROVE  IInv'
<1>1. TypeOK /\ StateMatchesFilled
  BY DEF IInv
<1>2. PICK n \in quote.at + 1 .. Len(queue) :
        /\ NextFilled(n)
        /\ ApplyFill(queue[n], FillSize(queue[n]), MarketablePrice(queue[n]))
        /\ quote' = Drained(n, FillSize(queue[n]))
  BY DEF Serve
<1>3. n \in 1 .. Len(queue)
  BY <1>1 DEF TypeOK, ServedType
<1>4. queue[n] \in OrderIds
  BY <1>1, <1>3 DEF TypeOK
<1>5. Fillable(n)
  BY <1>2 DEF NextFilled
<1>6. /\ FillSize(queue[n]) \in Nat
      /\ MarketablePrice(queue[n]) \in Nat
      /\ quote' \in ServedType
  BY <1>1, <1>2, <1>3, <1>5, DrainedTyped
<1>7. QED
  BY <1>2, <1>4, <1>6, ApplyFillPreserves

\* A fill reported from outside keeps it: it fits what remains.
LEMMA ReportPreserves ==
  ASSUME IInv, NEW i \in OrderIds, NEW q \in Nat, NEW p \in Nat, Report(i, q, p)
  PROVE  IInv'
<1>1. ApplyFill(i, q, p)
  BY DEF Report
<1>2. quote' \in ServedType
  BY NoQuoteTyped DEF Report
<1>3. QED
  BY <1>1, <1>2, ApplyFillPreserves

\* The steps that touch no order and no key.
LEMMA OtherPreserves ==
  ASSUME IInv, \/ \E q \in QuoteType : OnQuote(q)
               \/ MarkStateUnknown \/ Engage \/ Release \/ UNCHANGED vars
  PROVE  IInv'
<1>1. TypeOK /\ StateMatchesFilled /\ KeysAreRegistered
  BY DEF IInv
<1>2. UNCHANGED <<orders, queue, fills, held, cash, keys>>
  BY DEF OnQuote, MarkStateUnknown, Engage, Release, vars
<1>3. quote' \in ServedType
  <2>1. ASSUME NEW q \in QuoteType, OnQuote(q)
        PROVE  quote' \in ServedType
    BY <1>1, <2>1, OpenedTyped DEF OnQuote
  <2>2. ASSUME MarkStateUnknown \/ Engage \/ Release \/ UNCHANGED vars
        PROVE  quote' \in ServedType
    BY <1>1, <2>2 DEF MarkStateUnknown, Engage, Release, vars, TypeOK
  <2>3. QED
    BY <2>1, <2>2
<1>4. problems' \in BOOLEAN /\ halted' \in BOOLEAN
  BY <1>1 DEF OnQuote, MarkStateUnknown, Engage, Release, vars, TypeOK
<1>5. TypeOK'
  BY <1>1, <1>2, <1>3, <1>4 DEF TypeOK
<1>6. StateMatchesFilled'
  BY <1>1, <1>2 DEF StateMatchesFilled
<1>7. KeysAreRegistered'
  BY <1>1, <1>2 DEF KeysAreRegistered, Known
<1>8. QED
  BY <1>5, <1>6, <1>7 DEF IInv

\* Every step of the broker keeps the invariant.
LEMMA StepPreserves == IInv /\ [Step]_vars => IInv'
<1> SUFFICES ASSUME IInv, [Step]_vars PROVE IInv'
  OBVIOUS
<1>1. ASSUME NEW i \in OrderIds, NEW o \in FreshOrders, Reject(i, o)
      PROVE  IInv'
  BY <1>1, RejectPreserves
<1>2. ASSUME NEW i \in OrderIds, NEW o \in FreshOrders,
             NEW q \in QuoteType \cup {NoQuote}, Accept(i, o, q)
      PROVE  IInv'
  BY <1>2, AcceptPreserves
<1>3. ASSUME NEW i \in OrderIds, Cancel(i)
      PROVE  IInv'
  BY <1>3, CancelPreserves
<1>4. CASE Serve
  BY <1>4, ServePreserves
<1>5. ASSUME NEW i \in OrderIds, NEW q \in Nat, NEW p \in Nat, Report(i, q, p)
      PROVE  IInv'
  BY <1>5, ReportPreserves
<1>6. CASE \/ \E q \in QuoteType : OnQuote(q)
           \/ MarkStateUnknown \/ Engage \/ Release \/ UNCHANGED vars
  BY <1>6, OtherPreserves
<1>7. QED
  BY <1>1, <1>2, <1>3, <1>4, <1>5, <1>6 DEF Step

\* The invariant holds in every reachable state.
THEOREM Invariance == Spec => []IInv
BY InitIInv, StepPreserves, NextIsStep, PTL DEF Spec

\* The broker's state is well formed, whatever is submitted, quoted and reported.
THEOREM TypeCorrect == Spec => []TypeOK
<1>1. IInv => TypeOK
  BY DEF IInv
<1>2. QED
  BY <1>1, Invariance, PTL

\* An order's state says how far it is filled, and none is filled past its quantity
\* (apply_fill).
THEOREM NeverOverfilled == Spec => []StateMatchesFilled
<1>1. IInv => StateMatchesFilled
  BY DEF IInv
<1>2. QED
  BY <1>1, Invariance, PTL

\* Of the orders that carry one idempotency key at most one was ever accepted, with
\* any number of orders, keys, refusals and retries (submit).
THEOREM IntentPlacedOnce == Spec => []OneOrderPerIntent
<1>1. IInv => OneOrderPerIntent
  BY DEF IInv, KeysAreRegistered, OneOrderPerIntent
<1>2. QED
  BY <1>1, Invariance, PTL

\* A step of the broker leaves the terminal orders as they are.
LEMMA StepKeepsTerminal ==
  ASSUME IInv, [Step]_vars, NEW i \in OrderIds, Terminal(i)
  PROVE  orders'[i] = orders[i]
<1>1. TypeOK /\ Known(i) /\ ~Working(i)
  BY DEF IInv, Terminal, TerminalStates, Known, Working, WorkingStates
<1>2. ASSUME NEW j \in OrderIds, NEW o \in FreshOrders, Reject(j, o)
      PROVE  orders'[i] = orders[i]
  BY <1>1, <1>2 DEF Reject, MaySubmit, TypeOK
<1>3. ASSUME NEW j \in OrderIds, NEW o \in FreshOrders,
             NEW q \in QuoteType \cup {NoQuote}, Accept(j, o, q)
      PROVE  orders'[i] = orders[i]
  BY <1>1, <1>3 DEF Accept, MaySubmit, TypeOK
<1>4. ASSUME NEW j \in OrderIds, Cancel(j)
      PROVE  orders'[i] = orders[i]
  BY <1>1, <1>4 DEF Cancel, TypeOK
<1>5. ASSUME NEW j \in OrderIds, NEW q, NEW p, ApplyFill(j, q, p)
      PROVE  orders'[i] = orders[i]
  BY <1>1, <1>5 DEF ApplyFill, TypeOK
<1>6. CASE Serve
  <2>1. PICK n \in quote.at + 1 .. Len(queue) :
          ApplyFill(queue[n], FillSize(queue[n]), MarketablePrice(queue[n]))
    BY <1>6 DEF Serve
  <2>2. queue[n] \in OrderIds
    BY <1>1 DEF TypeOK, ServedType
  <2>3. QED
    BY <1>5, <2>1, <2>2
<1>7. ASSUME NEW j \in OrderIds, NEW q \in Nat, NEW p \in Nat, Report(j, q, p)
      PROVE  orders'[i] = orders[i]
  BY <1>5, <1>7 DEF Report
<1>8. CASE \/ \E q \in QuoteType : OnQuote(q)
           \/ MarkStateUnknown \/ Engage \/ Release \/ UNCHANGED vars
  BY <1>8 DEF OnQuote, MarkStateUnknown, Engage, Release, vars
<1>9. QED
  BY <1>2, <1>3, <1>4, <1>6, <1>7, <1>8 DEF Step

\* Filled, cancelled and rejected orders are final: no cancel, quote, report or
\* resubmission ever touches one again (OrderState.is_terminal).
THEOREM TerminalOrdersAreFinal == Spec => TerminalIsFinal
<1>1. IInv /\ [Next]_vars
        => [\A i \in OrderIds : Terminal(i) => orders'[i] = orders[i]]_vars
  BY StepKeepsTerminal, NextIsStep
<1>2. QED
  BY <1>1, Invariance, PTL DEF Spec, TerminalIsFinal

(***************************************************************************)
(* What one order counts for in the sums the broker takes.                 *)
(***************************************************************************)
Selling(i, s) ==
  IF Working(i) /\ orders[i].side = "SELL" /\ orders[i].symbol = s THEN Remaining(i) ELSE 0

Buying(i, s) ==
  IF Working(i) /\ orders[i].side = "BUY" /\ orders[i].symbol = s THEN Remaining(i) ELSE 0

Owing(i) ==
  IF Working(i) /\ orders[i].side = "BUY" /\ orders[i].limit # NoLimit
  THEN Remaining(i) * orders[i].limit ELSE 0

\* A working order is one a caller submitted, with something left to fill.
LEMMA WorkingOrder ==
  IInv => \A i \in OrderIds : Working(i) => /\ orders[i] \in OrderType
                                            /\ Remaining(i) \in Nat \ {0}
<1> SUFFICES ASSUME IInv, NEW i \in OrderIds, Working(i)
             PROVE  orders[i] \in OrderType /\ Remaining(i) \in Nat \ {0}
  OBVIOUS
<1>1. orders[i] \in OrderType
  BY DEF IInv, Working, WorkingStates, Unknown, TypeOK
<1>2. orders[i].filled < orders[i].quantity
  BY <1>1 DEF IInv, Working, WorkingStates, StateMatchesFilled, OrderType
<1>3. QED
  BY <1>1, <1>2 DEF Remaining, OrderType

CountsAreNatural ==
  \A i \in OrderIds : /\ Owing(i) \in Nat
                      /\ \A s : Selling(i, s) \in Nat /\ Buying(i, s) \in Nat

CommittedAreSums ==
  /\ \A s : CommittedShares(s) = SumFunctionOnSet([i \in OrderIds |-> Selling(i, s)], OrderIds)
  /\ \A s : Exposure(s) = held[s] + SumFunctionOnSet([i \in OrderIds |-> Buying(i, s)], OrderIds)
  /\ CommittedCash = SumFunctionOnSet([i \in OrderIds |-> Owing(i)], OrderIds)

\* It counts for a natural number in each of them.
LEMMA Counts == IInv => CountsAreNatural
<1> SUFFICES ASSUME IInv, NEW i \in OrderIds
             PROVE  /\ Owing(i) \in Nat
                    /\ \A s : Selling(i, s) \in Nat /\ Buying(i, s) \in Nat
  BY DEF CountsAreNatural
<1>1. Working(i) => Remaining(i) \in Nat
  BY WorkingOrder
<1>2. Working(i) /\ orders[i].limit # NoLimit => orders[i].limit \in Nat
  BY WorkingOrder DEF OrderType
<1>3. Owing(i) \in Nat
  <2>1. CASE Working(i) /\ orders[i].side = "BUY" /\ orders[i].limit # NoLimit
    <3>1. Owing(i) = Remaining(i) * orders[i].limit
      BY <2>1 DEF Owing
    <3>2. \A a, b \in Nat : a * b \in Nat
      OBVIOUS
    <3>3. QED
      BY <1>1, <1>2, <2>1, <3>1, <3>2
  <2>2. CASE ~(Working(i) /\ orders[i].side = "BUY" /\ orders[i].limit # NoLimit)
    BY <2>2 DEF Owing
  <2>3. QED
    BY <2>1, <2>2
<1>4. QED
  BY <1>1, <1>3 DEF Selling, Buying

\* What is committed and what is still to be bought, as sums over every id.
LEMMA CommittedSums == IInv => CommittedAreSums
<1> SUFFICES ASSUME IInv
             PROVE  CommittedAreSums
  OBVIOUS
<1>1. IsFiniteSet(OrderIds)
  BY BrokerConstants
<1>2. ASSUME NEW s
      PROVE  CommittedShares(s) = SumFunctionOnSet([i \in OrderIds |-> Selling(i, s)], OrderIds)
  <2> DEFINE T == {i \in OrderIds : Working(i) /\ orders[i].side = "SELL" /\ orders[i].symbol = s}
             f == [i \in T |-> Remaining(i)]
             g == [i \in OrderIds |-> Selling(i, s)]
  <2>1. CommittedShares(s) = SumFunctionOnSet(f, T)
    BY DEF CommittedShares, SumFunction
  <2>2. /\ \A i \in T : f[i] \in Int /\ g[i] = f[i]
        /\ \A i \in OrderIds \ T : g[i] = 0
    BY WorkingOrder DEF Selling
  <2>3. T \in SUBSET OrderIds
    OBVIOUS
  <2> HIDE DEF T, f, g
  <2>4. SumFunctionOnSet(g, OrderIds) = SumFunctionOnSet(f, T)
    BY <1>1, <2>2, <2>3, SumWhere
  <2>5. QED
    BY <2>1, <2>4 DEF g
<1>3. ASSUME NEW s
      PROVE  Exposure(s) = held[s] + SumFunctionOnSet([i \in OrderIds |-> Buying(i, s)], OrderIds)
  <2> DEFINE T == {i \in OrderIds : Working(i) /\ orders[i].side = "BUY" /\ orders[i].symbol = s}
             f == [i \in T |-> Remaining(i)]
             g == [i \in OrderIds |-> Buying(i, s)]
  <2>1. Exposure(s) = held[s] + SumFunctionOnSet(f, T)
    BY DEF Exposure, SumFunction
  <2>2. /\ \A i \in T : f[i] \in Int /\ g[i] = f[i]
        /\ \A i \in OrderIds \ T : g[i] = 0
    BY WorkingOrder DEF Buying
  <2>3. T \in SUBSET OrderIds
    OBVIOUS
  <2> HIDE DEF T, f, g
  <2>4. SumFunctionOnSet(g, OrderIds) = SumFunctionOnSet(f, T)
    BY <1>1, <2>2, <2>3, SumWhere
  <2>5. QED
    BY <2>1, <2>4 DEF g
<1>4. CommittedCash = SumFunctionOnSet([i \in OrderIds |-> Owing(i)], OrderIds)
  <2> DEFINE T == {i \in OrderIds : Working(i) /\ orders[i].side = "BUY" /\ orders[i].limit # NoLimit}
             f == [i \in T |-> Remaining(i) * orders[i].limit]
             g == [i \in OrderIds |-> Owing(i)]
  <2>1. CommittedCash = SumFunctionOnSet(f, T)
    BY DEF CommittedCash, SumFunction
  <2>2. /\ \A i \in T : f[i] \in Int /\ g[i] = f[i]
        /\ \A i \in OrderIds \ T : g[i] = 0
    <3>1. \A i \in T : f[i] = Owing(i)
      BY DEF Owing
    <3>2. \A i \in T : Owing(i) \in Int
      BY Counts DEF CountsAreNatural
    <3>3. \A i \in OrderIds \ T : g[i] = 0
      BY DEF Owing
    <3>4. QED
      BY <3>1, <3>2, <3>3
  <2>3. T \in SUBSET OrderIds
    OBVIOUS
  <2> HIDE DEF T, f, g
  <2>4. SumFunctionOnSet(g, OrderIds) = SumFunctionOnSet(f, T)
    BY <1>1, <2>2, <2>3, SumWhere
  <2>5. QED
    BY <2>1, <2>4 DEF g
<1>5. QED
  BY <1>2, <1>3, <1>4 DEF CommittedAreSums

\* No fewer than no shares are committed.
LEMMA CommittedIsNatural == IInv => \A s : CommittedShares(s) \in Int /\ CommittedShares(s) >= 0
<1> SUFFICES ASSUME IInv, NEW s PROVE CommittedShares(s) \in Int /\ CommittedShares(s) >= 0
  OBVIOUS
<1> DEFINE f == [j \in OrderIds |-> Selling(j, s)]
           z == [j \in OrderIds |-> 0]
<1>1. \A j \in OrderIds : f[j] \in Int /\ z[j] \in Int /\ z[j] <= f[j]
  BY Counts DEF CountsAreNatural
<1>2. CommittedShares(s) = SumFunctionOnSet(f, OrderIds)
  BY CommittedSums DEF CommittedAreSums
<1>3. \A j \in OrderIds : z[j] = 0
  OBVIOUS
<1>4. IsFiniteSet(OrderIds)
  BY BrokerConstants
<1> HIDE DEF f, z
<1>5. SumFunctionOnSet(z, OrderIds) = 0
  BY <1>3, <1>4, SumOfZeros
<1>6. SumFunctionOnSet(z, OrderIds) <= SumFunctionOnSet(f, OrderIds)
  BY <1>1, <1>4, SumIsMonotonic
<1>7. SumFunctionOnSet(f, OrderIds) \in Int
  BY <1>1, <1>4, SumIsInt
<1>8. QED
  BY ONLY <1>2, <1>5, <1>6, <1>7

\* A step that changes one order changes the sums by what that order counts for.
LEMMA CommittedChange ==
  ASSUME IInv, IInv', NEW k \in OrderIds,
         \A j \in OrderIds \ {k} : orders'[j] = orders[j]
  PROVE  /\ \A s : CommittedShares(s)' = CommittedShares(s) - Selling(k, s) + Selling(k, s)'
         /\ \A s \in Symbols :
              Exposure(s)' = Exposure(s) - held[s] + held'[s] - Buying(k, s) + Buying(k, s)'
         /\ CommittedCash' = CommittedCash - Owing(k) + Owing(k)'
<1> DEFINE F(s) == [j \in OrderIds |-> Selling(j, s)]
           G(s) == [j \in OrderIds |-> Buying(j, s)]
           H == [j \in OrderIds |-> Owing(j)]
<1>1. IsFiniteSet(OrderIds)
  BY BrokerConstants
<1>2. /\ \A s : CommittedShares(s) = SumFunctionOnSet(F(s), OrderIds)
      /\ \A s : Exposure(s) = held[s] + SumFunctionOnSet(G(s), OrderIds)
      /\ CommittedCash = SumFunctionOnSet(H, OrderIds)
  BY CommittedSums DEF CommittedAreSums
<1>3. /\ \A s : CommittedShares(s)' = SumFunctionOnSet(F(s)', OrderIds)
      /\ \A s : Exposure(s)' = held'[s] + SumFunctionOnSet(G(s)', OrderIds)
      /\ CommittedCash' = SumFunctionOnSet(H', OrderIds)
  <2>1. (IInv => CommittedAreSums)'
    BY CommittedSums, PTL
  <2>2. QED
    BY <2>1 DEF CommittedAreSums
<1>4. \A j \in OrderIds : /\ Owing(j) \in Nat
                          /\ \A s : Selling(j, s) \in Nat /\ Buying(j, s) \in Nat
  BY Counts DEF CountsAreNatural
<1>5. \A j \in OrderIds : /\ Owing(j)' \in Nat
                          /\ \A s : Selling(j, s)' \in Nat /\ Buying(j, s)' \in Nat
  <2>1. (IInv => CountsAreNatural)'
    BY Counts, PTL
  <2>2. QED
    BY <2>1 DEF CountsAreNatural
<1>6. \A j \in OrderIds \ {k} : /\ Owing(j)' = Owing(j)
                                /\ \A s : Selling(j, s)' = Selling(j, s) /\ Buying(j, s)' = Buying(j, s)
  BY DEF Owing, Selling, Buying, Working, Remaining
<1>7. ASSUME NEW s
      PROVE  CommittedShares(s)' = CommittedShares(s) - Selling(k, s) + Selling(k, s)'
  <2>1. /\ \A j \in OrderIds : F(s)[j] \in Int /\ F(s)'[j] \in Int
        /\ \A j \in OrderIds \ {k} : F(s)[j] = F(s)'[j]
        /\ F(s)[k] = Selling(k, s) /\ F(s)'[k] = Selling(k, s)'
    BY <1>4, <1>5, <1>6
  <2> HIDE DEF F
  <2>2. SumFunctionOnSet(F(s)', OrderIds) = SumFunctionOnSet(F(s), OrderIds) - F(s)[k] + F(s)'[k]
    <3>1. PICK f, g : f = F(s) /\ g = F(s)'
      OBVIOUS
    <3>2. SumFunctionOnSet(g, OrderIds) = SumFunctionOnSet(f, OrderIds) - f[k] + g[k]
      BY <1>1, <2>1, <3>1, SumChange
    <3>3. QED
      BY <3>1, <3>2
  <2>3. QED
    BY <1>2, <1>3, <2>1, <2>2
<1>8. ASSUME NEW s \in Symbols
      PROVE  Exposure(s)' = Exposure(s) - held[s] + held'[s] - Buying(k, s) + Buying(k, s)'
  <2>1. /\ \A j \in OrderIds : G(s)[j] \in Int /\ G(s)'[j] \in Int
        /\ \A j \in OrderIds \ {k} : G(s)[j] = G(s)'[j]
        /\ G(s)[k] = Buying(k, s) /\ G(s)'[k] = Buying(k, s)'
    BY <1>4, <1>5, <1>6
  <2> HIDE DEF G
  <2>2. SumFunctionOnSet(G(s)', OrderIds) = SumFunctionOnSet(G(s), OrderIds) - G(s)[k] + G(s)'[k]
    <3>1. PICK f, g : f = G(s) /\ g = G(s)'
      OBVIOUS
    <3>2. SumFunctionOnSet(g, OrderIds) = SumFunctionOnSet(f, OrderIds) - f[k] + g[k]
      BY <1>1, <2>1, <3>1, SumChange
    <3>3. QED
      BY <3>1, <3>2
  <2>3. SumFunctionOnSet(G(s), OrderIds) \in Int
    BY <1>1, <2>1, SumIsInt
  <2>4. held[s] \in Int /\ held'[s] \in Int
    BY DEF IInv, TypeOK
  <2>5. Buying(k, s) \in Int /\ Buying(k, s)' \in Int
    BY <1>4, <1>5
  <2>6. Exposure(s) = held[s] + SumFunctionOnSet(G(s), OrderIds)
    BY <1>2
  <2>7. Exposure(s)' = held'[s] + SumFunctionOnSet(G(s)', OrderIds)
    BY <1>3
  <2>8. QED
    BY <2>1, <2>2, <2>3, <2>4, <2>5, <2>6, <2>7
<1>9. CommittedCash' = CommittedCash - Owing(k) + Owing(k)'
  <2>1. /\ \A j \in OrderIds : H[j] \in Int /\ H'[j] \in Int
        /\ \A j \in OrderIds \ {k} : H[j] = H'[j]
        /\ H[k] = Owing(k) /\ H'[k] = Owing(k)'
    BY <1>4, <1>5, <1>6
  <2> HIDE DEF H
  <2>2. SumFunctionOnSet(H', OrderIds) = SumFunctionOnSet(H, OrderIds) - H[k] + H'[k]
    <3>1. PICK f, g : f = H /\ g = H'
      OBVIOUS
    <3>2. SumFunctionOnSet(g, OrderIds) = SumFunctionOnSet(f, OrderIds) - f[k] + g[k]
      BY <1>1, <2>1, <3>1, SumChange
    <3>3. QED
      BY <3>1, <3>2
  <2>3. QED
    BY <1>2, <1>3, <2>1, <2>2
<1>10. QED
  BY <1>7, <1>8, <1>9

\* They are integers.
LEMMA CommittedTyped ==
  IInv => (\A s : CommittedShares(s) \in Int) /\ CommittedCash \in Int
          /\ \A s \in Symbols : Exposure(s) \in Int
<1> SUFFICES ASSUME IInv
             PROVE  (\A s : CommittedShares(s) \in Int) /\ CommittedCash \in Int
                    /\ \A s \in Symbols : Exposure(s) \in Int
  OBVIOUS
<1>1. IsFiniteSet(OrderIds)
  BY BrokerConstants
<1>2. ASSUME NEW s
      PROVE  CommittedShares(s) \in Int
  <2> DEFINE f == [j \in OrderIds |-> Selling(j, s)]
  <2>1. \A j \in OrderIds : f[j] \in Int
    BY Counts DEF CountsAreNatural
  <2>2. CommittedShares(s) = SumFunctionOnSet(f, OrderIds)
    BY CommittedSums DEF CommittedAreSums
  <2> HIDE DEF f
  <2>3. QED
    BY <1>1, <2>1, <2>2, SumIsInt
<1>3. CommittedCash \in Int
  <2> DEFINE f == [j \in OrderIds |-> Owing(j)]
  <2>1. \A j \in OrderIds : f[j] \in Int
    BY Counts DEF CountsAreNatural
  <2>2. CommittedCash = SumFunctionOnSet(f, OrderIds)
    BY CommittedSums DEF CommittedAreSums
  <2> HIDE DEF f
  <2>3. QED
    BY <1>1, <2>1, <2>2, SumIsInt
<1>4. ASSUME NEW s \in Symbols
      PROVE  Exposure(s) \in Int
  <2> DEFINE f == [j \in OrderIds |-> Buying(j, s)]
  <2>1. \A j \in OrderIds : f[j] \in Int
    BY Counts DEF CountsAreNatural
  <2>2. Exposure(s) = held[s] + SumFunctionOnSet(f, OrderIds)
    BY CommittedSums DEF CommittedAreSums
  <2>3. held[s] \in Int
    BY DEF IInv, TypeOK
  <2> HIDE DEF f
  <2>4. QED
    BY <1>1, <2>1, <2>2, <2>3, SumIsInt
<1>5. QED
  BY <1>2, <1>3, <1>4

\* With nothing working, nothing is committed.
LEMMA NothingCommitted ==
  Init => (\A s : CommittedShares(s) = 0) /\ CommittedCash = 0
<1> SUFFICES ASSUME Init
             PROVE  (\A s : CommittedShares(s) = 0) /\ CommittedCash = 0
  OBVIOUS
<1>1. IInv /\ IsFiniteSet(OrderIds)
  BY InitIInv, BrokerConstants
<1>2. \A j \in OrderIds : ~Working(j)
  BY DEF Init, Unknown, Working, WorkingStates
<1>3. ASSUME NEW s
      PROVE  CommittedShares(s) = 0
  <2> DEFINE f == [j \in OrderIds |-> Selling(j, s)]
  <2>1. \A j \in OrderIds : f[j] = 0
    BY <1>2 DEF Selling
  <2>2. CommittedShares(s) = SumFunctionOnSet(f, OrderIds)
    BY <1>1, CommittedSums DEF CommittedAreSums
  <2> HIDE DEF f
  <2>3. QED
    BY <1>1, <2>1, <2>2, SumOfZeros
<1>4. CommittedCash = 0
  <2> DEFINE f == [j \in OrderIds |-> Owing(j)]
  <2>1. \A j \in OrderIds : f[j] = 0
    BY <1>2 DEF Owing
  <2>2. CommittedCash = SumFunctionOnSet(f, OrderIds)
    BY <1>1, CommittedSums DEF CommittedAreSums
  <2> HIDE DEF f
  <2>3. QED
    BY <1>1, <2>1, <2>2, SumOfZeros
<1>5. QED
  BY <1>3, <1>4

(***************************************************************************)
(* The steps, by what they do to an order.                                 *)
(***************************************************************************)
\* A fill from the quote is at the order's limit or better.
LEMMA ServeExecutes ==
  ASSUME IInv, Serve
  PROVE  \E i \in OrderIds, q \in Nat, p \in Nat : ApplyFill(i, q, p) /\ WithinLimit(i, p)
<1>1. TypeOK /\ StateMatchesFilled
  BY DEF IInv
<1>2. PICK n \in quote.at + 1 .. Len(queue) :
        NextFilled(n) /\ ApplyFill(queue[n], FillSize(queue[n]), MarketablePrice(queue[n]))
  BY DEF Serve
<1>3. n \in 1 .. Len(queue) /\ queue[n] \in OrderIds
  BY <1>1 DEF TypeOK, ServedType
<1>4. Fillable(n) /\ WithinLimit(queue[n], MarketablePrice(queue[n]))
  BY <1>2 DEF NextFilled, Fillable, Marketable
<1>5. FillSize(queue[n]) \in Nat /\ MarketablePrice(queue[n]) \in Nat
  BY <1>1, <1>3, <1>4, DrainedTyped
<1>6. QED
  BY <1>2, <1>3, <1>4, <1>5

\* Every step places, cancels or fills one order, or leaves orders and books alone; a
\* quiet one fills it at its limit or better.
LEMMA QuietStepKinds ==
  ASSUME IInv, [QuietStep]_vars
  PROVE  \/ UNCHANGED <<orders, fills, held, cash>>
         \/ \E i \in OrderIds, o \in FreshOrders : Reject(i, o)
         \/ \E i \in OrderIds, o \in FreshOrders, q \in QuoteType \cup {NoQuote} : Accept(i, o, q)
         \/ \E i \in OrderIds : Cancel(i)
         \/ \E i \in OrderIds, q \in Nat, p \in Nat : ApplyFill(i, q, p) /\ WithinLimit(i, p)
<1>1. CASE Serve
  BY <1>1, ServeExecutes
<1>2. CASE \/ \E q \in QuoteType : OnQuote(q)
           \/ MarkStateUnknown \/ Engage \/ Release \/ UNCHANGED vars
  BY <1>2 DEF OnQuote, MarkStateUnknown, Engage, Release, vars
<1>3. QED
  BY <1>1, <1>2 DEF QuietStep

\* Any step, whatever it fills at.
LEMMA StepKinds ==
  ASSUME IInv, [Step]_vars
  PROVE  \/ UNCHANGED <<orders, fills, held, cash>>
         \/ \E i \in OrderIds, o \in FreshOrders : Reject(i, o)
         \/ \E i \in OrderIds, o \in FreshOrders, q \in QuoteType \cup {NoQuote} : Accept(i, o, q)
         \/ \E i \in OrderIds : Cancel(i)
         \/ \E i \in OrderIds, q \in Nat, p \in Nat : ApplyFill(i, q, p)
<1>1. ASSUME NEW i \in OrderIds, NEW q \in Nat, NEW p \in Nat, Report(i, q, p)
      PROVE  ApplyFill(i, q, p)
  BY <1>1 DEF Report
<1>2. CASE [QuietStep]_vars
  BY <1>2, QuietStepKinds
<1>3. QED
  BY <1>1, <1>2, StepIsQuietOrReport

\* What placing an order does to the sums: only one that is accepted counts.
LEMMA PlacedCounts ==
  ASSUME IInv, NEW i \in OrderIds, NEW o \in FreshOrders, NEW st \in {"OPEN", "REJECTED"},
         ~Known(i), orders' = [orders EXCEPT ![i] = [o EXCEPT !.state = st]]
  PROVE  /\ \A j \in OrderIds \ {i} : orders'[j] = orders[j]
         /\ o \in OrderType
         /\ \A s : /\ Selling(i, s) = 0 /\ Buying(i, s) = 0
                   /\ Selling(i, s)' = IF st = "OPEN" /\ o.side = "SELL" /\ o.symbol = s
                                       THEN o.quantity ELSE 0
         /\ Owing(i) = 0
         /\ Owing(i)' = IF st = "OPEN" /\ o.side = "BUY" /\ o.limit # NoLimit
                        THEN o.quantity * o.limit ELSE 0
<1>1. o \in OrderType /\ o.filled = 0
  BY DEF FreshOrders
<1>2. orders'[i] = [o EXCEPT !.state = st] /\ \A j \in OrderIds \ {i} : orders'[j] = orders[j]
  BY DEF IInv, TypeOK
<1>3. /\ orders'[i].state = st /\ orders'[i].filled = 0
      /\ orders'[i].symbol = o.symbol /\ orders'[i].side = o.side
      /\ orders'[i].quantity = o.quantity /\ orders'[i].limit = o.limit
  BY <1>1, <1>2 DEF OrderType
<1>4. ~Working(i) /\ (Working(i)' <=> st = "OPEN")
  BY <1>3 DEF Known, Working, WorkingStates
<1>5. Remaining(i)' = o.quantity
  BY <1>1, <1>3 DEF Remaining, OrderType
<1>6. QED
  BY <1>1, <1>2, <1>3, <1>4, <1>5 DEF Selling, Buying, Owing

\* What cancelling one does: it no longer counts.
LEMMA CancelledCounts ==
  ASSUME IInv, NEW i \in OrderIds, Cancel(i)
  PROVE  /\ \A j \in OrderIds \ {i} : orders'[j] = orders[j]
         /\ \A s : Selling(i, s)' = 0 /\ Buying(i, s)' = 0
         /\ Owing(i)' = 0
<1>1. orders[i] \in OrderType
  BY DEF IInv, Cancel, Known, Unknown, TypeOK
<1>2. orders'[i].state = "CANCELLED" /\ \A j \in OrderIds \ {i} : orders'[j] = orders[j]
  BY <1>1 DEF IInv, Cancel, TypeOK, OrderType
<1>3. ~Working(i)'
  BY <1>2 DEF Working, WorkingStates
<1>4. QED
  BY <1>2, <1>3 DEF Selling, Buying, Owing

\* What a fill does to the order: it counts for as much less as was filled, whether
\* it goes on working or is complete.
LEMMA ExecutedCounts ==
  ASSUME IInv, NEW i \in OrderIds, NEW q \in Nat, NEW p \in Nat, ApplyFill(i, q, p)
  PROVE  /\ orders[i] \in OrderType
         /\ q > 0 /\ p > 0 /\ q <= Remaining(i) /\ Working(i)
         /\ \A j \in OrderIds \ {i} : orders'[j] = orders[j]
         /\ orders'[i].filled = orders[i].filled + q
         /\ orders'[i].symbol = orders[i].symbol /\ orders'[i].side = orders[i].side
         /\ orders'[i].limit = orders[i].limit
         /\ \A s : /\ Selling(i, s)' = IF orders[i].side = "SELL" /\ orders[i].symbol = s
                                       THEN Remaining(i) - q ELSE 0
                   /\ Buying(i, s)' = IF orders[i].side = "BUY" /\ orders[i].symbol = s
                                      THEN Remaining(i) - q ELSE 0
         /\ Owing(i)' = IF orders[i].side = "BUY" /\ orders[i].limit # NoLimit
                        THEN (Remaining(i) - q) * orders[i].limit ELSE 0
<1>1. orders[i] \in OrderType /\ Working(i) /\ q > 0 /\ p > 0 /\ q <= Remaining(i)
  BY WorkingOrder DEF ApplyFill
<1>2. orders'[i] = Advanced(i, q) /\ \A j \in OrderIds \ {i} : orders'[j] = orders[j]
  BY DEF IInv, TypeOK, ApplyFill
<1>3. /\ orders'[i].symbol = orders[i].symbol /\ orders'[i].side = orders[i].side
      /\ orders'[i].quantity = orders[i].quantity /\ orders'[i].limit = orders[i].limit
      /\ orders'[i].filled = orders[i].filled + q
      /\ orders'[i].state = IF orders[i].filled + q >= orders[i].quantity
                            THEN "FILLED" ELSE "PARTIALLY_FILLED"
  BY <1>1, <1>2 DEF Advanced, OrderType
<1>4. orders[i].quantity \in Nat /\ orders[i].filled \in Nat
  BY <1>1 DEF OrderType
<1>5. Remaining(i) \in Nat /\ Remaining(i) = orders[i].quantity - orders[i].filled
  BY <1>1, WorkingOrder DEF Remaining
<1>6. Remaining(i)' = Remaining(i) - q
  BY <1>3, <1>4 DEF Remaining
<1>7. Working(i)' \/ Remaining(i) - q = 0
  <2>1. CASE orders[i].filled + q >= orders[i].quantity
    BY <1>1, <1>4, <1>5, <2>1
  <2>2. CASE ~(orders[i].filled + q >= orders[i].quantity)
    BY <1>3, <2>2 DEF Working, WorkingStates
  <2>3. QED
    BY <2>1, <2>2
<1>8. \A s : /\ Selling(i, s)' = IF orders[i].side = "SELL" /\ orders[i].symbol = s
                                 THEN Remaining(i) - q ELSE 0
             /\ Buying(i, s)' = IF orders[i].side = "BUY" /\ orders[i].symbol = s
                                THEN Remaining(i) - q ELSE 0
  BY <1>3, <1>6, <1>7 DEF Selling, Buying
<1>9. Owing(i)' = IF orders[i].side = "BUY" /\ orders[i].limit # NoLimit
                  THEN (Remaining(i) - q) * orders[i].limit ELSE 0
  <2>1. CASE Working(i)'
    BY <1>3, <1>6, <2>1 DEF Owing
  <2>2. CASE ~Working(i)'
    <3>1. Owing(i)' = 0 /\ Remaining(i) - q = 0
      BY <1>7, <2>2 DEF Owing
    <3>2. orders[i].limit # NoLimit => orders[i].limit \in Nat
      BY <1>1 DEF OrderType
    <3>3. \A a \in Nat : 0 * a = 0
      OBVIOUS
    <3>4. QED
      BY <3>1, <3>2, <3>3
  <2>3. QED
    BY <2>1, <2>2
<1>10. QED
  BY <1>1, <1>2, <1>3, <1>8, <1>9

\* What it does to the books.
LEMMA ExecutedBooks ==
  ASSUME IInv, NEW i \in OrderIds, NEW q \in Nat, NEW p \in Nat, ApplyFill(i, q, p)
  PROVE  LET change == IF orders[i].side = "BUY" THEN q ELSE -q
             fill == [order |-> i, symbol |-> orders[i].symbol, side |-> orders[i].side,
                      quantity |-> q, price |-> p]
         IN /\ \A s \in Symbols :
                 held'[s] = held[s] + IF s = orders[i].symbol THEN change ELSE 0
            /\ cash' = cash - change * p
            /\ fills' = Append(fills, fill)
            /\ Signed(fill) = change
<1> DEFINE change == IF orders[i].side = "BUY" THEN q ELSE -q
           fill == [order |-> i, symbol |-> orders[i].symbol, side |-> orders[i].side,
                    quantity |-> q, price |-> p]
<1>1. /\ held' = [held EXCEPT ![fill.symbol] = @ + Signed(fill)]
      /\ cash' = cash - Signed(fill) * fill.price
      /\ fills' = Append(fills, fill)
  BY DEF ApplyFill, PostToBook
<1>2. Signed(fill) = change /\ fill.price = p /\ fill.symbol = orders[i].symbol /\ change \in Int
  BY DEF Signed
<1> HIDE DEF fill, change
<1>3. \A s \in Symbols :
        held'[s] = held[s] + IF s = orders[i].symbol THEN change ELSE 0
  <2>1. held' = [held EXCEPT ![orders[i].symbol] = @ + change]
    BY <1>1, <1>2
  <2>2. held \in [Symbols -> Int]
    BY DEF IInv, TypeOK
  <2>3. QED
    BY <1>2, <2>1, <2>2
<1>4. QED
  BY <1>1, <1>2, <1>3 DEF fill, change

(***************************************************************************)
(* Shares and cash cover what is committed.                                *)
(***************************************************************************)
\* A market buy has no limit to reserve cash at, and is refused when cash counts.
BuysAreLimited ==
  EnforceCash => \A i \in OrderIds : Working(i) /\ orders[i].side = "BUY" => orders[i].limit # NoLimit

\* Every execution is of an order the broker has, whose limit stays what it is.
FillsAreOfKnown == \A n \in DOMAIN fills : Known(fills[n].order)

CoverInv == IInv /\ FillsAreOfKnown /\ SharesCovered /\ BuysAreLimited /\ CashCovered

\* Where no execution is reported from outside, cash alone suffices.
CashSuffices == EnforceCash => cash >= CommittedCash

QuietCover == IInv /\ SharesCovered /\ BuysAreLimited /\ CashSuffices

(***************************************************************************)
(* What was overpaid.                                                      *)
(***************************************************************************)
\* What the executions in a list of the orders in a table cost beyond their limits.
OverpaidSum(os, fs) ==
  LET limit(n) == os[fs[n].order].limit
      above == {n \in DOMAIN fs : /\ fs[n].side = "BUY"
                                  /\ limit(n) # NoLimit /\ fs[n].price > limit(n)}
  IN SumFunction([n \in above |-> fs[n].quantity * (fs[n].price - limit(n))])

\* What one does.
Excess(os, f) ==
  LET limit == os[f.order].limit
  IN IF f.side = "BUY" /\ limit # NoLimit /\ f.price > limit
     THEN f.quantity * (f.price - limit) ELSE 0

\* The sum is that of all executions, those within their limits counting for nothing.
LEMMA OverpaidIsSum ==
  ASSUME NEW os \in [OrderIds -> OrderType \cup {Unknown}], NEW fs \in Seq(Fills)
  PROVE  /\ IsFiniteSet(DOMAIN fs)
         /\ \A n \in DOMAIN fs : Excess(os, fs[n]) \in Nat
         /\ OverpaidSum(os, fs) = SumFunctionOnSet([n \in DOMAIN fs |-> Excess(os, fs[n])], DOMAIN fs)
         /\ OverpaidSum(os, fs) \in Nat
<1> DEFINE limit(n) == os[fs[n].order].limit
           T == {n \in DOMAIN fs : /\ fs[n].side = "BUY"
                                   /\ limit(n) # NoLimit /\ fs[n].price > limit(n)}
           f == [n \in T |-> fs[n].quantity * (fs[n].price - limit(n))]
           g == [n \in DOMAIN fs |-> Excess(os, fs[n])]
           z == [n \in DOMAIN fs |-> 0]
<1>1. IsFiniteSet(DOMAIN fs)
  <2>1. DOMAIN fs = 1 .. Len(fs) /\ Len(fs) \in Nat
    OBVIOUS
  <2>2. QED
    BY <2>1, FS_Interval
<1>2. \A o \in OrderType \cup {Unknown} : o.limit \in Nat \cup {NoLimit}
  BY DEF OrderType, Unknown
<1>3. ASSUME NEW x \in Fills
      PROVE  Excess(os, x) \in Nat
  <2>1. x.order \in OrderIds /\ x.quantity \in Nat /\ x.price \in Nat
    BY DEF Fills
  <2>2. os[x.order].limit \in Nat \cup {NoLimit}
    BY ONLY os \in [OrderIds -> OrderType \cup {Unknown}], <1>2, <2>1
  <2>3. \A a, b, l \in Nat : b > l => a * (b - l) \in Nat
    OBVIOUS
  <2>4. QED
    BY ONLY <2>1, <2>2, <2>3 DEF Excess
<1>4. \A n \in DOMAIN fs : Excess(os, fs[n]) \in Nat
  BY <1>3
<1>5. \A n \in T : g[n] = f[n] /\ f[n] \in Int
  <2> TAKE n \in T
  <2>1. g[n] = Excess(os, fs[n]) /\ f[n] = fs[n].quantity * (fs[n].price - limit(n))
    OBVIOUS
  <2>2. Excess(os, fs[n]) = fs[n].quantity * (fs[n].price - limit(n))
    BY DEF Excess
  <2>3. Excess(os, fs[n]) \in Nat
    BY <1>4
  <2>4. QED
    BY ONLY <2>1, <2>2, <2>3
<1>6. \A n \in DOMAIN fs \ T : g[n] = 0
  BY DEF Excess
<1>7. OverpaidSum(os, fs) = SumFunctionOnSet(f, T)
  BY DEF OverpaidSum, SumFunction
<1>8. T \in SUBSET DOMAIN fs
  OBVIOUS
<1>9. \A n \in DOMAIN fs : z[n] = 0 /\ g[n] \in Nat
  BY <1>4
<1> HIDE DEF T, f, g, z
<1>10. SumFunctionOnSet(g, DOMAIN fs) = SumFunctionOnSet(f, T)
  BY <1>1, <1>5, <1>6, <1>8, SumWhere
<1>11. SumFunctionOnSet(g, DOMAIN fs) \in Nat
  <2>1. SumFunctionOnSet(z, DOMAIN fs) = 0
    BY <1>1, <1>9, SumOfZeros
  <2>2. SumFunctionOnSet(z, DOMAIN fs) <= SumFunctionOnSet(g, DOMAIN fs)
    BY <1>1, <1>9, SumIsMonotonic
  <2>3. SumFunctionOnSet(g, DOMAIN fs) \in Int
    BY <1>1, <1>9, SumIsInt
  <2>4. QED
    BY ONLY <2>1, <2>2, <2>3
<1>12. QED
  BY <1>1, <1>4, <1>7, <1>10, <1>11 DEF g

\* One more execution adds what it costs beyond its limit, while the limits stay.
LEMMA OverpaidAppended ==
  ASSUME NEW os \in [OrderIds -> OrderType \cup {Unknown}],
         NEW ot \in [OrderIds -> OrderType \cup {Unknown}],
         NEW fs \in Seq(Fills), NEW f \in Fills,
         \A n \in DOMAIN fs : ot[fs[n].order].limit = os[fs[n].order].limit
  PROVE  OverpaidSum(ot, Append(fs, f)) = OverpaidSum(os, fs) + Excess(ot, f)
<1> DEFINE gs == Append(fs, f)
           N == Len(fs) + 1
           a == [n \in DOMAIN fs |-> Excess(os, fs[n])]
           b == [n \in DOMAIN gs |-> Excess(ot, gs[n])]
<1>1. /\ gs \in Seq(Fills) /\ DOMAIN gs = DOMAIN fs \cup {N} /\ N \notin DOMAIN fs
      /\ gs[N] = f /\ \A n \in DOMAIN fs : gs[n] = fs[n]
  OBVIOUS
<1>2. \A n \in DOMAIN fs : Excess(ot, fs[n]) = Excess(os, fs[n])
  BY DEF Excess
<1>3. /\ IsFiniteSet(DOMAIN fs)
      /\ \A n \in DOMAIN fs : a[n] \in Nat
      /\ OverpaidSum(os, fs) = SumFunctionOnSet(a, DOMAIN fs)
  BY OverpaidIsSum
<1> HIDE DEF gs
<1>4. /\ \A n \in DOMAIN gs : b[n] \in Nat
      /\ OverpaidSum(ot, gs) = SumFunctionOnSet(b, DOMAIN gs)
  BY <1>1, OverpaidIsSum
<1>5. b[N] = Excess(ot, f) /\ \A n \in DOMAIN fs : b[n] = a[n]
  BY <1>1, <1>2
<1>6. DOMAIN a = DOMAIN fs /\ DOMAIN b = DOMAIN fs \cup {N}
  BY <1>1
<1> HIDE DEF a, b, N
<1>7. SumFunction(b) = SumFunction(a) + b[N]
  <2>1. b[N] \in Int /\ \A y \in DOMAIN fs : a[y] \in Int /\ b[y] = a[y]
    BY <1>1, <1>3, <1>4, <1>5
  <2>2. QED
    BY <1>1, <1>3, <1>6, <2>1, SumExtended
<1>8. OverpaidSum(ot, gs) = OverpaidSum(os, fs) + Excess(ot, f)
  BY <1>1, <1>3, <1>4, <1>5, <1>6, <1>7 DEF SumFunction
<1>9. QED
  BY <1>8 DEF gs

\* While the limits stay, so does the sum.
LEMMA OverpaidKept ==
  ASSUME NEW os \in [OrderIds -> OrderType \cup {Unknown}],
         NEW ot \in [OrderIds -> OrderType \cup {Unknown}], NEW fs \in Seq(Fills),
         \A n \in DOMAIN fs : ot[fs[n].order].limit = os[fs[n].order].limit
  PROVE  OverpaidSum(ot, fs) = OverpaidSum(os, fs)
<1>1. \A n \in DOMAIN fs : Excess(ot, fs[n]) = Excess(os, fs[n])
  BY DEF Excess
<1>2. [n \in DOMAIN fs |-> Excess(ot, fs[n])] = [n \in DOMAIN fs |-> Excess(os, fs[n])]
  BY <1>1
<1>3. OverpaidSum(ot, fs) = SumFunctionOnSet([n \in DOMAIN fs |-> Excess(ot, fs[n])], DOMAIN fs)
  BY OverpaidIsSum
<1>4. OverpaidSum(os, fs) = SumFunctionOnSet([n \in DOMAIN fs |-> Excess(os, fs[n])], DOMAIN fs)
  BY OverpaidIsSum
<1>5. QED
  BY ONLY <1>2, <1>3, <1>4

\* An order the broker has keeps its limit, and stays known.
LEMMA LimitsStay ==
  ASSUME IInv, [Step]_vars, NEW j \in OrderIds, Known(j)
  PROVE  Known(j)' /\ orders'[j].limit = orders[j].limit
<1>1. orders'[j] = orders[j] => Known(j)' /\ orders'[j].limit = orders[j].limit
  BY DEF Known
<1>2. CASE UNCHANGED <<orders, fills, held, cash>>
  BY <1>1, <1>2
<1>3. ASSUME NEW i \in OrderIds, NEW o \in FreshOrders, NEW st \in {"OPEN", "REJECTED"},
             ~Known(i), orders' = [orders EXCEPT ![i] = [o EXCEPT !.state = st]]
      PROVE  Known(j)' /\ orders'[j].limit = orders[j].limit
  <2>1. \A k \in OrderIds \ {i} : orders'[k] = orders[k]
    BY <1>3, PlacedCounts
  <2>2. QED
    BY <1>1, <1>3, <2>1
<1>4. ASSUME NEW i \in OrderIds, NEW o \in FreshOrders, Reject(i, o)
      PROVE  Known(j)' /\ orders'[j].limit = orders[j].limit
  BY <1>3, <1>4 DEF Reject, MaySubmit
<1>5. ASSUME NEW i \in OrderIds, NEW o \in FreshOrders, NEW q \in QuoteType \cup {NoQuote},
             Accept(i, o, q)
      PROVE  Known(j)' /\ orders'[j].limit = orders[j].limit
  BY <1>3, <1>5 DEF Accept, MaySubmit
<1>6. ASSUME NEW i \in OrderIds, Cancel(i)
      PROVE  Known(j)' /\ orders'[j].limit = orders[j].limit
  <2>1. \A k \in OrderIds \ {i} : orders'[k] = orders[k]
    BY <1>6, CancelledCounts
  <2>2. orders[i] \in OrderType /\ orders' = [orders EXCEPT ![i].state = "CANCELLED"]
    BY <1>6 DEF IInv, Cancel, Known, Unknown, TypeOK
  <2>3. orders'[i].state = "CANCELLED" /\ orders'[i].limit = orders[i].limit
    BY <2>2 DEF IInv, TypeOK, OrderType
  <2>4. QED
    BY <1>1, <2>1, <2>3 DEF Known
<1>7. ASSUME NEW i \in OrderIds, NEW q \in Nat, NEW p \in Nat, ApplyFill(i, q, p)
      PROVE  Known(j)' /\ orders'[j].limit = orders[j].limit
  <2>1. orders'[i].limit = orders[i].limit /\ \A k \in OrderIds \ {i} : orders'[k] = orders[k]
    BY <1>7, ExecutedCounts
  <2>2. orders'[i] = Advanced(i, q) /\ orders[i] \in OrderType
    BY <1>7, ExecutedCounts DEF IInv, TypeOK, ApplyFill
  <2>3. orders'[i].state \in {"FILLED", "PARTIALLY_FILLED"}
    BY <2>2 DEF Advanced, OrderType
  <2>4. QED
    BY <1>1, <2>1, <2>3 DEF Known
<1>8. QED
  BY <1>2, <1>4, <1>5, <1>6, <1>7, StepKinds

\* A step appends to the fills what it executes, of an order that works, if anything.
LEMMA FillsGrow ==
  ASSUME IInv, [Step]_vars
  PROVE  \/ fills' = fills
         \/ \E i \in OrderIds, q \in Nat, p \in Nat : ApplyFill(i, q, p)
BY StepKinds DEF Reject, Accept, Cancel

\* The list of fills stays one of known orders.
LEMMA KnownStep ==
  ASSUME IInv, FillsAreOfKnown, [Step]_vars
  PROVE  FillsAreOfKnown'
<1>1. fills \in Seq(Fills) /\ IInv
  BY DEF IInv, TypeOK
<1>2. ASSUME NEW n \in DOMAIN fills
      PROVE  orders'[fills[n].order].state # "PENDING"
  <2>1. fills[n] \in Fills /\ Known(fills[n].order)
    BY <1>1, <1>2 DEF FillsAreOfKnown
  <2>2. fills[n].order \in OrderIds
    BY <2>1 DEF Fills
  <2>3. PICK j \in OrderIds : j = fills[n].order
    BY <2>2
  <2>4. Known(j)'
    BY <2>1, <2>3, LimitsStay
  <2>5. QED
    BY <2>3, <2>4 DEF Known
<1>3. CASE fills' = fills
  BY <1>2, <1>3 DEF FillsAreOfKnown, Known
<1>4. ASSUME NEW i \in OrderIds, NEW q \in Nat, NEW p \in Nat, ApplyFill(i, q, p)
      PROVE  FillsAreOfKnown'
  <2> DEFINE e == [order |-> i, symbol |-> orders[i].symbol, side |-> orders[i].side,
                   quantity |-> q, price |-> p]
  <2>1. fills' = Append(fills, e) /\ e.order = i /\ Known(i)
    BY <1>4, ExecutedBooks DEF ApplyFill, Working, WorkingStates, Known
  <2> HIDE DEF e
  <2>2. orders'[i].state # "PENDING"
    BY <2>1, LimitsStay DEF Known
  <2>3. \A n \in DOMAIN Append(fills, e) :
          \/ n \in DOMAIN fills /\ Append(fills, e)[n] = fills[n]
          \/ Append(fills, e)[n] = e
    BY <1>1
  <2>4. \A n \in DOMAIN Append(fills, e) : orders'[Append(fills, e)[n].order].state # "PENDING"
    BY <1>2, <2>1, <2>2, <2>3
  <2>5. QED
    BY <2>1, <2>4 DEF FillsAreOfKnown, Known
<1>5. QED
  BY <1>3, <1>4, FillsGrow

\* What was overpaid only grows, by what an execution costs beyond its order's limit.
LEMMA OverpaidStep ==
  ASSUME IInv, IInv', FillsAreOfKnown, [Step]_vars
  PROVE  /\ Overpaid \in Nat /\ Overpaid' \in Nat /\ Overpaid' >= Overpaid
         /\ \A i \in OrderIds, q \in Nat, p \in Nat :
              ApplyFill(i, q, p) /\ orders[i].side = "BUY" /\ orders[i].limit # NoLimit
                                /\ p > orders[i].limit
                => Overpaid' = Overpaid + q * (p - orders[i].limit)
<1>1. /\ fills \in Seq(Fills) /\ fills' \in Seq(Fills)
      /\ orders \in [OrderIds -> OrderType \cup {Unknown}]
      /\ orders' \in [OrderIds -> OrderType \cup {Unknown}]
  BY DEF IInv, TypeOK
<1>2. PICK ot \in [OrderIds -> OrderType \cup {Unknown}] : ot = orders'
  BY <1>1
<1>3. PICK gs \in Seq(Fills) : gs = fills'
  BY <1>1
<1>4. Overpaid = OverpaidSum(orders, fills) /\ Overpaid' = OverpaidSum(ot, gs)
  BY <1>2, <1>3 DEF Overpaid, OverpaidSum
<1>5. \A n \in DOMAIN fills : ot[fills[n].order].limit = orders[fills[n].order].limit
  <2> TAKE n \in DOMAIN fills
  <2>1. fills[n] \in Fills /\ Known(fills[n].order)
    BY <1>1 DEF FillsAreOfKnown
  <2>2. fills[n].order \in OrderIds
    BY <2>1 DEF Fills
  <2>3. QED
    BY <1>2, <2>1, <2>2, LimitsStay
<1>6. Overpaid \in Nat /\ Overpaid' \in Nat
  BY <1>1, <1>4, OverpaidIsSum
<1>7. ASSUME NEW i \in OrderIds, NEW q \in Nat, NEW p \in Nat, ApplyFill(i, q, p)
      PROVE  /\ Overpaid' >= Overpaid
             /\ orders[i].side = "BUY" /\ orders[i].limit # NoLimit /\ p > orders[i].limit
                  => Overpaid' = Overpaid + q * (p - orders[i].limit)
  <2> DEFINE e == [order |-> i, symbol |-> orders[i].symbol, side |-> orders[i].side,
                   quantity |-> q, price |-> p]
  <2>1. fills' = Append(fills, e)
    BY <1>7, ExecutedBooks
  <2>2. orders'[i].limit = orders[i].limit /\ orders[i] \in OrderType
    BY <1>7, ExecutedCounts
  <2>3. e \in Fills
    BY <2>2 DEF Fills, OrderType
  <2>4. /\ e.order = i /\ e.side = orders[i].side /\ e.quantity = q /\ e.price = p
        /\ ot[i].limit = orders[i].limit
    BY <1>2, <2>2
  <2> HIDE DEF e
  <2>5. Overpaid' = Overpaid + Excess(ot, e)
    <3>1. OverpaidSum(ot, Append(fills, e)) = OverpaidSum(orders, fills) + Excess(ot, e)
      BY ONLY <1>1, ot \in [OrderIds -> OrderType \cup {Unknown}], <1>5, <2>3, OverpaidAppended
    <3>2. gs = Append(fills, e)
      BY ONLY <1>3, <2>1
    <3>3. QED
      BY ONLY <1>4, <3>1, <3>2
  <2>6. Excess(ot, e) = IF orders[i].side = "BUY" /\ orders[i].limit # NoLimit /\ p > orders[i].limit
                        THEN q * (p - orders[i].limit) ELSE 0
    BY ONLY <2>4 DEF Excess
  <2>7. Excess(ot, e) \in Nat
    <3>1. orders[i].limit \in Nat \cup {NoLimit}
      BY <2>2 DEF OrderType
    <3>2. \A a, b, l \in Nat : b > l => a * (b - l) \in Nat
      OBVIOUS
    <3>3. QED
      BY ONLY <2>6, <3>1, <3>2, q \in Nat, p \in Nat
  <2>8. QED
    BY ONLY <1>6, <2>5, <2>6, <2>7
<1>8. CASE fills' = fills
  <2>1. gs = fills
    BY <1>3, <1>8
  <2>2. Overpaid' = Overpaid
    BY <1>1, <1>4, <1>5, <2>1, OverpaidKept
  <2>3. ~ \E i \in OrderIds, q \in Nat, p \in Nat : ApplyFill(i, q, p)
    <3> SUFFICES ASSUME NEW i \in OrderIds, NEW q \in Nat, NEW p \in Nat, ApplyFill(i, q, p)
                 PROVE  FALSE
      OBVIOUS
    <3>1. PICK e : fills' = Append(fills, e)
      BY ExecutedBooks
    <3>2. Len(fills') = Len(fills) + 1
      BY <1>1, <3>1
    <3>3. QED
      BY <1>1, <1>8, <3>2
  <2>4. QED
    BY <1>6, <2>2, <2>3
<1>9. QED
  BY <1>6, <1>7, <1>8, FillsGrow

(***************************************************************************)
(* Cover.                                                                  *)
(***************************************************************************)
\* A new broker has committed nothing.
LEMMA InitCover == Init => CoverInv /\ QuietCover
<1> SUFFICES ASSUME Init PROVE CoverInv /\ QuietCover
  OBVIOUS
<1>1. IInv
  BY InitIInv
<1>2. SharesCovered
  BY NothingCommitted DEF Init, SharesCovered
<1>3. BuysAreLimited
  BY DEF Init, Unknown, BuysAreLimited, Working, WorkingStates
<1>4. cash \in Nat /\ CommittedCash = 0
  BY NothingCommitted, BrokerConstants DEF Init
<1>5. FillsAreOfKnown
  BY DEF Init, FillsAreOfKnown
<1>6. Overpaid \in Nat
  <2>1. /\ orders \in [OrderIds -> OrderType \cup {Unknown}] /\ fills \in Seq(Fills)
        /\ Overpaid = OverpaidSum(orders, fills)
    BY <1>1 DEF IInv, TypeOK, Overpaid, OverpaidSum
  <2>2. QED
    BY <2>1, OverpaidIsSum
<1>7. CashCovered /\ CashSuffices
  BY <1>4, <1>6 DEF CashCovered, CashSuffices
<1>8. QED
  BY <1>1, <1>2, <1>3, <1>5, <1>7 DEF CoverInv, QuietCover

\* A sell order is accepted only when it is covered, and each execution takes as many
\* shares as it takes off what is committed.
LEMMA SharesStep ==
  ASSUME IInv, IInv', SharesCovered, [Step]_vars
  PROVE  SharesCovered'
<1>1. /\ \A s : CommittedShares(s) \in Int
      /\ held \in [Symbols -> Int]
  BY CommittedTyped DEF IInv, TypeOK
<1> SUFFICES ASSUME NEW s \in Symbols PROVE held'[s] >= CommittedShares(s)'
  BY DEF SharesCovered
<1>2. held[s] >= CommittedShares(s) /\ held[s] \in Int /\ CommittedShares(s) \in Int
  BY <1>1 DEF SharesCovered
<1>3. CASE UNCHANGED <<orders, fills, held, cash>>
  BY <1>2, <1>3 DEF CommittedShares, Working, Remaining
<1>4. ASSUME NEW i \in OrderIds, NEW o \in FreshOrders, Reject(i, o)
      PROVE  held'[s] >= CommittedShares(s)'
  <2>1. /\ ~Known(i) /\ orders' = [orders EXCEPT ![i] = [o EXCEPT !.state = "REJECTED"]]
        /\ held' = held
    BY <1>4 DEF Reject, MaySubmit
  <2>2. \A j \in OrderIds \ {i} : orders'[j] = orders[j]
    BY <2>1, PlacedCounts
  <2>3. Selling(i, s) = 0 /\ Selling(i, s)' = 0
    BY <2>1, PlacedCounts
  <2>4. CommittedShares(s)' = CommittedShares(s) - Selling(i, s) + Selling(i, s)'
    BY <2>2, CommittedChange
  <2>5. QED
    BY <1>2, <2>1, <2>3, <2>4
<1>5. ASSUME NEW i \in OrderIds, NEW o \in FreshOrders, NEW q \in QuoteType \cup {NoQuote},
             Accept(i, o, q)
      PROVE  held'[s] >= CommittedShares(s)'
  <2>1. /\ ~Known(i) /\ orders' = [orders EXCEPT ![i] = [o EXCEPT !.state = "OPEN"]]
        /\ held' = held /\ ~NakedShort(o)
    BY <1>5 DEF Accept, MaySubmit, RejectionReason
  <2>2. \A j \in OrderIds \ {i} : orders'[j] = orders[j]
    BY <2>1, PlacedCounts
  <2>3. /\ Selling(i, s) = 0 /\ o \in OrderType
        /\ Selling(i, s)' = IF o.side = "SELL" /\ o.symbol = s THEN o.quantity ELSE 0
    BY <2>1, PlacedCounts
  <2>4. CommittedShares(s)' = CommittedShares(s) - Selling(i, s) + Selling(i, s)'
    BY <2>2, CommittedChange
  <2>5. CASE o.side = "SELL" /\ o.symbol = s
    <3>1. o.quantity <= held[s] - CommittedShares(s) /\ o.quantity \in Nat
      BY <1>2, <2>1, <2>3, <2>5 DEF NakedShort, OrderType
    <3>2. CommittedShares(s)' = CommittedShares(s) + o.quantity
      BY <1>2, <2>3, <2>4, <2>5, <3>1
    <3>3. QED
      BY <1>2, <2>1, <3>1, <3>2
  <2>6. CASE ~(o.side = "SELL" /\ o.symbol = s)
    BY <1>2, <2>1, <2>3, <2>4, <2>6
  <2>7. QED
    BY <2>5, <2>6
<1>6. ASSUME NEW i \in OrderIds, Cancel(i)
      PROVE  held'[s] >= CommittedShares(s)'
  <2>1. \A j \in OrderIds \ {i} : orders'[j] = orders[j]
    BY <1>6, CancelledCounts
  <2>2. Selling(i, s)' = 0 /\ Selling(i, s) \in Nat
    BY <1>6, CancelledCounts, Counts DEF CountsAreNatural
  <2>3. CommittedShares(s)' = CommittedShares(s) - Selling(i, s) + Selling(i, s)'
    BY <2>1, CommittedChange
  <2>4. held' = held
    BY <1>6 DEF Cancel
  <2>5. QED
    BY <1>2, <2>2, <2>3, <2>4
<1>7. ASSUME NEW i \in OrderIds, NEW q \in Nat, NEW p \in Nat, ApplyFill(i, q, p)
      PROVE  held'[s] >= CommittedShares(s)'
  <2>0. ApplyFill(i, q, p)
    BY <1>7
  <2>1. /\ \A j \in OrderIds \ {i} : orders'[j] = orders[j]
        /\ orders[i] \in OrderType /\ Working(i) /\ Remaining(i) \in Nat
    BY <2>0, ExecutedCounts, WorkingOrder
  <2>2. Selling(i, s)' = IF orders[i].side = "SELL" /\ orders[i].symbol = s
                         THEN Remaining(i) - q ELSE 0
    BY <2>0, ExecutedCounts
  <2>3. Selling(i, s) = IF orders[i].side = "SELL" /\ orders[i].symbol = s
                        THEN Remaining(i) ELSE 0
    BY <2>1 DEF Selling
  <2>4. CommittedShares(s)' = CommittedShares(s) - Selling(i, s) + Selling(i, s)'
    BY <2>1, CommittedChange
  <2>5. held'[s] = held[s] + IF s = orders[i].symbol
                             THEN (IF orders[i].side = "BUY" THEN q ELSE -q) ELSE 0
    BY <2>0, ExecutedBooks
  <2>6. orders[i].side \in {"BUY", "SELL"}
    BY <2>1 DEF OrderType, Sides
  <2>7. CASE orders[i].symbol # s
    BY <1>2, <2>2, <2>3, <2>4, <2>5, <2>7
  <2>8. CASE orders[i].symbol = s /\ orders[i].side = "SELL"
    <3>1. Selling(i, s)' = Remaining(i) - q /\ Selling(i, s) = Remaining(i)
      BY <2>2, <2>3, <2>8
    <3>2. held'[s] = held[s] - q
      BY <1>2, <2>5, <2>8
    <3>3. QED
      BY <1>2, <2>1, <2>4, <3>1, <3>2
  <2>9. CASE orders[i].symbol = s /\ orders[i].side = "BUY"
    <3>1. Selling(i, s)' = 0 /\ Selling(i, s) = 0
      BY <2>2, <2>3, <2>9
    <3>2. held'[s] = held[s] + q
      BY <2>5, <2>9
    <3>3. QED
      BY <1>2, <2>4, <3>1, <3>2
  <2>10. QED
    BY <2>6, <2>7, <2>8, <2>9
<1>8. QED
  BY <1>3, <1>4, <1>5, <1>6, <1>7, StepKinds

\* No step lets a market buy work while cash counts.
LEMMA LimitedStep ==
  ASSUME IInv, IInv', BuysAreLimited, [Step]_vars
  PROVE  BuysAreLimited'
<1> SUFFICES ASSUME EnforceCash, NEW j \in OrderIds, Working(j)', orders'[j].side = "BUY"
             PROVE  orders'[j].limit # NoLimit
  BY DEF BuysAreLimited
<1>1. orders'[j] = orders[j] => orders'[j].limit # NoLimit
  BY DEF BuysAreLimited, Working
<1>2. CASE UNCHANGED <<orders, fills, held, cash>>
  BY <1>1, <1>2
<1>3. ASSUME NEW i \in OrderIds, NEW o \in FreshOrders, Reject(i, o)
      PROVE  orders'[j].limit # NoLimit
  <2>1. orders' = [orders EXCEPT ![i] = [o EXCEPT !.state = "REJECTED"]] /\ "REJECTED" \in States
    BY <1>3 DEF Reject, States
  <2>2. orders'[i].state = "REJECTED" /\ \A k \in OrderIds : k # i => orders'[k] = orders[k]
    BY <2>1, PutOrder DEF IInv
  <2>3. j # i
    BY <2>2 DEF Working, WorkingStates
  <2>4. QED
    BY <1>1, <2>2, <2>3
<1>4. ASSUME NEW i \in OrderIds, NEW o \in FreshOrders, NEW q \in QuoteType \cup {NoQuote},
             Accept(i, o, q)
      PROVE  orders'[j].limit # NoLimit
  <2>1. orders' = [orders EXCEPT ![i] = [o EXCEPT !.state = "OPEN"]] /\ ~Unaffordable(o)
    BY <1>4 DEF Accept, RejectionReason
  <2>2. o \in OrderType
    BY DEF FreshOrders
  <2>3. CASE j = i
    <3>1. orders'[j].side = o.side /\ orders'[j].limit = o.limit
      BY <2>1, <2>2, <2>3 DEF IInv, TypeOK, OrderType
    <3>2. QED
      BY <2>1, <3>1 DEF Unaffordable, Payable
  <2>4. CASE j # i
    <3>1. orders'[j] = orders[j]
      BY <2>1, <2>4 DEF IInv, TypeOK
    <3>2. QED
      BY <1>1, <3>1
  <2>5. QED
    BY <2>3, <2>4
<1>5. ASSUME NEW i \in OrderIds, Cancel(i)
      PROVE  orders'[j].limit # NoLimit
  <2>1. ~Working(i)' /\ \A k \in OrderIds \ {i} : orders'[k] = orders[k]
    <3>1. orders[i] \in OrderType /\ orders' = [orders EXCEPT ![i].state = "CANCELLED"]
      BY <1>5 DEF IInv, Cancel, Known, Unknown, TypeOK
    <3>2. orders'[i].state = "CANCELLED"
      BY <3>1 DEF IInv, TypeOK, OrderType
    <3>3. QED
      BY <1>5, <3>2, CancelledCounts DEF Working, WorkingStates
  <2>2. QED
    BY <1>1, <2>1
<1>6. ASSUME NEW i \in OrderIds, NEW q \in Nat, NEW p \in Nat, ApplyFill(i, q, p)
      PROVE  orders'[j].limit # NoLimit
  <2>1. ApplyFill(i, q, p)
    BY <1>6
  <2>2. /\ Working(i) /\ orders'[i].side = orders[i].side /\ orders'[i].limit = orders[i].limit
        /\ \A k \in OrderIds \ {i} : orders'[k] = orders[k]
    BY <2>1, ExecutedCounts
  <2>3. QED
    BY <1>1, <2>2 DEF BuysAreLimited
<1>7. QED
  BY <1>2, <1>3, <1>4, <1>5, <1>6, StepKinds

\* A smaller price makes a smaller product.
LEMMA ProductIsMonotonic ==
  ASSUME NEW a \in Nat, NEW b \in Nat, NEW c \in Nat, b <= c
  PROVE  a * b <= a * c
<1>1. a * c = a * b + a * (c - b)
  OBVIOUS
<1>2. c - b \in Nat
  OBVIOUS
<1>3. a * b \in Nat /\ a * (c - b) \in Nat
  BY <1>2
<1>4. QED
  BY <1>1, <1>3

\* A buy is accepted only when what it may cost is free, and a quiet execution costs no
\* more than it takes off what is committed, being at the order's limit or better: what
\* covers the orders with something to spare still does.
LEMMA CashStep ==
  ASSUME IInv, IInv', BuysAreLimited, EnforceCash, [QuietStep]_vars,
         NEW spare \in Nat, cash + spare >= CommittedCash
  PROVE  cash' + spare >= CommittedCash'
<1>1. cash + spare >= CommittedCash /\ cash \in Int /\ CommittedCash \in Int
  BY CommittedTyped DEF IInv, TypeOK
<1>2. CASE UNCHANGED <<orders, fills, held, cash>>
  BY <1>1, <1>2 DEF CommittedCash, Working, Remaining
<1>3. ASSUME NEW i \in OrderIds, NEW o \in FreshOrders, Reject(i, o)
      PROVE  cash' + spare >= CommittedCash'
  <2>1. /\ ~Known(i) /\ orders' = [orders EXCEPT ![i] = [o EXCEPT !.state = "REJECTED"]]
        /\ cash' = cash
    BY <1>3 DEF Reject, MaySubmit
  <2>2. \A j \in OrderIds \ {i} : orders'[j] = orders[j]
    BY <2>1, PlacedCounts
  <2>3. Owing(i) = 0 /\ Owing(i)' = 0
    BY <2>1, PlacedCounts
  <2>4. CommittedCash' = CommittedCash - Owing(i) + Owing(i)'
    BY <2>2, CommittedChange
  <2>5. QED
    BY <1>1, <2>1, <2>3, <2>4
<1>4. ASSUME NEW i \in OrderIds, NEW o \in FreshOrders, NEW q \in QuoteType \cup {NoQuote},
             Accept(i, o, q)
      PROVE  cash' + spare >= CommittedCash'
  <2>1. /\ ~Known(i) /\ orders' = [orders EXCEPT ![i] = [o EXCEPT !.state = "OPEN"]]
        /\ cash' = cash /\ ~Unaffordable(o)
    BY <1>4 DEF Accept, MaySubmit, RejectionReason
  <2>2. \A j \in OrderIds \ {i} : orders'[j] = orders[j]
    BY <2>1, PlacedCounts
  <2>3. /\ Owing(i) = 0
        /\ Owing(i)' = IF o.side = "BUY" /\ o.limit # NoLimit THEN o.quantity * o.limit ELSE 0
    BY <2>1, PlacedCounts
  <2>4. CommittedCash' = CommittedCash - Owing(i) + Owing(i)'
    BY <2>2, CommittedChange
  <2>5. Owing(i)' \in Int
    <3>1. (IInv => CountsAreNatural)'
      BY Counts, PTL
    <3>2. QED
      BY <3>1 DEF CountsAreNatural
  <2>6. CASE o.side = "BUY"
    <3>1. o.limit # NoLimit /\ o.quantity * o.limit <= cash - CommittedCash
      BY <2>1, <2>6 DEF Unaffordable, Payable
    <3>2. Owing(i)' = o.quantity * o.limit
      BY <2>3, <2>6, <3>1
    <3>3. Owing(i)' <= cash - CommittedCash
      BY <3>1, <3>2
    <3>4. CommittedCash' = CommittedCash + Owing(i)'
      BY <1>1, <2>3, <2>4, <2>5
    <3>5. QED
      BY <1>1, <2>1, <2>5, <3>3, <3>4
  <2>7. CASE o.side # "BUY"
    <3>1. Owing(i)' = 0
      BY <2>3, <2>7
    <3>2. QED
      BY <1>1, <2>1, <2>3, <2>4, <3>1
  <2>8. QED
    BY <2>6, <2>7
<1>5. ASSUME NEW i \in OrderIds, Cancel(i)
      PROVE  cash' + spare >= CommittedCash'
  <2>1. \A j \in OrderIds \ {i} : orders'[j] = orders[j]
    BY <1>5, CancelledCounts
  <2>2. Owing(i)' = 0 /\ Owing(i) \in Nat
    BY <1>5, CancelledCounts, Counts DEF CountsAreNatural
  <2>3. CommittedCash' = CommittedCash - Owing(i) + Owing(i)'
    BY <2>1, CommittedChange
  <2>4. cash' = cash
    BY <1>5 DEF Cancel
  <2>5. QED
    BY <1>1, <2>2, <2>3, <2>4
<1>6. ASSUME NEW i \in OrderIds, NEW q \in Nat, NEW p \in Nat, ApplyFill(i, q, p), WithinLimit(i, p)
      PROVE  cash' + spare >= CommittedCash'
  <2>0. ApplyFill(i, q, p) /\ WithinLimit(i, p)
    BY <1>6
  <2>1. /\ \A j \in OrderIds \ {i} : orders'[j] = orders[j]
        /\ orders[i] \in OrderType /\ Working(i) /\ Remaining(i) \in Nat /\ q <= Remaining(i)
    BY <2>0, ExecutedCounts, WorkingOrder
  <2>2. CommittedCash' = CommittedCash - Owing(i) + Owing(i)'
    BY <2>1, CommittedChange
  <2>3. cash' = cash - (IF orders[i].side = "BUY" THEN q ELSE -q) * p
    BY <2>0, ExecutedBooks
  <2>4. Owing(i)' = IF orders[i].side = "BUY" /\ orders[i].limit # NoLimit
                    THEN (Remaining(i) - q) * orders[i].limit ELSE 0
    BY <2>0, ExecutedCounts
  <2>5. Owing(i) = IF orders[i].side = "BUY" /\ orders[i].limit # NoLimit
                   THEN Remaining(i) * orders[i].limit ELSE 0
    BY <2>1 DEF Owing
  <2>6. CASE orders[i].side = "BUY"
    <3>1. orders[i].limit # NoLimit
      BY <2>1, <2>6 DEF BuysAreLimited
    <3>2. orders[i].limit \in Nat /\ p <= orders[i].limit
      BY <2>0, <2>1, <2>6, <3>1 DEF OrderType, WithinLimit
    <3>3. /\ Owing(i)' = (Remaining(i) - q) * orders[i].limit
          /\ Owing(i) = Remaining(i) * orders[i].limit
          /\ cash' = cash - q * p
      BY <2>3, <2>4, <2>5, <2>6, <3>1
    <3>4. q * p <= q * orders[i].limit
      BY <3>2, ProductIsMonotonic
    <3>5. \A r, l \in Nat : (r - q) * l = r * l - q * l
      OBVIOUS
    <3>6. Owing(i)' = Owing(i) - q * orders[i].limit
      BY <2>1, <3>2, <3>3, <3>5
    <3>7. Owing(i) \in Int /\ q * orders[i].limit \in Int /\ q * p \in Int
      BY <3>2, Counts DEF CountsAreNatural
    <3>8. QED
      BY <1>1, <2>2, <3>3, <3>4, <3>6, <3>7
  <2>7. CASE orders[i].side # "BUY"
    <3>1. Owing(i)' = 0 /\ Owing(i) = 0
      BY <2>4, <2>5, <2>7
    <3>2. cash' = cash - (-q) * p
      BY <2>3, <2>7
    <3>3. \A a, b \in Nat : a * b \in Nat /\ (-a) * b = -(a * b)
      OBVIOUS
    <3>4. q * p \in Nat /\ cash' = cash + q * p
      BY <1>1, <3>2, <3>3
    <3>5. QED
      BY <1>1, <2>2, <3>1, <3>4
  <2>8. QED
    BY <2>6, <2>7
<1>7. QED
  BY <1>2, <1>3, <1>4, <1>5, <1>6, QuietStepKinds

\* An execution reported from outside costs no more than it takes off what is committed,
\* but for what it costs beyond the order's limit.
LEMMA ReportedCash ==
  ASSUME IInv, IInv', BuysAreLimited, FillsAreOfKnown, EnforceCash,
         cash + Overpaid >= CommittedCash,
         NEW i \in OrderIds, NEW q \in Nat, NEW p \in Nat, Report(i, q, p)
  PROVE  cash' + Overpaid' >= CommittedCash'
<1>1. /\ cash + Overpaid >= CommittedCash /\ cash \in Int /\ CommittedCash \in Int
      /\ ApplyFill(i, q, p)
  BY CommittedTyped DEF IInv, TypeOK, Report
<1>2. /\ Overpaid \in Nat /\ Overpaid' \in Nat /\ Overpaid' >= Overpaid
      /\ orders[i].side = "BUY" /\ orders[i].limit # NoLimit /\ p > orders[i].limit
           => Overpaid' = Overpaid + q * (p - orders[i].limit)
  <2>1. [Step]_vars
    BY StepIsQuietOrReport
  <2>2. QED
    BY <1>1, <2>1, OverpaidStep
<1>3. /\ \A j \in OrderIds \ {i} : orders'[j] = orders[j]
      /\ orders[i] \in OrderType /\ Working(i) /\ Remaining(i) \in Nat /\ q <= Remaining(i)
  BY <1>1, ExecutedCounts, WorkingOrder
<1>4. CommittedCash' = CommittedCash - Owing(i) + Owing(i)'
  BY <1>3, CommittedChange
<1>5. cash' = cash - (IF orders[i].side = "BUY" THEN q ELSE -q) * p
  BY <1>1, ExecutedBooks
<1>6. Owing(i)' = IF orders[i].side = "BUY" /\ orders[i].limit # NoLimit
                  THEN (Remaining(i) - q) * orders[i].limit ELSE 0
  BY <1>1, ExecutedCounts
<1>7. Owing(i) = IF orders[i].side = "BUY" /\ orders[i].limit # NoLimit
                 THEN Remaining(i) * orders[i].limit ELSE 0
  BY <1>3 DEF Owing
<1>8. CASE orders[i].side = "BUY"
  <2>1. orders[i].limit # NoLimit /\ orders[i].limit \in Nat
    BY <1>3, <1>8 DEF BuysAreLimited, OrderType
  <2>2. /\ Owing(i)' = (Remaining(i) - q) * orders[i].limit
        /\ Owing(i) = Remaining(i) * orders[i].limit
        /\ cash' = cash - q * p
    BY <1>5, <1>6, <1>7, <1>8, <2>1
  <2>3. \A r, l \in Nat : (r - q) * l = r * l - q * l
    OBVIOUS
  <2>4. Owing(i)' = Owing(i) - q * orders[i].limit
    BY <1>3, <2>1, <2>2, <2>3
  <2>5. Owing(i) \in Int /\ q * orders[i].limit \in Int /\ q * p \in Int
    BY <2>1, Counts DEF CountsAreNatural
  <2>6. CommittedCash' = CommittedCash - q * orders[i].limit
    BY ONLY <1>1, <1>4, <2>4, <2>5
  <2>7. CASE p > orders[i].limit
    <3>1. Overpaid' = Overpaid + q * (p - orders[i].limit)
      BY <1>2, <1>8, <2>1, <2>7
    <3>2. \A l \in Nat : q * (p - l) = q * p - q * l
      OBVIOUS
    <3>3. q * (p - orders[i].limit) = q * p - q * orders[i].limit
      BY <2>1, <3>2
    <3>4. QED
      BY ONLY <1>1, <1>2, <2>2, <2>5, <2>6, <3>1, <3>3
  <2>8. CASE ~(p > orders[i].limit)
    <3>1. p <= orders[i].limit
      BY <2>1, <2>8
    <3>2. q * p <= q * orders[i].limit
      BY <2>1, <3>1, ProductIsMonotonic
    <3>3. QED
      BY ONLY <1>1, <1>2, <2>2, <2>5, <2>6, <3>2
  <2>9. QED
    BY <2>7, <2>8
<1>9. CASE orders[i].side # "BUY"
  <2>1. Owing(i)' = 0 /\ Owing(i) = 0
    BY <1>6, <1>7, <1>9
  <2>2. cash' = cash - (-q) * p
    BY <1>5, <1>9
  <2>3. \A a, b \in Nat : a * b \in Nat /\ (-a) * b = -(a * b)
    OBVIOUS
  <2>4. q * p \in Nat /\ cash' = cash + q * p
    BY <1>1, <2>2, <2>3
  <2>5. CommittedCash' = CommittedCash
    BY ONLY <1>1, <1>4, <2>1
  <2>6. \A a, o, oo : a \in Nat /\ o \in Nat /\ oo \in Nat /\ oo >= o /\ cash + o >= CommittedCash
                       => (cash + a) + oo >= CommittedCash
    BY ONLY <1>1
  <2>7. QED
    BY ONLY <1>1, <1>2, <2>4, <2>5, <2>6
<1>10. QED
  BY <1>8, <1>9

\* Every step keeps cash, with what was overpaid, covering the orders.
LEMMA CashCoverStep ==
  ASSUME IInv, IInv', BuysAreLimited, FillsAreOfKnown, CashCovered, [Step]_vars
  PROVE  CashCovered'
<1> SUFFICES ASSUME EnforceCash PROVE cash' + Overpaid' >= CommittedCash'
  BY DEF CashCovered
<1>1. cash + Overpaid >= CommittedCash
  BY DEF CashCovered
<1>2. CASE [QuietStep]_vars
  <2>1. Overpaid \in Nat /\ Overpaid' \in Nat /\ Overpaid' >= Overpaid
    BY OverpaidStep
  <2>2. PICK spare \in Nat : spare = Overpaid
    BY <2>1
  <2>3. cash' + spare >= CommittedCash'
    BY <1>1, <1>2, <2>2, CashStep
  <2>4. cash' \in Int /\ CommittedCash' \in Int
    <3>1. (IInv => (\A s : CommittedShares(s) \in Int) /\ CommittedCash \in Int)'
      BY CommittedTyped, PTL
    <3>2. QED
      BY <3>1 DEF IInv, TypeOK
  <2>5. spare <= Overpaid' /\ spare \in Int /\ Overpaid' \in Int
    BY <2>1, <2>2
  <2>6. \A c, o, m \in Int : spare <= o /\ c + spare >= m => c + o >= m
    BY <2>5
  <2>7. QED
    BY <2>3, <2>4, <2>5, <2>6
<1>3. ASSUME NEW i \in OrderIds, NEW q \in Nat, NEW p \in Nat, Report(i, q, p)
      PROVE  cash' + Overpaid' >= CommittedCash'
  BY <1>1, <1>3, ReportedCash
<1>4. QED
  BY <1>2, <1>3, StepIsQuietOrReport

\* A quiet one needs no allowance for it.
LEMMA QuietCashStep ==
  ASSUME IInv, IInv', BuysAreLimited, CashSuffices, [QuietStep]_vars
  PROVE  CashSuffices'
<1> SUFFICES ASSUME EnforceCash PROVE cash' >= CommittedCash'
  BY DEF CashSuffices
<1>1. PICK spare \in Nat : spare = 0
  OBVIOUS
<1>2. cash + spare >= CommittedCash /\ cash \in Int /\ CommittedCash \in Int
  BY <1>1, CommittedTyped DEF IInv, TypeOK, CashSuffices
<1>3. cash' + spare >= CommittedCash'
  BY <1>2, CashStep
<1>4. cash' \in Int
  BY DEF IInv, TypeOK
<1>5. QED
  BY ONLY <1>1, <1>3, <1>4

\* Every step keeps what is committed covered.
LEMMA StepCover == CoverInv /\ [Step]_vars => CoverInv'
<1>1. CoverInv /\ [Step]_vars => IInv'
  BY StepPreserves DEF CoverInv
<1>2. QED
  BY <1>1, SharesStep, LimitedStep, KnownStep, CashCoverStep DEF CoverInv

\* So does a quiet one, with nothing overpaid.
LEMMA QuietStepCover == QuietCover /\ [QuietStep]_vars => QuietCover'
<1> SUFFICES ASSUME QuietCover, [QuietStep]_vars PROVE QuietCover'
  OBVIOUS
<1>1. [Step]_vars
  BY StepIsQuietOrReport
<1>2. IInv'
  BY <1>1, StepPreserves DEF QuietCover
<1>3. QED
  BY <1>1, <1>2, SharesStep, LimitedStep, QuietCashStep DEF QuietCover

\* The shares held cover every working sell order together: no sequence of quotes,
\* reports and cancels opens a short position (_committed_shares).
THEOREM NoShortPosition == Spec => []SharesCovered
<1>1. CoverInv => SharesCovered
  BY DEF CoverInv
<1>2. QED
  BY <1>1, InitCover, StepCover, NextIsStep, PTL DEF Spec

\* Cash covers every working buy at its limit, but for what reported executions cost
\* beyond the limits of their orders: while none does, an accepted buy can be paid for
\* whenever it fills (_committed_cash, apply_fill).
THEOREM BuysArePaidFor == Spec => []CashCovered
<1>1. CoverInv => CashCovered
  BY DEF CoverInv
<1>2. QED
  BY <1>1, InitCover, StepCover, NextIsStep, PTL DEF Spec

(***************************************************************************)
(* After a halt.                                                           *)
(***************************************************************************)
\* A step that may not submit adds no exposure: a buy that fills moves from what is
\* still to be bought to what is held.
LEMMA ExposureStep ==
  ASSUME IInv, IInv', [Step]_vars, halted \/ problems, NEW s \in Symbols
  PROVE  Exposure(s)' <= Exposure(s)
<1>1. Exposure(s) \in Int /\ held[s] \in Int /\ held'[s] \in Int
  BY CommittedTyped DEF IInv, TypeOK
<1>2. CASE UNCHANGED <<orders, fills, held, cash>>
  BY <1>1, <1>2 DEF Exposure, Working, Remaining
<1>3. ASSUME NEW i \in OrderIds, NEW o \in FreshOrders
      PROVE  ~Reject(i, o) /\ \A q : ~Accept(i, o, q)
  BY DEF Reject, Accept, MaySubmit
<1>4. ASSUME NEW i \in OrderIds, Cancel(i)
      PROVE  Exposure(s)' <= Exposure(s)
  <2>1. \A j \in OrderIds \ {i} : orders'[j] = orders[j]
    BY <1>4, CancelledCounts
  <2>2. Buying(i, s)' = 0 /\ Buying(i, s) \in Nat
    BY <1>4, CancelledCounts, Counts DEF CountsAreNatural
  <2>3. Exposure(s)' = Exposure(s) - held[s] + held'[s] - Buying(i, s) + Buying(i, s)'
    BY <2>1, CommittedChange
  <2>4. held'[s] = held[s]
    BY <1>4 DEF Cancel
  <2>5. QED
    BY <1>1, <2>2, <2>3, <2>4
<1>5. ASSUME NEW i \in OrderIds, NEW q \in Nat, NEW p \in Nat, ApplyFill(i, q, p)
      PROVE  Exposure(s)' <= Exposure(s)
  <2>0. ApplyFill(i, q, p)
    BY <1>5
  <2>1. /\ \A j \in OrderIds \ {i} : orders'[j] = orders[j]
        /\ orders[i] \in OrderType /\ Working(i) /\ Remaining(i) \in Nat
    BY <2>0, ExecutedCounts, WorkingOrder
  <2>2. Buying(i, s)' = IF orders[i].side = "BUY" /\ orders[i].symbol = s
                        THEN Remaining(i) - q ELSE 0
    BY <2>0, ExecutedCounts
  <2>3. Buying(i, s) = IF orders[i].side = "BUY" /\ orders[i].symbol = s
                       THEN Remaining(i) ELSE 0
    BY <2>1 DEF Buying
  <2>4. Exposure(s)' = Exposure(s) - held[s] + held'[s] - Buying(i, s) + Buying(i, s)'
    BY <2>1, CommittedChange
  <2>5. held'[s] = held[s] + IF s = orders[i].symbol
                             THEN (IF orders[i].side = "BUY" THEN q ELSE -q) ELSE 0
    BY <2>0, ExecutedBooks
  <2>6. CASE orders[i].symbol = s /\ orders[i].side = "BUY"
    <3>1. Buying(i, s)' = Remaining(i) - q /\ Buying(i, s) = Remaining(i) /\ held'[s] = held[s] + q
      BY <2>2, <2>3, <2>5, <2>6
    <3>2. QED
      BY <1>1, <2>1, <2>4, <3>1
  <2>7. CASE orders[i].symbol = s /\ orders[i].side # "BUY"
    <3>1. Buying(i, s)' = 0 /\ Buying(i, s) = 0 /\ held'[s] = held[s] - q
      BY <1>1, <2>2, <2>3, <2>5, <2>7
    <3>2. QED
      BY <1>1, <2>4, <3>1
  <2>8. CASE orders[i].symbol # s
    <3>1. Buying(i, s)' = 0 /\ Buying(i, s) = 0 /\ held'[s] = held[s]
      BY <1>1, <2>2, <2>3, <2>5, <2>8
    <3>2. QED
      BY <1>1, <2>4, <3>1
  <2>9. QED
    BY <2>6, <2>7, <2>8
<1>6. QED
  BY <1>2, <1>3, <1>4, <1>5, StepKinds

\* Once the kill switch is engaged or the book flagged, the most that can still be held
\* in an instrument only shrinks (guard_submission, submit).
THEOREM HaltAddsNoRisk == Spec => NoNewRisk
<1>1. IInv /\ IInv' /\ [Next]_vars
        => [halted \/ problems => \A s \in Symbols : Exposure(s)' <= Exposure(s)]_vars
  BY ExposureStep, NextIsStep
<1>2. QED
  BY <1>1, Invariance, PTL DEF Spec, NoNewRisk

(***************************************************************************)
(* The books.                                                              *)
(***************************************************************************)
\* What the executions in a list sum up to.
FilledSum(fs, i) ==
  SumFunction([n \in {n \in DOMAIN fs : fs[n].order = i} |-> fs[n].quantity])

HeldSum(fs, s) ==
  SumFunction([n \in {n \in DOMAIN fs : fs[n].symbol = s} |-> Signed(fs[n])])

PaidSum(fs) == SumFunction([n \in DOMAIN fs |-> Signed(fs[n]) * fs[n].price])

\* With one more execution the sums grow by that one, where it belongs.
LEMMA SumsAppended ==
  ASSUME NEW fs \in Seq(Fills), NEW f \in Fills, NEW i, NEW s
  PROVE  /\ FilledSum(Append(fs, f), i) = FilledSum(fs, i) + IF f.order = i THEN f.quantity ELSE 0
         /\ HeldSum(Append(fs, f), s) = HeldSum(fs, s) + IF f.symbol = s THEN Signed(f) ELSE 0
         /\ PaidSum(Append(fs, f)) = PaidSum(fs) + Signed(f) * f.price
<1> DEFINE gs == Append(fs, f)
           N == Len(fs) + 1
<1>1. /\ DOMAIN fs = 1 .. Len(fs) /\ DOMAIN gs = DOMAIN fs \cup {N} /\ N \notin DOMAIN fs
      /\ gs[N] = f /\ \A n \in DOMAIN fs : gs[n] = fs[n] /\ fs[n] \in Fills
  OBVIOUS
<1>2. \A x \in Fills : /\ x.quantity \in Int /\ Signed(x) \in Int
                       /\ Signed(x) * x.price \in Int
  BY DEF Fills, Signed
<1>3. IsFiniteSet(DOMAIN fs)
  BY <1>1, FS_Interval
<1> HIDE DEF gs, N
<1>4. FilledSum(gs, i) = FilledSum(fs, i) + IF f.order = i THEN f.quantity ELSE 0
  <2> DEFINE S == {n \in DOMAIN fs : fs[n].order = i}
             T == {n \in DOMAIN gs : gs[n].order = i}
             a == [n \in S |-> fs[n].quantity]
             b == [n \in T |-> gs[n].quantity]
  <2>1. FilledSum(fs, i) = SumFunction(a) /\ FilledSum(gs, i) = SumFunction(b)
    BY DEF FilledSum
  <2>2. IsFiniteSet(S)
    BY <1>3, FS_Subset
  <2>3. \A n \in S : a[n] \in Int
    BY <1>1, <1>2
  <2>4. CASE f.order = i
    <3>1. /\ DOMAIN a = S /\ DOMAIN b = S \cup {N} /\ N \notin S
          /\ b[N] = f.quantity /\ \A n \in S : b[n] = a[n]
      BY <1>1, <2>4
    <3>2. b[N] \in Int
      BY <1>2, <3>1
    <3> HIDE DEF a, b, S
    <3>3. SumFunction(b) = SumFunction(a) + b[N]
      BY <2>2, <2>3, <3>1, <3>2, SumExtended
    <3>4. QED
      BY <2>1, <2>4, <3>1, <3>3
  <2>5. CASE f.order # i
    <3>1. T = S
      BY <1>1, <2>5
    <3>2. a = b
      BY <1>1, <3>1
    <3>3. SumFunction(a) \in Int
      <4>1. DOMAIN a = S
        OBVIOUS
      <4> HIDE DEF a, S
      <4>2. QED
        BY <2>2, <2>3, <4>1, SumIsInt DEF SumFunction
    <3> HIDE DEF a, b
    <3>4. QED
      BY <2>1, <2>5, <3>2, <3>3
  <2>6. QED
    BY <2>4, <2>5
<1>5. HeldSum(gs, s) = HeldSum(fs, s) + IF f.symbol = s THEN Signed(f) ELSE 0
  <2> DEFINE S == {n \in DOMAIN fs : fs[n].symbol = s}
             T == {n \in DOMAIN gs : gs[n].symbol = s}
             a == [n \in S |-> Signed(fs[n])]
             b == [n \in T |-> Signed(gs[n])]
  <2>1. HeldSum(fs, s) = SumFunction(a) /\ HeldSum(gs, s) = SumFunction(b)
    BY DEF HeldSum
  <2>2. IsFiniteSet(S)
    BY <1>3, FS_Subset
  <2>3. \A n \in S : a[n] \in Int
    BY <1>1, <1>2
  <2>4. CASE f.symbol = s
    <3>1. /\ DOMAIN a = S /\ DOMAIN b = S \cup {N} /\ N \notin S
          /\ b[N] = Signed(f) /\ \A n \in S : b[n] = a[n]
      BY <1>1, <2>4
    <3>2. b[N] \in Int
      BY <1>2, <3>1
    <3> HIDE DEF a, b, S
    <3>3. SumFunction(b) = SumFunction(a) + b[N]
      BY <2>2, <2>3, <3>1, <3>2, SumExtended
    <3>4. QED
      BY <2>1, <2>4, <3>1, <3>3
  <2>5. CASE f.symbol # s
    <3>1. T = S
      BY <1>1, <2>5
    <3>2. a = b
      BY <1>1, <3>1
    <3>3. SumFunction(a) \in Int
      <4>1. DOMAIN a = S
        OBVIOUS
      <4> HIDE DEF a, S
      <4>2. QED
        BY <2>2, <2>3, <4>1, SumIsInt DEF SumFunction
    <3> HIDE DEF a, b
    <3>4. QED
      BY <2>1, <2>5, <3>2, <3>3
  <2>6. QED
    BY <2>4, <2>5
<1>6. PaidSum(gs) = PaidSum(fs) + Signed(f) * f.price
  <2> DEFINE a == [n \in DOMAIN fs |-> Signed(fs[n]) * fs[n].price]
             b == [n \in DOMAIN gs |-> Signed(gs[n]) * gs[n].price]
  <2>1. PaidSum(fs) = SumFunction(a) /\ PaidSum(gs) = SumFunction(b)
    BY DEF PaidSum
  <2>2. \A n \in DOMAIN fs : a[n] \in Int
    BY <1>1, <1>2
  <2>3. /\ DOMAIN a = DOMAIN fs /\ DOMAIN b = DOMAIN fs \cup {N}
        /\ b[N] = Signed(f) * f.price /\ \A n \in DOMAIN fs : b[n] = a[n]
    BY <1>1
  <2>4. b[N] \in Int
    BY <1>2, <2>3
  <2> HIDE DEF a, b
  <2>5. SumFunction(b) = SumFunction(a) + b[N]
    BY <1>1, <1>3, <2>2, <2>3, <2>4, SumExtended
  <2>6. QED
    BY <2>1, <2>3, <2>5
<1>7. QED
  BY <1>4, <1>5, <1>6 DEF gs

\* Sums over no executions.
LEMMA SumsOfNone ==
  /\ \A i : FilledSum(<<>>, i) = 0
  /\ \A s : HeldSum(<<>>, s) = 0
  /\ PaidSum(<<>>) = 0
<1>1. ASSUME NEW f, DOMAIN f = {}
      PROVE  SumFunction(f) = 0
  BY <1>1, FS_EmptySet, SumOfZeros DEF SumFunction
<1>2. ASSUME NEW i
      PROVE  FilledSum(<<>>, i) = 0
  <2> DEFINE f == [n \in {n \in DOMAIN <<>> : <<>>[n].order = i} |-> <<>>[n].quantity]
  <2>1. DOMAIN f = {}
    OBVIOUS
  <2>2. SumFunction(f) = 0
    BY <1>1, <2>1
  <2>3. QED
    BY <2>2 DEF FilledSum
<1>3. ASSUME NEW s
      PROVE  HeldSum(<<>>, s) = 0
  <2> DEFINE f == [n \in {n \in DOMAIN <<>> : <<>>[n].symbol = s} |-> Signed(<<>>[n])]
  <2>1. DOMAIN f = {}
    OBVIOUS
  <2>2. SumFunction(f) = 0
    BY <1>1, <2>1
  <2>3. QED
    BY <2>2 DEF HeldSum
<1>4. PaidSum(<<>>) = 0
  <2> DEFINE f == [n \in DOMAIN <<>> |-> Signed(<<>>[n]) * <<>>[n].price]
  <2>1. DOMAIN f = {}
    OBVIOUS
  <2>2. SumFunction(f) = 0
    BY <1>1, <2>1
  <2>3. QED
    BY <2>2 DEF PaidSum
<1>5. QED
  BY <1>2, <1>3, <1>4

\* The property, in terms of these sums.
LEMMA BooksAreSums ==
  BooksAgree <=> /\ \A i \in OrderIds : orders[i].filled = FilledSum(fills, i)
                 /\ \A s \in Symbols : held[s] = HeldSum(fills, s)
                 /\ cash = InitialCash - PaidSum(fills)
BY DEF BooksAgree, FilledSum, HeldSum, PaidSum

\* An execution adds the same quantity to the order, the position, cash and the list;
\* nothing else touches any of them.
LEMMA BooksStep ==
  ASSUME IInv, BooksAgree, [Step]_vars
  PROVE  BooksAgree'
<1>1. /\ \A i \in OrderIds : orders[i].filled = FilledSum(fills, i)
      /\ \A s \in Symbols : held[s] = HeldSum(fills, s)
      /\ cash = InitialCash - PaidSum(fills)
  BY BooksAreSums
<1> SUFFICES /\ \A i \in OrderIds : orders'[i].filled = FilledSum(fills', i)
             /\ \A s \in Symbols : held'[s] = HeldSum(fills', s)
             /\ cash' = InitialCash - PaidSum(fills')
  BY DEF BooksAgree, FilledSum, HeldSum, PaidSum
<1>2. CASE UNCHANGED <<orders, fills, held, cash>>
  BY <1>1, <1>2
<1>3. ASSUME NEW i \in OrderIds, ~Known(i)
      PROVE  orders[i].filled = 0
  BY <1>3 DEF IInv, StateMatchesFilled, Known
<1>4. ASSUME NEW i \in OrderIds, NEW o \in FreshOrders, NEW st \in States, ~Known(i),
             orders' = [orders EXCEPT ![i] = [o EXCEPT !.state = st]],
             UNCHANGED <<fills, held, cash>>
      PROVE  /\ \A j \in OrderIds : orders'[j].filled = FilledSum(fills', j)
             /\ \A s \in Symbols : held'[s] = HeldSum(fills', s)
             /\ cash' = InitialCash - PaidSum(fills')
  <2>1. /\ orders'[i].filled = 0 /\ orders[i].filled = 0
        /\ \A j \in OrderIds : j # i => orders'[j] = orders[j]
    <3>1. TypeOK
      BY DEF IInv
    <3>2. orders[i].filled = 0
      BY <1>3, <1>4
    <3>3. QED
      BY ONLY <1>4, <3>1, <3>2, PutOrder
  <2>2. \A j \in OrderIds : orders'[j].filled = orders[j].filled
    BY ONLY <2>1
  <2>3. QED
    BY ONLY <1>1, <1>4, <2>2
<1>5. ASSUME NEW i \in OrderIds, NEW o \in FreshOrders, Reject(i, o)
      PROVE  /\ \A j \in OrderIds : orders'[j].filled = FilledSum(fills', j)
             /\ \A s \in Symbols : held'[s] = HeldSum(fills', s)
             /\ cash' = InitialCash - PaidSum(fills')
  <2>1. "REJECTED" \in States
    BY DEF States
  <2>2. QED
    BY <1>4, <1>5, <2>1 DEF Reject, MaySubmit
<1>6. ASSUME NEW i \in OrderIds, NEW o \in FreshOrders, NEW q \in QuoteType \cup {NoQuote},
             Accept(i, o, q)
      PROVE  /\ \A j \in OrderIds : orders'[j].filled = FilledSum(fills', j)
             /\ \A s \in Symbols : held'[s] = HeldSum(fills', s)
             /\ cash' = InitialCash - PaidSum(fills')
  <2>1. "OPEN" \in States
    BY DEF States
  <2>2. QED
    BY <1>4, <1>6, <2>1 DEF Accept, MaySubmit
<1>7. ASSUME NEW i \in OrderIds, Cancel(i)
      PROVE  /\ \A j \in OrderIds : orders'[j].filled = FilledSum(fills', j)
             /\ \A s \in Symbols : held'[s] = HeldSum(fills', s)
             /\ cash' = InitialCash - PaidSum(fills')
  <2>1. orders[i] \in OrderType /\ orders' = [orders EXCEPT ![i].state = "CANCELLED"]
    BY <1>7 DEF IInv, Cancel, Known, Unknown, TypeOK
  <2>2. \A j \in OrderIds : orders'[j].filled = orders[j].filled
    BY <2>1 DEF IInv, TypeOK, OrderType
  <2>3. QED
    BY <1>1, <1>7, <2>2 DEF Cancel
<1>8. ASSUME NEW i \in OrderIds, NEW q \in Nat, NEW p \in Nat, ApplyFill(i, q, p)
      PROVE  /\ \A j \in OrderIds : orders'[j].filled = FilledSum(fills', j)
             /\ \A s \in Symbols : held'[s] = HeldSum(fills', s)
             /\ cash' = InitialCash - PaidSum(fills')
  <2> DEFINE fill == [order |-> i, symbol |-> orders[i].symbol, side |-> orders[i].side,
                      quantity |-> q, price |-> p]
             change == IF orders[i].side = "BUY" THEN q ELSE -q
  <2>0. ApplyFill(i, q, p)
    BY <1>8
  <2>1. /\ orders[i] \in OrderType /\ orders'[i].filled = orders[i].filled + q
        /\ \A j \in OrderIds \ {i} : orders'[j] = orders[j]
    BY <2>0, ExecutedCounts
  <2>2. fills \in Seq(Fills) /\ fill \in Fills
    BY <2>1 DEF IInv, TypeOK, Fills, OrderType
  <2>3. /\ \A s \in Symbols :
             held'[s] = held[s] + IF s = orders[i].symbol THEN change ELSE 0
        /\ cash' = cash - change * p
        /\ fills' = Append(fills, fill)
        /\ Signed(fill) = change
    BY <2>0, ExecutedBooks
  <2>4. fill.order = i /\ fill.symbol = orders[i].symbol /\ fill.quantity = q /\ fill.price = p
    OBVIOUS
  <2>5. cash \in Int /\ change * p \in Int /\ InitialCash \in Int
    <3>1. cash \in Int
      BY DEF IInv, TypeOK
    <3>2. InitialCash \in Int
      BY BrokerConstants
    <3>3. change \in Int
      BY ONLY <1>8
    <3>4. \A a \in Int, b \in Nat : a * b \in Int
      OBVIOUS
    <3> HIDE DEF change
    <3>5. change * p \in Int
      BY ONLY <1>8, <3>3, <3>4
    <3>6. QED
      BY ONLY <3>1, <3>2, <3>5
  <2> HIDE DEF fill, change
  <2>6. \A j \in OrderIds : FilledSum(fills', j) = FilledSum(fills, j) + IF i = j THEN q ELSE 0
    <3> SUFFICES ASSUME NEW j \in OrderIds
                 PROVE  FilledSum(fills', j) = FilledSum(fills, j) + IF i = j THEN q ELSE 0
      OBVIOUS
    <3>1. FilledSum(Append(fills, fill), j)
            = FilledSum(fills, j) + IF fill.order = j THEN fill.quantity ELSE 0
      BY ONLY <2>2, SumsAppended
    <3>2. QED
      BY ONLY <2>3, <2>4, <3>1
  <2>7. \A s \in Symbols :
          HeldSum(fills', s) = HeldSum(fills, s) + IF orders[i].symbol = s THEN change ELSE 0
    <3> SUFFICES ASSUME NEW s \in Symbols
                 PROVE  HeldSum(fills', s) = HeldSum(fills, s) + IF orders[i].symbol = s THEN change ELSE 0
      OBVIOUS
    <3>1. HeldSum(Append(fills, fill), s)
            = HeldSum(fills, s) + IF fill.symbol = s THEN Signed(fill) ELSE 0
      BY <2>2, SumsAppended
    <3>2. QED
      BY <2>3, <2>4, <3>1
  <2>8. PaidSum(fills') = PaidSum(fills) + change * p
    BY <2>2, <2>3, <2>4, SumsAppended
  <2>9. \A j \in OrderIds : orders[j].filled \in Int
    BY DEF IInv, TypeOK, OrderType, Unknown
  <2>10. \A j \in OrderIds : orders'[j].filled = FilledSum(fills', j)
    <3> SUFFICES ASSUME NEW j \in OrderIds PROVE orders'[j].filled = FilledSum(fills', j)
      OBVIOUS
    <3>1. CASE j = i
      BY <1>1, <2>1, <2>6, <3>1
    <3>2. CASE j # i
      BY <1>1, <2>1, <2>6, <2>9, <3>2
    <3>3. QED
      BY <3>1, <3>2
  <2>11. \A s \in Symbols : held'[s] = HeldSum(fills', s)
    BY <1>1, <2>3, <2>7
  <2>12. PaidSum(fills) \in Int
    <3>1. DOMAIN fills = 1 .. Len(fills)
      BY <2>2
    <3>2. IsFiniteSet(DOMAIN fills)
      BY <2>2, <3>1, FS_Interval
    <3> DEFINE a == [n \in DOMAIN fills |-> Signed(fills[n]) * fills[n].price]
    <3>3. \A n \in DOMAIN fills : a[n] \in Int
      <4>1. \A x \in Fills : Signed(x) * x.price \in Int
        BY DEF Fills, Signed
      <4>2. \A n \in DOMAIN fills : fills[n] \in Fills
        BY <2>2
      <4>3. QED
        BY <4>1, <4>2
    <3>4. DOMAIN a = DOMAIN fills /\ PaidSum(fills) = SumFunction(a)
      BY DEF PaidSum
    <3> HIDE DEF a
    <3>5. QED
      BY <3>2, <3>3, <3>4, SumIsInt DEF SumFunction
  <2>13. cash' = InitialCash - PaidSum(fills')
    BY <1>1, <2>3, <2>5, <2>8, <2>12
  <2>14. QED
    BY <2>10, <2>11, <2>13
<1>9. QED
  BY <1>2, <1>5, <1>6, <1>7, <1>8, StepKinds

\* A new broker's accounts are those of no history.
LEMMA InitBooks == Init => BooksAgree
<1>1. ASSUME Init
      PROVE  /\ \A i \in OrderIds : orders[i].filled = FilledSum(fills, i)
             /\ \A s \in Symbols : held[s] = HeldSum(fills, s)
             /\ cash = InitialCash - PaidSum(fills)
  BY <1>1, SumsOfNone, BrokerConstants DEF Init, Unknown
<1>2. QED
  BY <1>1, BooksAreSums

\* The accounts of one history agree: each order's filled quantity, the position book
\* and cash are sums over the same list of fills, however long it grows (apply_fill).
THEOREM AccountsAgree == Spec => []BooksAgree
<1>1. Init => BooksAgree
  BY InitBooks
<1>2. IInv /\ BooksAgree /\ [Next]_vars => BooksAgree'
  BY BooksStep, NextIsStep
<1>3. QED
  BY <1>1, <1>2, Invariance, PTL DEF Spec

(***************************************************************************)
(* The quote.                                                              *)
(***************************************************************************)
\* An order is in the queue once, from its submission on.
QueueInv ==
  /\ \A a, b \in DOMAIN queue : queue[a] = queue[b] => a = b
  /\ \A a \in DOMAIN queue : Known(queue[a])

Taken(side) == SumFunction([n \in QuoteFills(side) |-> fills[n].quantity])

\* What a quote has given out and what it has left is what it offered.
PoolInv ==
  /\ quote.since <= Len(fills)
  /\ quote # NoQuote => \A side \in Sides : Taken(side) + quote.pool[side] = quote.offered[side]

\* No place the quote has passed can still be filled from it, and all its executions
\* are of places it has passed.
PassedInv ==
  quote # NoQuote =>
    /\ quote.symbol \in Symbols
    /\ quote.from <= quote.at /\ quote.at <= Len(queue)
    /\ \A m \in quote.from + 1 .. quote.at : ~Fillable(m)
    /\ \A n \in quote.since + 1 .. Len(fills) :
         \E b \in quote.from + 1 .. quote.at : queue[b] = fills[n].order

QuoteInv == IInv /\ QueueInv /\ PoolInv /\ PassedInv /\ TimePriority

\* A new broker serves no quote and has no queue.
LEMMA InitQuote == Init => QuoteInv
<1> SUFFICES ASSUME Init PROVE QuoteInv
  OBVIOUS
<1>1. IInv
  BY InitIInv
<1>2. QueueInv
  BY DEF Init, QueueInv
<1>3. PoolInv /\ PassedInv /\ TimePriority
  BY DEF Init, PoolInv, PassedInv, TimePriority, NoQuote
<1>4. QED
  BY <1>1, <1>2, <1>3 DEF QuoteInv

\* An order that is submitted is not in the queue yet, and none in it is forgotten.
LEMMA QueueStep ==
  ASSUME IInv, QueueInv, [Step]_vars
  PROVE  QueueInv'
<1>1. queue \in Seq(OrderIds)
  BY DEF IInv, TypeOK
<1>2. ASSUME NEW i \in OrderIds, NEW o \in FreshOrders, NEW st \in {"OPEN", "REJECTED"},
             ~Known(i), orders' = [orders EXCEPT ![i] = [o EXCEPT !.state = st]],
             queue' = Append(queue, i)
      PROVE  QueueInv'
  <2>1. st \in States
    BY DEF States
  <2>2. Known(i)' /\ \A j \in OrderIds : j # i => orders'[j] = orders[j]
    BY <1>2, <2>1, PutOrder DEF IInv, Known
  <2>3. \A a \in DOMAIN queue : queue[a] \in OrderIds /\ queue[a] # i /\ Known(queue[a])
    BY <1>1, <1>2 DEF QueueInv
  <2>4. /\ DOMAIN queue' = DOMAIN queue \cup {Len(queue) + 1}
        /\ queue'[Len(queue) + 1] = i /\ \A a \in DOMAIN queue : queue'[a] = queue[a]
    BY <1>1, <1>2
  <2>5. \A a, b \in DOMAIN queue' : queue'[a] = queue'[b] => a = b
    BY <2>3, <2>4 DEF QueueInv
  <2>6. \A a \in DOMAIN queue' : orders'[queue'[a]].state # "PENDING"
    BY <2>2, <2>3, <2>4 DEF Known
  <2>7. QED
    BY <2>5, <2>6 DEF QueueInv, Known
<1>3. ASSUME queue' = queue, \A j \in OrderIds : Known(j) => Known(j)'
      PROVE  QueueInv'
  <2>1. \A a \in DOMAIN queue : queue[a] \in OrderIds /\ Known(queue[a])
    BY <1>1 DEF QueueInv
  <2>2. \A a \in DOMAIN queue : orders'[queue[a]].state # "PENDING"
    BY <1>3, <2>1 DEF Known
  <2>3. QED
    BY <1>3, <2>2 DEF QueueInv, Known
<1>4. ASSUME NEW i \in OrderIds, NEW o \in FreshOrders, Reject(i, o)
      PROVE  QueueInv'
  BY <1>2, <1>4 DEF Reject, MaySubmit
<1>5. ASSUME NEW i \in OrderIds, NEW o \in FreshOrders, NEW q \in QuoteType \cup {NoQuote},
             Accept(i, o, q)
      PROVE  QueueInv'
  BY <1>2, <1>5 DEF Accept, MaySubmit
<1>6. ASSUME NEW i \in OrderIds, Cancel(i)
      PROVE  QueueInv'
  <2>1. orders[i] \in OrderType /\ orders' = [orders EXCEPT ![i].state = "CANCELLED"]
    BY <1>6 DEF IInv, Cancel, Known, Unknown, TypeOK
  <2>2. \A j \in OrderIds : Known(j) => Known(j)'
    BY <2>1 DEF IInv, TypeOK, OrderType, Known
  <2>3. QED
    BY <1>3, <1>6, <2>2 DEF Cancel
<1>7. ASSUME NEW i \in OrderIds, NEW q, NEW p, ApplyFill(i, q, p)
      PROVE  QueueInv'
  <2>1. orders[i] \in OrderType /\ orders' = [orders EXCEPT ![i] = Advanced(i, q)]
    BY <1>7, WorkingOrder DEF ApplyFill
  <2>2. Advanced(i, q).state # "PENDING"
    BY <2>1 DEF Advanced, OrderType
  <2>3. \A j \in OrderIds : Known(j) => Known(j)'
    BY <2>1, <2>2 DEF IInv, TypeOK, Known
  <2>4. QED
    BY <1>3, <1>7, <2>3 DEF ApplyFill
<1>8. CASE Serve
  <2>1. PICK n \in quote.at + 1 .. Len(queue) :
          ApplyFill(queue[n], FillSize(queue[n]), MarketablePrice(queue[n]))
    BY <1>8 DEF Serve
  <2>2. queue[n] \in OrderIds
    BY DEF IInv, TypeOK, ServedType
  <2>3. QED
    BY <1>7, <2>1, <2>2
<1>9. ASSUME NEW i \in OrderIds, NEW q \in Nat, NEW p \in Nat, Report(i, q, p)
      PROVE  QueueInv'
  BY <1>7, <1>9 DEF Report
<1>10. CASE \/ \E q \in QuoteType : OnQuote(q)
            \/ MarkStateUnknown \/ Engage \/ Release \/ UNCHANGED vars
  BY <1>3, <1>10 DEF OnQuote, MarkStateUnknown, Engage, Release, vars, Known
<1>11. QED
  BY <1>4, <1>5, <1>6, <1>8, <1>9, <1>10 DEF Step

\* A step that ends the quote.
LEMMA QuoteEnds ==
  ASSUME IInv, IInv', quote' = NoQuote
  PROVE  PoolInv' /\ PassedInv' /\ TimePriority'
<1>1. quote'.since = 0 /\ Len(fills') \in Nat
  BY DEF NoQuote, IInv, TypeOK
<1>2. QED
  BY <1>1 DEF PoolInv, PassedInv, TimePriority

\* One that opens another: it has given out nothing and passed no place.
LEMMA QuoteOpens ==
  ASSUME IInv, IInv', NEW q \in QuoteType, NEW place \in Nat, quote' = Opened(q, place),
         fills' = fills, place <= Len(queue')
  PROVE  PoolInv' /\ PassedInv' /\ TimePriority'
<1>1. Len(fills) \in Nat /\ fills \in Seq(Fills)
  BY DEF IInv, TypeOK
<1>2. q \in QuoteType
  OBVIOUS
<1>3. /\ quote'.since = Len(fills) /\ quote'.from = place /\ quote'.at = place
      /\ quote'.symbol \in Symbols /\ quote'.pool = quote'.offered
      /\ quote'.pool \in [Sides -> Nat]
  BY <1>2 DEF Opened, QuoteType
<1>4. \A n \in quote'.since + 1 .. Len(fills') : FALSE
  BY <1>1, <1>3
<1>5. \A side : QuoteFills(side)' = {}
  BY <1>4 DEF QuoteFills
<1>6. \A side \in Sides : Taken(side)' + quote'.pool[side] = quote'.offered[side]
  <2>1. ASSUME NEW side \in Sides
        PROVE  Taken(side)' = 0
    <3> DEFINE f == [n \in QuoteFills(side)' |-> fills'[n].quantity]
    <3>1. DOMAIN f = {} /\ Taken(side)' = SumFunction(f)
      BY <1>5 DEF Taken
    <3> HIDE DEF f
    <3>2. QED
      BY <3>1, FS_EmptySet, SumOfZeros DEF SumFunction
  <2>2. QED
    BY <1>3, <2>1
<1>7. PoolInv'
  BY <1>1, <1>3, <1>6 DEF PoolInv
<1>8. PassedInv'
  BY <1>3, <1>4 DEF PassedInv
<1>9. TimePriority'
  BY <1>5 DEF TimePriority
<1>10. QED
  BY <1>7, <1>8, <1>9

\* What a fill from the quote leaves: the order at the place served cannot be filled
\* from it again, being complete or the pool of its side empty.
LEMMA ServedPlace ==
  ASSUME QuoteInv, IInv', NEW n \in quote.at + 1 .. Len(queue), NextFilled(n),
         ApplyFill(queue[n], FillSize(queue[n]), MarketablePrice(queue[n])),
         quote' = Drained(n, FillSize(queue[n]))
  PROVE  /\ n \in 1 .. Len(queue) /\ queue[n] \in OrderIds /\ queue' = queue
         /\ orders[queue[n]] \in OrderType /\ quote # NoQuote
         /\ FillSize(queue[n]) \in Nat
         /\ quote' = [quote EXCEPT !.at = n, !.pool = quote'.pool]
         /\ quote'.pool = [quote.pool EXCEPT ![orders[queue[n]].side] = @ - FillSize(queue[n])]
         /\ \A m \in DOMAIN queue : m # n => orders'[queue[m]] = orders[queue[m]]
         /\ ~Fillable(n)'
<1>1. IInv /\ TypeOK /\ StateMatchesFilled /\ QueueInv /\ quote \in ServedType
  BY DEF QuoteInv, IInv, TypeOK
<1>2. n \in 1 .. Len(queue) /\ queue[n] \in OrderIds /\ n \in Nat
  BY <1>1 DEF TypeOK, ServedType
<1> DEFINE i == queue[n]
           size == FillSize(i)
<1>3. Fillable(n)
  BY DEF NextFilled
<1>4. size \in Nat /\ MarketablePrice(i) \in Nat
  BY <1>1, <1>2, <1>3, DrainedTyped
<1>5. /\ orders[i] \in OrderType /\ size <= Remaining(i)
      /\ orders'[i].symbol = orders[i].symbol /\ orders'[i].side = orders[i].side
      /\ \A j \in OrderIds \ {i} : orders'[j] = orders[j]
      /\ orders'[i].filled = orders[i].filled + size
  BY <1>1, <1>2, <1>4, ExecutedCounts
<1>6. quote # NoQuote
  BY <1>3, <1>5, BrokerConstants DEF Fillable, OrderType, NoQuote
<1>7. queue' = queue
  BY DEF ApplyFill
<1> HIDE DEF i, size
<1>8. /\ quote' = [quote EXCEPT !.at = n, !.pool = [quote.pool EXCEPT ![orders[i].side] = @ - size]]
      /\ quote'.pool = [quote.pool EXCEPT ![orders[i].side] = @ - size]
  <2>1. quote' = [quote EXCEPT !.at = n, !.pool[orders[i].side] = @ - size]
    BY DEF Drained, i, size
  <2>2. QED
    BY <1>1, <2>1 DEF ServedType
<1>9. \A m \in DOMAIN queue : m # n => orders'[queue[m]] = orders[queue[m]]
  <2>1. \A m \in DOMAIN queue : m # n => queue[m] # i /\ queue[m] \in OrderIds
    BY <1>1, <1>2 DEF QueueInv, TypeOK, i
  <2>2. QED
    BY <1>5, <2>1
<1>10. ~Fillable(n)'
  <2>1. quote.pool[orders[i].side] \in Nat /\ Remaining(i) \in Nat
    BY <1>1, <1>3, <1>5, <1>2, WorkingOrder DEF ServedType, OrderType, Fillable, i
  <2>2. size = IF Remaining(i) <= quote.pool[orders[i].side]
               THEN Remaining(i) ELSE quote.pool[orders[i].side]
    BY DEF FillSize, size, i
  <2>3. quote'.pool[orders'[i].side] = quote.pool[orders[i].side] - size
    BY <1>1, <1>5, <1>8 DEF ServedType, OrderType
  <2>4. CASE Remaining(i) <= quote.pool[orders[i].side]
    <3>1. orders'[i] = Advanced(i, size)
      BY <1>1, <1>2 DEF ApplyFill, TypeOK, i, size
    <3>2. orders[i].filled + size >= orders[i].quantity
      BY <1>5, <2>2, <2>4 DEF Remaining, OrderType
    <3>3. orders'[i].state = "FILLED"
      BY <1>5, <3>1, <3>2 DEF Advanced, OrderType
    <3>4. QED
      BY <1>7, <3>3 DEF Fillable, Working, WorkingStates, i
  <2>5. CASE ~(Remaining(i) <= quote.pool[orders[i].side])
    <3>1. quote'.pool[orders'[i].side] = 0
      BY <2>1, <2>2, <2>3, <2>5
    <3>2. QED
      BY <1>7, <3>1 DEF Fillable, i
  <2>6. QED
    BY <2>4, <2>5
<1>11. QED
  BY <1>2, <1>4, <1>5, <1>6, <1>7, <1>8, <1>9, <1>10 DEF i, size

\* An execution from the quote takes from its side's pool what it adds to what was taken.
LEMMA PoolServed ==
  ASSUME QuoteInv, IInv', NEW n \in quote.at + 1 .. Len(queue), NextFilled(n),
         ApplyFill(queue[n], FillSize(queue[n]), MarketablePrice(queue[n])),
         quote' = Drained(n, FillSize(queue[n]))
  PROVE  PoolInv'
<1> DEFINE i == queue[n]
           size == FillSize(i)
           fill == [order |-> i, symbol |-> orders[i].symbol, side |-> orders[i].side,
                    quantity |-> size, price |-> MarketablePrice(i)]
           N == Len(fills) + 1
<1>1. /\ quote # NoQuote /\ size \in Nat /\ orders[i] \in OrderType
      /\ quote' = [quote EXCEPT !.at = n, !.pool = quote'.pool]
      /\ quote'.pool = [quote.pool EXCEPT ![orders[i].side] = @ - size]
  BY ServedPlace
<1>2. fills' = Append(fills, fill)
  BY DEF ApplyFill
<1>3. quote \in ServedType /\ fills \in Seq(Fills) /\ Len(fills) \in Nat
  BY DEF QuoteInv, IInv, TypeOK
<1>4. fill.side = orders[i].side /\ fill.quantity = size
  OBVIOUS
<1> HIDE DEF i, size, fill
<1>5. /\ Len(fills') = N /\ fills'[N] = fill
      /\ \A m \in 1 .. Len(fills) : fills'[m] = fills[m] /\ fills[m].quantity \in Nat
  <2>1. \A m \in 1 .. Len(fills) : fills[m] \in Fills
    BY <1>3
  <2>2. \A x \in Fills : x.quantity \in Nat
    BY DEF Fills
  <2>3. /\ Len(fills') = N /\ fills'[N] = fill
        /\ \A m \in 1 .. Len(fills) : fills'[m] = fills[m]
    BY <1>2, <1>3
  <2>4. QED
    BY <2>1, <2>2, <2>3
<1>6. /\ quote'.since = quote.since /\ quote'.offered = quote.offered
      /\ quote.since \in Nat /\ quote.since <= Len(fills)
      /\ \A side \in Sides : Taken(side) + quote.pool[side] = quote.offered[side]
  BY <1>1, <1>3 DEF QuoteInv, PoolInv, ServedType
<1>7. ASSUME NEW side \in Sides
      PROVE  Taken(side)' + quote'.pool[side] = quote'.offered[side]
  <2> DEFINE S == QuoteFills(side)
             T == QuoteFills(side)'
             a == [m \in S |-> fills[m].quantity]
             b == [m \in T |-> fills'[m].quantity]
  <2>1. Taken(side) = SumFunction(a) /\ Taken(side)' = SumFunction(b)
    BY DEF Taken
  <2>2. IsFiniteSet(S) /\ S \subseteq 1 .. Len(fills) /\ N \notin S
    <3>1. S \subseteq 1 .. Len(fills)
      BY <1>3, <1>6 DEF QuoteFills
    <3>2. IsFiniteSet(1 .. Len(fills))
      BY <1>3, FS_Interval
    <3> HIDE DEF S
    <3>3. IsFiniteSet(S)
      BY <3>1, <3>2, FS_Subset
    <3>4. QED
      BY <1>3, <3>1, <3>3
  <2>3. T = IF fill.side = side THEN S \cup {N} ELSE S
    <3>1. quote.since + 1 .. N = (quote.since + 1 .. Len(fills)) \cup {N}
      BY <1>3, <1>6
    <3>2. T = {m \in (quote.since + 1 .. Len(fills)) \cup {N} : fills'[m].side = side}
      BY <1>5, <1>6, <3>1 DEF QuoteFills
    <3>3. \A m \in quote.since + 1 .. Len(fills) : fills'[m] = fills[m]
      BY <1>3, <1>5, <1>6
    <3>4. S = {m \in quote.since + 1 .. Len(fills) : fills[m].side = side}
      BY DEF QuoteFills
    <3> HIDE DEF S, T, N
    <3>5. QED
      BY <1>5, <3>2, <3>3, <3>4
  <2>4. \A m \in S : a[m] \in Int /\ fills'[m].quantity = a[m]
    BY <1>5, <2>2
  <2>5. DOMAIN a = S /\ DOMAIN b = T
    OBVIOUS
  <2>6. SumFunction(a) \in Int
    <3> HIDE DEF a, S
    <3>1. QED
      BY <2>2, <2>4, <2>5, SumIsInt DEF SumFunction
  <2>7. quote.pool[side] \in Nat
    BY <1>3 DEF ServedType
  <2>8. CASE fill.side = side
    <3>1. b[N] = size /\ \A m \in S : b[m] = a[m]
      BY <1>4, <1>5, <2>3, <2>4, <2>8
    <3>2. DOMAIN b = DOMAIN a \cup {N}
      BY <2>3, <2>5, <2>8
    <3>3. quote'.pool[side] = quote.pool[side] - size
      BY <1>1, <1>3, <1>4, <2>8 DEF ServedType
    <3> HIDE DEF a, b, S, T, N
    <3>4. SumFunction(b) = SumFunction(a) + b[N]
      BY <1>1, <2>2, <2>4, <2>5, <3>1, <3>2, SumExtended
    <3>5. QED
      BY <1>1, <1>6, <2>1, <2>6, <2>7, <3>1, <3>3, <3>4
  <2>9. CASE fill.side # side
    <3>1. T = S
      BY <2>3, <2>9
    <3>2. a = b
      BY <2>4, <3>1
    <3>3. quote'.pool[side] = quote.pool[side]
      BY <1>1, <1>3, <1>4, <2>9 DEF ServedType
    <3>4. QED
      BY <1>6, <2>1, <3>2, <3>3
  <2>10. QED
    BY <2>8, <2>9
<1>8. quote'.since <= Len(fills')
  BY <1>3, <1>5, <1>6
<1>9. QED
  BY <1>7, <1>8 DEF PoolInv

\* An execution from the quote is of the first place it can fill, so that the places
\* before it stay unfillable.
LEMMA PassedServed ==
  ASSUME QuoteInv, IInv', NEW n \in quote.at + 1 .. Len(queue), NextFilled(n),
         ApplyFill(queue[n], FillSize(queue[n]), MarketablePrice(queue[n])),
         quote' = Drained(n, FillSize(queue[n]))
  PROVE  PassedInv' /\ TimePriority'
<1> DEFINE i == queue[n]
           size == FillSize(i)
           N == Len(fills) + 1
<1>1. /\ n \in 1 .. Len(queue) /\ queue' = queue /\ i \in OrderIds
      /\ quote # NoQuote /\ size \in Nat /\ orders[i] \in OrderType
      /\ quote' = [quote EXCEPT !.at = n, !.pool = quote'.pool]
      /\ quote'.pool = [quote.pool EXCEPT ![orders[i].side] = @ - size]
      /\ \A m \in DOMAIN queue : m # n => orders'[queue[m]] = orders[queue[m]]
      /\ ~Fillable(n)'
  BY ServedPlace
<1>2. /\ quote \in ServedType /\ fills \in Seq(Fills) /\ Len(fills) \in Nat
      /\ queue \in Seq(OrderIds) /\ Len(queue) \in Nat
  BY DEF QuoteInv, IInv, TypeOK
<1>3. /\ quote'.at = n /\ quote'.from = quote.from /\ quote'.since = quote.since
      /\ quote'.symbol = quote.symbol /\ quote'.bid = quote.bid /\ quote'.ask = quote.ask
  BY <1>1, <1>2 DEF ServedType
<1>4. /\ quote.from \in Nat /\ quote.at \in Nat /\ quote.since \in Nat
      /\ quote.from <= quote.at /\ quote.since <= Len(fills) /\ quote.symbol \in Symbols
  BY <1>1, <1>2 DEF QuoteInv, PoolInv, PassedInv, ServedType
<1>5. /\ Len(fills') = N /\ fills'[N].order = i /\ fills'[N].side = orders[i].side
      /\ \A m \in 1 .. Len(fills) : fills'[m] = fills[m]
  BY <1>2 DEF ApplyFill
<1>6. \A side \in Sides : quote'.pool[side] <= quote.pool[side] /\ quote.pool[side] \in Nat
  BY <1>1, <1>2 DEF ServedType
<1>7. \A m \in quote.from + 1 .. n - 1 : ~Fillable(m)
  BY <1>1, <1>4 DEF QuoteInv, PassedInv, NextFilled
<1>8. Fillable(n)
  BY DEF NextFilled
<1>9. \A m \in quote.from + 1 .. n - 1 :
        /\ m \in DOMAIN queue /\ m # n /\ orders'[queue[m]] = orders[queue[m]]
  <2>1. n \in 1 .. Len(queue)
    BY <1>1
  <2>2. \A m \in quote.from + 1 .. n - 1 : m \in DOMAIN queue /\ m # n
    BY <1>2, <1>4, <2>1
  <2>3. QED
    BY <1>1, <2>2
<1> HIDE DEF i, size, N
<1>10. ASSUME NEW m \in quote.from + 1 .. n - 1
       PROVE  ~Fillable(m)'
  <2> SUFFICES ASSUME Fillable(m)' PROVE FALSE
    OBVIOUS
  <2>1. queue'[m] = queue[m] /\ orders'[queue[m]] = orders[queue[m]] /\ queue[m] \in OrderIds
    BY <1>1, <1>2, <1>9
  <2>2. Working(queue[m])' /\ orders[queue[m]].symbol = quote.symbol
    BY <1>3, <2>1 DEF Fillable
  <2>3. Working(queue[m])
    BY <2>1, <2>2 DEF Working
  <2>4. orders[queue[m]].side \in Sides
    BY <2>1, <2>3, WorkingOrder DEF QuoteInv, OrderType
  <2>5. quote'.pool[orders[queue[m]].side] > 0
    BY <2>1 DEF Fillable
  <2>6. quote.pool[orders[queue[m]].side] > 0
    <3>1. quote'.pool[orders[queue[m]].side] \in Int
      BY <2>4 DEF IInv, TypeOK, ServedType
    <3>2. QED
      BY <1>6, <2>4, <2>5, <3>1
  <2>7. Marketable(queue[m])
    BY <1>3, <2>1 DEF Fillable, Marketable, MarketablePrice, WithinLimit
  <2>8. QED
    BY <1>7, <2>2, <2>3, <2>6, <2>7 DEF Fillable
<1>11. PassedInv'
  <2>1. \A m \in quote'.from + 1 .. quote'.at : ~Fillable(m)'
    <3>1. \A m \in quote.from + 1 .. n : m = n \/ m \in quote.from + 1 .. n - 1
      BY <1>1, <1>4
    <3>2. QED
      BY <1>1, <1>3, <1>10, <3>1
  <2>2. \A m \in quote'.since + 1 .. Len(fills') :
          \E b \in quote'.from + 1 .. quote'.at : queue'[b] = fills'[m].order
    <3> SUFFICES ASSUME NEW m \in quote.since + 1 .. N
                 PROVE  \E b \in quote.from + 1 .. n : queue[b] = fills'[m].order
      BY <1>1, <1>3, <1>5
    <3>1. n \in quote.from + 1 .. n
      BY <1>1, <1>4
    <3>2. CASE m = N
      BY <1>5, <3>1, <3>2 DEF i
    <3>3. CASE m # N
      <4>1. m \in quote.since + 1 .. Len(fills) /\ m \in 1 .. Len(fills)
        BY <1>2, <1>4, <3>3 DEF N
      <4>2. PICK b \in quote.from + 1 .. quote.at : queue[b] = fills[m].order
        BY <1>1, <4>1 DEF QuoteInv, PassedInv
      <4>3. b \in quote.from + 1 .. n
        BY <1>1, <1>4
      <4>4. QED
        BY <1>5, <4>1, <4>2, <4>3
    <3>4. QED
      BY <3>2, <3>3
  <2>3. quote'.from <= quote'.at /\ quote'.at <= Len(queue') /\ quote'.symbol \in Symbols
    BY <1>1, <1>2, <1>3, <1>4
  <2>4. QED
    BY <2>1, <2>2, <2>3 DEF PassedInv
<1>12. TimePriority'
  <2> SUFFICES ASSUME NEW side \in Sides, NEW m \in quote.since + 1 .. N,
                      fills'[m].side = side,
                      NEW a \in quote.from + 1 .. Len(queue), NEW b \in quote.from + 1 .. Len(queue),
                      a < b, queue[b] = fills'[m].order,
                      orders'[queue[a]].side = side, orders'[queue[a]].symbol = quote.symbol,
                      Marketable(queue[a])'
               PROVE  ~Working(queue[a])'
    <3>1. /\ \A side \in Sides : \A m \in QuoteFills(side)' :
                 m \in quote.since + 1 .. N /\ fills'[m].side = side
          /\ quote'.from = quote.from /\ queue' = queue /\ quote'.symbol = quote.symbol
      BY ONLY <1>1, <1>3, <1>5 DEF QuoteFills
    <3>2. QED
      BY <3>1 DEF TimePriority
  <2>0. queue' = queue
    BY <1>1
  <2>a. /\ side \in Sides /\ m \in quote.since + 1 .. N /\ fills'[m].side = side
        /\ a \in quote.from + 1 .. Len(queue) /\ b \in quote.from + 1 .. Len(queue)
        /\ a < b /\ queue[b] = fills'[m].order
    OBVIOUS
  <2>1. a \in DOMAIN queue /\ b \in DOMAIN queue /\ queue[a] \in OrderIds
    BY <1>2, <1>4
  <2>2. ASSUME a # n
        PROVE  /\ orders'[queue[a]] = orders[queue[a]]
               /\ orders[queue[a]].side = side /\ orders[queue[a]].symbol = quote.symbol
               /\ Marketable(queue[a])
    <3>1. orders'[queue[a]] = orders[queue[a]]
      BY <1>1, <2>1, <2>2
    <3>2. QED
      BY <1>3, <2>0, <3>1 DEF Marketable, MarketablePrice, WithinLimit
  <2>3. CASE m = N
    <3>1. b = n /\ side = orders[i].side
      BY <1>1, <1>2, <1>5, <2>1, <2>3 DEF QuoteInv, QueueInv, i
    <3>2. a # n /\ a \in quote.from + 1 .. n - 1
      BY <1>1, <1>4, <3>1
    <3>3. quote.pool[side] > 0
      BY <1>8, <3>1 DEF Fillable, i
    <3>4. ~Working(queue[a])
      BY ONLY <1>7, <2>2, <3>2, <3>3 DEF Fillable
    <3>5. orders'[queue[a]] = orders[queue[a]]
      BY ONLY <2>2, <3>2
    <3>6. QED
      BY ONLY <2>0, <3>4, <3>5 DEF Working
  <2>4. CASE m # N
    <3>1. m \in quote.since + 1 .. Len(fills) /\ m \in 1 .. Len(fills) /\ fills'[m] = fills[m]
      <4>0. Len(fills) \in Nat /\ quote.since \in Nat
        BY ONLY <1>2, <1>4
      <4>1. m \in quote.since + 1 .. Len(fills) /\ m \in 1 .. Len(fills)
        BY ONLY <2>4, <2>a, <4>0 DEF N
      <4>2. QED
        BY ONLY <1>5, <4>1
    <3>2. PICK c \in quote.from + 1 .. quote.at : queue[c] = fills[m].order
      BY <1>1, <3>1 DEF QuoteInv, PassedInv
    <3>3. quote.at <= Len(queue)
      BY <1>1 DEF QuoteInv, PassedInv
    <3>4. c \in DOMAIN queue
      BY <1>2, <1>4, <3>3
    <3>5. b = c
      BY <2>1, <3>1, <3>2, <3>4 DEF QuoteInv, QueueInv
    <3>6. a # n
      BY <1>1, <1>4, <3>5
    <3>7. m \in QuoteFills(side)
      BY <3>1 DEF QuoteFills
    <3>8. ~Working(queue[a])
      <4>1. TimePriority /\ quote # NoQuote
        BY <1>1 DEF QuoteInv
      <4>2. /\ orders[queue[a]].side = side /\ orders[queue[a]].symbol = quote.symbol
            /\ Marketable(queue[a])
        BY ONLY <2>2, <3>6
      <4>3. queue[b] = fills[m].order
        BY ONLY <2>a, <3>1
      <4>4. QED
        BY ONLY <2>a, <3>7, <4>1, <4>2, <4>3 DEF TimePriority
    <3>9. orders'[queue[a]] = orders[queue[a]]
      BY ONLY <2>2, <3>6
    <3>10. QED
      BY ONLY <2>0, <3>8, <3>9 DEF Working
  <2>5. QED
    BY <2>3, <2>4
<1>13. QED
  BY <1>11, <1>12

\* Every step keeps the invariant of the quote.
LEMMA StepQuote == QuoteInv /\ [Step]_vars => QuoteInv'
<1> SUFFICES ASSUME QuoteInv, [Step]_vars PROVE QuoteInv'
  OBVIOUS
<1>1. IInv /\ IInv' /\ QueueInv'
  BY StepPreserves, QueueStep DEF QuoteInv
<1>2. Len(queue) \in Nat /\ queue \in Seq(OrderIds)
  BY <1>1 DEF IInv, TypeOK
<1>3. PoolInv' /\ PassedInv' /\ TimePriority'
  <2>1. ASSUME NEW i \in OrderIds, NEW o \in FreshOrders, Reject(i, o)
        PROVE  PoolInv' /\ PassedInv' /\ TimePriority'
    BY <1>1, <2>1, QuoteEnds DEF Reject
  <2>2. ASSUME NEW i \in OrderIds, NEW o \in FreshOrders, NEW q \in QuoteType \cup {NoQuote},
               Accept(i, o, q)
        PROVE  PoolInv' /\ PassedInv' /\ TimePriority'
    <3>1. CASE q = NoQuote
      <4>1. quote' = NoQuote
        BY <2>2, <3>1 DEF Accept
      <4>2. QED
        BY <1>1, <4>1, QuoteEnds
    <3>2. CASE q # NoQuote
      <4>1. quote' = Opened(q, Len(queue)) /\ fills' = fills /\ queue' = Append(queue, i)
        BY <2>2, <3>2 DEF Accept
      <4>2. Len(queue) <= Len(queue') /\ q \in QuoteType
        BY <1>2, <3>2, <4>1
      <4>3. QED
        BY <1>1, <1>2, <4>1, <4>2, QuoteOpens
    <3>3. QED
      BY <3>1, <3>2
  <2>3. ASSUME NEW i \in OrderIds, Cancel(i)
        PROVE  PoolInv' /\ PassedInv' /\ TimePriority'
    BY <1>1, <2>3, QuoteEnds DEF Cancel
  <2>4. ASSUME NEW q \in QuoteType, OnQuote(q)
        PROVE  PoolInv' /\ PassedInv' /\ TimePriority'
    <3>1. quote' = Opened(q, 0) /\ fills' = fills /\ queue' = queue
      BY <2>4 DEF OnQuote
    <3>2. QED
      BY <1>1, <1>2, <3>1, QuoteOpens
  <2>5. CASE Serve
    <3>1. PICK n \in quote.at + 1 .. Len(queue) :
            /\ NextFilled(n)
            /\ ApplyFill(queue[n], FillSize(queue[n]), MarketablePrice(queue[n]))
            /\ quote' = Drained(n, FillSize(queue[n]))
      BY <2>5 DEF Serve
    <3>2. QED
      BY <1>1, <3>1, PoolServed, PassedServed
  <2>6. ASSUME NEW i \in OrderIds, NEW q \in Nat, NEW p \in Nat, Report(i, q, p)
        PROVE  PoolInv' /\ PassedInv' /\ TimePriority'
    BY <1>1, <2>6, QuoteEnds DEF Report
  <2>7. CASE MarkStateUnknown \/ Engage \/ Release \/ UNCHANGED vars
    <3>1. UNCHANGED <<orders, queue, fills, quote>>
      BY <2>7 DEF MarkStateUnknown, Engage, Release, vars
    <3>2. PoolInv'
      BY <3>1 DEF QuoteInv, PoolInv, Taken, QuoteFills
    <3>3. PassedInv'
      BY <3>1 DEF QuoteInv, PassedInv, Fillable, Working, Marketable, MarketablePrice, WithinLimit
    <3>4. TimePriority'
      BY <3>1 DEF QuoteInv, TimePriority, QuoteFills, Working, Marketable, MarketablePrice, WithinLimit
    <3>5. QED
      BY <3>2, <3>3, <3>4
  <2>8. QED
    BY <2>1, <2>2, <2>3, <2>4, <2>5, <2>6, <2>7 DEF Step
<1>4. QED
  BY <1>1, <1>3 DEF QuoteInv

\* All orders served by one quote together take no more than the size it offered to
\* their side (on_quote).
THEOREM SharedQuoteSuffices == Spec => []PoolNotOversold
<1>1. QuoteInv => PoolNotOversold
  <2> SUFFICES ASSUME QuoteInv, quote # NoQuote, NEW side \in Sides
               PROVE  Taken(side) <= quote.offered[side]
    BY DEF PoolNotOversold, Taken
  <2>1. quote.pool[side] \in Nat /\ quote.offered[side] \in Nat
    BY DEF QuoteInv, IInv, TypeOK, ServedType
  <2>2. Taken(side) + quote.pool[side] = quote.offered[side]
    BY DEF QuoteInv, PoolInv
  <2>3. Taken(side) \in Int
    <3> DEFINE f == [n \in QuoteFills(side) |-> fills[n].quantity]
    <3>1. QuoteFills(side) \subseteq 1 .. Len(fills) /\ fills \in Seq(Fills)
      BY DEF QuoteInv, IInv, TypeOK, ServedType, QuoteFills
    <3>2. IsFiniteSet(1 .. Len(fills))
      BY <3>1, FS_Interval
    <3>3. IsFiniteSet(QuoteFills(side))
      BY <3>1, <3>2, FS_Subset
    <3>4. \A n \in QuoteFills(side) : f[n] \in Int
      <4>1. \A n \in 1 .. Len(fills) : fills[n] \in Fills
        BY <3>1
      <4>2. \A x \in Fills : x.quantity \in Int
        BY DEF Fills
      <4>3. QED
        BY <3>1, <4>1, <4>2
    <3>5. DOMAIN f = QuoteFills(side) /\ Taken(side) = SumFunction(f)
      BY DEF Taken
    <3> HIDE DEF f
    <3>6. QED
      BY <3>3, <3>4, <3>5, SumIsInt DEF SumFunction
  <2>4. QED
    BY <2>1, <2>2, <2>3
<1>2. QED
  BY <1>1, InitQuote, StepQuote, NextIsStep, PTL DEF Spec

\* A quote serves its side in submission order: it fills no order while one submitted
\* earlier, on the same side and marketable at the same price, is still working
\* (on_quote).
THEOREM ServedInOrder == Spec => []TimePriority
<1>1. QuoteInv => TimePriority
  BY DEF QuoteInv
<1>2. QED
  BY <1>1, InitQuote, StepQuote, NextIsStep, PTL DEF Spec
=============================================================================
