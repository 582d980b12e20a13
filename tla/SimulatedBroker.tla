-------------------------- MODULE SimulatedBroker --------------------------
(***************************************************************************)
(* The simulated broker: its order book, its position book, cash, the      *)
(* idempotency keys and the quote it is currently serving.                 *)
(*                                                                         *)
(* An operation of the broker runs in one thread and is one step here,     *)
(* except that a quote is served one fill at a time: submit with a quote   *)
(* and on_quote open the quote, and Serve gives it to the next order it    *)
(* fills.  No operation starts while a quote is still being served.        *)
(*                                                                         *)
(* Shares are integers counted in units of 1/Lot share, prices are         *)
(* integers, so the floats' _EPSILON plays no part.                        *)
(***************************************************************************)
EXTENDS Integers, Sequences, FiniteSets, FiniteSetsExt

CONSTANTS
  OrderIds,     \* identities a caller may give its orders
  Symbols,      \* instruments
  Keys,         \* idempotency keys, "<session-day>|<symbol>|<intent>"
  NewOrders,    \* the orders callers submit, all PENDING
  Quotes,       \* the books that arrive
  Executions,   \* quantity and price of fills reported from outside
  Lot,          \* units per whole share
  InitialCash,
  EnforceCash,  \* whether unaffordable buys are refused
  NoOrder, NoKey, NoLimit, NoSymbol

Sides == {"BUY", "SELL"}
States == {"PENDING", "OPEN", "PARTIALLY_FILLED", "FILLED", "CANCELLED", "REJECTED"}
WorkingStates == {"OPEN", "PARTIALLY_FILLED"}
TerminalStates == {"FILLED", "CANCELLED", "REJECTED"}

\* The pool of a side is the size the quote offers to it; a price of 0 is an
\* empty side.
QuoteType == [symbol : Symbols, bid : Nat, ask : Nat, pool : [Sides -> Nat]]

OrderType == [symbol : Symbols, side : Sides, quantity : Nat \ {0},
              limit : Nat \cup {NoLimit}, key : Keys \cup {NoKey},
              state : States, filled : Nat]

\* An order as it is submitted.
FreshOrders == {o \in OrderType : o.state = "PENDING" /\ o.filled = 0}

ASSUME BrokerConstants ==
  /\ IsFiniteSet(OrderIds)
  /\ NewOrders \subseteq FreshOrders
  /\ Quotes \subseteq QuoteType
  /\ Executions \subseteq [quantity : Nat, price : Nat]
  /\ Lot \in Nat \ {0} /\ InitialCash \in Nat /\ EnforceCash \in BOOLEAN
  /\ NoOrder \notin OrderIds /\ NoKey \notin Keys
  /\ NoLimit \notin Int /\ NoSymbol \notin Symbols

VARIABLES
  orders,    \* every order the broker was given, by id
  queue,     \* their ids in submission order
  fills,     \* every execution, in order
  held,      \* net position per instrument
  cash,
  keys,      \* which order holds an idempotency key
  problems,  \* whether the book is flagged unreconciled
  halted,    \* whether the kill switch file exists
  quote      \* the quote being served, with the size it has left

vars == <<orders, queue, fills, held, cash, keys, problems, halted, quote>>

\* The entry of an id the broker has not seen.
Unknown == [symbol |-> NoSymbol, side |-> "BUY", quantity |-> 0, limit |-> NoLimit,
            key |-> NoKey, state |-> "PENDING", filled |-> 0]

Fills == [order : OrderIds, symbol : Symbols, side : Sides,
          quantity : Nat, price : Nat]

ServedType == [symbol : Symbols \cup {NoSymbol}, bid : Nat, ask : Nat,
               pool : [Sides -> Nat], at : Nat,
               offered : [Sides -> Nat], from : Nat, since : Nat]

NoQuote == [symbol |-> NoSymbol, bid |-> 0, ask |-> 0,
            pool |-> [s \in Sides |-> 0], at |-> 0,
            offered |-> [s \in Sides |-> 0], from |-> 0, since |-> 0]

Known(i) == orders[i].state # "PENDING"
Working(i) == orders[i].state \in WorkingStates
Terminal(i) == orders[i].state \in TerminalStates
Remaining(i) == orders[i].quantity - orders[i].filled

(***************************************************************************)
(* Validation.                                                             *)
(***************************************************************************)
\* Definitions named <definition>_<error> are wrong forms of the one that follows:
\* each shows that a property fails when the code has that error.
CommittedShares_OpenOnly(s) ==
  LET selling == {i \in OrderIds : orders[i].state = "OPEN" /\ orders[i].side = "SELL"
                                   /\ orders[i].symbol = s}
  IN SumFunction([i \in selling |-> Remaining(i)])

CommittedShares(s) ==
  LET selling == {i \in OrderIds : Working(i) /\ orders[i].side = "SELL"
                                              /\ orders[i].symbol = s}
  IN SumFunction([i \in selling |-> Remaining(i)])

CommittedCash_OpenOnly ==
  LET buying == {i \in OrderIds : orders[i].state = "OPEN" /\ orders[i].side = "BUY"
                                  /\ orders[i].limit # NoLimit}
  IN SumFunction([i \in buying |-> Remaining(i) * orders[i].limit])

CommittedCash ==
  LET buying == {i \in OrderIds : Working(i) /\ orders[i].side = "BUY"
                                             /\ orders[i].limit # NoLimit}
  IN SumFunction([i \in buying |-> Remaining(i) * orders[i].limit])

Malformed_PriceOnly(o) == o.limit = 0

\* Why an order is refused rather than accepted.
Malformed(o) == o.quantity % Lot # 0 \/ o.limit = 0
NakedShort(o) == o.side = "SELL" /\ o.quantity > held[o.symbol] - CommittedShares(o.symbol)
Payable(o) == o.limit # NoLimit /\ o.quantity * o.limit <= cash - CommittedCash
Unaffordable(o) == EnforceCash /\ o.side = "BUY" /\ ~Payable(o)

RejectionReason(o) == Malformed(o) \/ NakedShort(o) \/ Unaffordable(o)

(***************************************************************************)
(* Serving a quote.                                                        *)
(***************************************************************************)
MarketablePrice(i) == IF orders[i].side = "BUY" THEN quote.ask ELSE quote.bid

\* Price p is the order's limit or better; a market order takes any.
WithinLimit(i, p) ==
  orders[i].limit # NoLimit =>
    IF orders[i].side = "BUY" THEN p <= orders[i].limit ELSE p >= orders[i].limit

Marketable(i) == MarketablePrice(i) > 0 /\ WithinLimit(i, MarketablePrice(i))

\* The order at place n of the queue would get a fill from the open quote.
Fillable(n) ==
  LET i == queue[n]
  IN /\ Working(i) /\ orders[i].symbol = quote.symbol
     /\ Marketable(i)
     /\ quote.pool[orders[i].side] > 0

Serving == \E n \in quote.at + 1 .. Len(queue) : Fillable(n)

\* q, for the orders after the given place of the queue.  offered, from and since
\* remember how it was opened, for the properties only.
Opened(q, place) ==
  [symbol |-> q.symbol, bid |-> q.bid, ask |-> q.ask, pool |-> q.pool, at |-> place,
   offered |-> q.pool, from |-> place, since |-> Len(fills)]

(***************************************************************************)
(* One execution: the order, the fill list, the position and cash.         *)
(***************************************************************************)
\* The change a fill makes to the position of its instrument.
Signed(f) == IF f.side = "BUY" THEN f.quantity ELSE -f.quantity

PostToBook_SaleUnpaid(f) ==
  /\ held' = [held EXCEPT ![f.symbol] = @ + Signed(f)]
  /\ cash' = IF f.side = "BUY" THEN cash - f.quantity * f.price ELSE cash

PostToBook(f) ==
  /\ held' = [held EXCEPT ![f.symbol] = @ + Signed(f)]
  /\ cash' = cash - Signed(f) * f.price

Advanced_OffByOne(i, q) ==
  LET filled == orders[i].filled + q
  IN [orders[i] EXCEPT !.filled = filled,
                       !.state = IF filled > orders[i].quantity
                                 THEN "FILLED" ELSE "PARTIALLY_FILLED"]

Advanced(i, q) ==
  LET filled == orders[i].filled + q
  IN [orders[i] EXCEPT !.filled = filled,
                       !.state = IF filled >= orders[i].quantity
                                 THEN "FILLED" ELSE "PARTIALLY_FILLED"]

ApplyFill(i, q, p) ==
  LET fill == [order |-> i, symbol |-> orders[i].symbol, side |-> orders[i].side,
               quantity |-> q, price |-> p]
  IN /\ Working(i)
     /\ q > 0 /\ p > 0 /\ q <= Remaining(i)
     /\ orders' = [orders EXCEPT ![i] = Advanced(i, q)]
     /\ fills' = Append(fills, fill)
     /\ PostToBook(fill)
     /\ UNCHANGED <<queue, keys, problems, halted>>

(***************************************************************************)
(* Operations.                                                             *)
(***************************************************************************)
MaySubmit_IgnoresSwitch(i, o) ==
  /\ ~Serving /\ ~problems /\ ~Known(i)
  /\ o.key # NoKey => keys[o.key] = NoOrder

\* What submit raises on rather than answers.
MaySubmit(i, o) ==
  /\ ~Serving
  /\ ~halted
  /\ ~problems
  /\ ~Known(i)
  /\ o.key # NoKey => keys[o.key] = NoOrder

Reject(i, o) ==
  /\ MaySubmit(i, o)
  /\ RejectionReason(o)
  /\ orders' = [orders EXCEPT ![i] = [o EXCEPT !.state = "REJECTED"]]
  /\ queue' = Append(queue, i)
  /\ quote' = NoQuote
  /\ UNCHANGED <<fills, held, cash, keys, problems, halted>>

RegisterKey_Omitted(i, o) == UNCHANGED keys

RegisterKey(i, o) ==
  keys' = IF o.key = NoKey THEN keys ELSE [keys EXCEPT ![o.key] = i]

\* The order rests (no quote), or the quote it came with is opened to it alone.
Accept(i, o, q) ==
  /\ MaySubmit(i, o)
  /\ ~RejectionReason(o)
  /\ orders' = [orders EXCEPT ![i] = [o EXCEPT !.state = "OPEN"]]
  /\ queue' = Append(queue, i)
  /\ RegisterKey(i, o)
  /\ q = NoQuote \/ q.symbol = o.symbol
  /\ quote' = IF q = NoQuote THEN NoQuote ELSE Opened(q, Len(queue))
  /\ UNCHANGED <<fills, held, cash, problems, halted>>

Cancel_Unguarded(i) ==
  /\ ~Serving
  /\ Known(i)
  /\ orders' = [orders EXCEPT ![i].state = "CANCELLED"]
  /\ quote' = NoQuote
  /\ UNCHANGED <<queue, fills, held, cash, keys, problems, halted>>

\* Cancelling a terminal order changes nothing and is not a step.
Cancel(i) ==
  /\ ~Serving
  /\ Known(i) /\ ~Terminal(i)
  /\ orders' = [orders EXCEPT ![i].state = "CANCELLED"]
  /\ quote' = NoQuote
  /\ UNCHANGED <<queue, fills, held, cash, keys, problems, halted>>

OnQuote(q) ==
  /\ ~Serving
  /\ quote' = Opened(q, 0)
  /\ UNCHANGED <<orders, queue, fills, held, cash, keys, problems, halted>>

NextFilled_AnyOrder(n) == Fillable(n)

\* n is the next place of the queue, in submission order, the quote fills.
NextFilled(n) ==
  /\ Fillable(n)
  /\ \A m \in quote.at + 1 .. n - 1 : ~Fillable(m)

FillSize(i) ==
  LET pool == quote.pool[orders[i].side]
  IN IF Remaining(i) <= pool THEN Remaining(i) ELSE pool

Drained_KeepsPool(n, q) == [quote EXCEPT !.at = n]

Drained(n, q) == [quote EXCEPT !.at = n, !.pool[orders[queue[n]].side] = @ - q]

Serve ==
  \E n \in quote.at + 1 .. Len(queue) :
    LET i == queue[n]
    IN /\ NextFilled(n)
       /\ ApplyFill(i, FillSize(i), MarketablePrice(i))
       /\ quote' = Drained(n, FillSize(i))

\* An execution reported from outside, at any price.
Report(i, q, p) ==
  /\ ~Serving
  /\ ApplyFill(i, q, p)
  /\ quote' = NoQuote

MarkStateUnknown ==
  /\ ~Serving
  /\ ~problems
  /\ problems' = TRUE
  /\ UNCHANGED <<orders, queue, fills, held, cash, keys, halted, quote>>

\* The operator touches or removes the kill switch file, at any moment.
Engage == ~halted /\ halted' = TRUE
          /\ UNCHANGED <<orders, queue, fills, held, cash, keys, problems, quote>>
Release == halted /\ halted' = FALSE
           /\ UNCHANGED <<orders, queue, fills, held, cash, keys, problems, quote>>

Init ==
  /\ orders = [i \in OrderIds |-> Unknown]
  /\ queue = <<>>
  /\ fills = <<>>
  /\ held = [s \in Symbols |-> 0]
  /\ cash = InitialCash
  /\ keys = [k \in Keys |-> NoOrder]
  /\ problems = FALSE
  /\ halted = FALSE
  /\ quote = NoQuote

Submit == \E i \in OrderIds, o \in NewOrders :
            \/ Reject(i, o)
            \/ \E q \in Quotes \cup {NoQuote} : Accept(i, o, q)

Next ==
  \/ Submit
  \/ \E i \in OrderIds : Cancel(i)
  \/ \E q \in Quotes : OnQuote(q)
  \/ Serve
  \/ \E i \in OrderIds, x \in Executions : Report(i, x.quantity, x.price)
  \/ MarkStateUnknown
  \/ Engage
  \/ Release

Spec == Init /\ [][Next]_vars

(***************************************************************************)
(* Properties.                                                             *)
(***************************************************************************)
\* The state the broker keeps is of the expected shape.
TypeOK ==
  /\ orders \in [OrderIds -> OrderType \cup {Unknown}]
  /\ queue \in Seq(OrderIds)
  /\ fills \in Seq(Fills)
  /\ held \in [Symbols -> Int]
  /\ cash \in Int
  /\ keys \in [Keys -> OrderIds \cup {NoOrder}]
  /\ problems \in BOOLEAN
  /\ halted \in BOOLEAN
  /\ quote \in ServedType

\* An order's state says how far it is filled, and it is never filled past its
\* quantity, whatever mix of quotes, reports and cancels it went through.
StateMatchesFilled ==
  \A i \in OrderIds :
    LET o == orders[i]
    IN /\ o.state \in {"PENDING", "OPEN", "REJECTED"} => o.filled = 0
       /\ o.state = "PARTIALLY_FILLED" => 0 < o.filled /\ o.filled < o.quantity
       /\ o.state = "FILLED" => o.filled = o.quantity
       /\ o.state = "CANCELLED" => o.filled < o.quantity

\* One intent is placed once: of the orders that carry a key, at most one was
\* accepted, however many were refused and retried before it (submit, _keys).
OneOrderPerIntent ==
  \A i, j \in OrderIds :
    /\ orders[i].key # NoKey /\ orders[i].key = orders[j].key
    /\ Known(i) /\ orders[i].state # "REJECTED"
    /\ Known(j) /\ orders[j].state # "REJECTED"
    => i = j

\* The shares held cover every working sell order together, so no sequence of
\* quotes and reports can open a short position (_committed_shares).
SharesCovered == \A s \in Symbols : held[s] >= CommittedShares(s)

\* What buys that were executed above their limits cost beyond these.
Overpaid ==
  LET limit(n) == orders[fills[n].order].limit
      above == {n \in DOMAIN fills : /\ fills[n].side = "BUY"
                                     /\ limit(n) # NoLimit /\ fills[n].price > limit(n)}
  IN SumFunction([n \in above |-> fills[n].quantity * (fills[n].price - limit(n))])

\* Cash covers every working buy order at its limit, but for what reported executions
\* cost beyond the limits of their orders: apply_fill takes any price, and nothing is
\* reserved for it.  A buy that was affordable when it was accepted is otherwise still
\* affordable when it fills, through any cancels, quotes and sales (_committed_cash).
CashCovered == EnforceCash => cash + Overpaid >= CommittedCash

\* The accounts of one history agree: each order's filled quantity, the position
\* book and cash are all sums over the same list of fills (apply_fill).
BooksAgree ==
  LET ofOrder(i) == {n \in DOMAIN fills : fills[n].order = i}
      ofSymbol(s) == {n \in DOMAIN fills : fills[n].symbol = s}
  IN /\ \A i \in OrderIds :
          orders[i].filled = SumFunction([n \in ofOrder(i) |-> fills[n].quantity])
     /\ \A s \in Symbols :
          held[s] = SumFunction([n \in ofSymbol(s) |-> Signed(fills[n])])
     /\ cash = InitialCash - SumFunction([n \in DOMAIN fills |-> Signed(fills[n]) * fills[n].price])

QuoteFills(side) ==
  {n \in quote.since + 1 .. Len(fills) : fills[n].side = side}

\* All orders served by one quote share the size it offered (on_quote).
PoolNotOversold ==
  quote # NoQuote =>
    \A side \in Sides :
      SumFunction([n \in QuoteFills(side) |-> fills[n].quantity]) <= quote.offered[side]

\* on_quote serves in submission order: when a quote has filled an order, no
\* marketable order submitted earlier on the same side is still working.
TimePriority ==
  quote # NoQuote =>
    \A side \in Sides : \A n \in QuoteFills(side) : \A a, b \in quote.from + 1 .. Len(queue) :
      /\ a < b /\ queue[b] = fills[n].order
      /\ orders[queue[a]].side = side /\ orders[queue[a]].symbol = quote.symbol
      /\ Marketable(queue[a])
      => ~Working(queue[a])

\* A terminal order is never touched again, and none is forgotten.
TerminalIsFinal ==
  [][\A i \in OrderIds : Terminal(i) => orders'[i] = orders[i]]_vars

Exposure(s) ==
  LET buying == {i \in OrderIds : Working(i) /\ orders[i].side = "BUY"
                                             /\ orders[i].symbol = s}
  IN held[s] + SumFunction([i \in buying |-> Remaining(i)])

\* From the moment the kill switch is engaged or the book is flagged, the most that
\* can still be held in an instrument only shrinks: resting buys may fill, none is
\* added (guard_submission, submit).
NoNewRisk ==
  [][halted \/ problems => \A s \in Symbols : Exposure(s)' <= Exposure(s)]_vars
============================================================================
