----------------------------- MODULE RunSession -----------------------------
(***************************************************************************)
(* One session of the runner over a new simulated broker: at every step    *)
(* of the session the strategy is asked, each of its buy signals is        *)
(* submitted with a quote made from the next bar, and after the last step  *)
(* every entry is sold with a quote made from the last bar.  The operator  *)
(* may engage the kill switch at any moment.  A session that raised, died  *)
(* between two of its operations or came to its end may be run again, by   *)
(* a new program over the book its journal gives back.                     *)
(*                                                                         *)
(* The panel holds the bars of every instrument at times 1 .. LastTime, of *)
(* which 1 .. SessionEnd are the session: its times are those of its bars, *)
(* so some instrument has a bar at each.  Prices are integers and the      *)
(* limits of 0.3 % are rounded down to them.                               *)
(*                                                                         *)
(* Definitions named <definition>_<error> are wrong forms of the one that  *)
(* follows: each shows that a property fails when the code has that error. *)
(***************************************************************************)
EXTENDS SimulatedBroker, SequencesExt

CONSTANTS
  Panels,      \* the panels that may be replayed
  NoBar,
  SessionEnd, LastTime,
  Cadence,     \* bars between evaluations
  Notional,    \* order_notional
  MaxRuns      \* bound of the model: how often the session is run

ASSUME SessionConstants ==
  /\ SessionEnd \in Nat \ {0} /\ LastTime \in Nat /\ SessionEnd <= LastTime
  /\ Cadence \in Nat \ {0} /\ Notional \in Nat /\ MaxRuns \in Nat
  /\ Panels \subseteq [Symbols -> [1 .. LastTime ->
                 [open : Nat \ {0}, close : Nat \ {0}, volume : Nat] \cup {NoBar}]]
  /\ \A panel \in Panels, t \in 1 .. SessionEnd : \E s \in Symbols : panel[s][t] # NoBar
  /\ OrderIds = Symbols \X (0 .. SessionEnd)
  /\ Keys = Symbols \X {"entry", "exit"}

VARIABLES
  bars,      \* the panel replayed
  stage,     \* what run_session is doing
  asOf,      \* the time of the evaluation
  todo,      \* signals of it, or then entries to exit, that are still to be handled
  entries,   \* quantity of each entry, 0 for an instrument without one
  order,     \* the instruments entered, in that order
  stranded,  \* quantity that would not exit
  raised,    \* the exception that ended the session, if one did
  runs,      \* how often the session was begun
  left,      \* what each instrument was held of when this run began
  stamps     \* the bar time each fill is stamped with (Fill.timestamp)

given == <<bars, runs, left>>
sessionVars == <<given, stage, asOf, todo, entries, order, stranded, raised>>
allVars == <<vars, stamps, sessionVars>>

HasBar(s, t) == bars[s][t] # NoBar
Later(s, t) == {u \in t + 1 .. LastTime : HasBar(s, u)}

\* The first bar after t, for an instrument that has one.
NextBar(s, t) == Min(Later(s, t))
LastBar_BeforeClose(s) == Max({u \in 1 .. SessionEnd - 1 : HasBar(s, u)})

LastBar(s) == Max({u \in 1 .. SessionEnd : HasBar(s, u)})

\* _quote_from: both sides at the open, a tenth of the volume on each.
QuoteFrom(s, t) ==
  [symbol |-> s, bid |-> bars[s][t].open, ask |-> bars[s][t].open,
   pool |-> [side \in Sides |-> (bars[s][t].volume * Lot) \div 10]]

NewOrder(s, side, quantity, limit, leg) ==
  [symbol |-> s, side |-> side, quantity |-> quantity, limit |-> limit,
   key |-> <<s, leg>>, state |-> "PENDING", filled |-> 0]

Shares(s, t) == (Notional \div bars[s][NextBar(s, t)].open) * Lot

EntryOrder(s, t) ==
  NewOrder(s, "BUY", Shares(s, t), (bars[s][NextBar(s, t)].open * 1003) \div 1000, "entry")

ExitOrder_EntryKey(s) ==
  NewOrder(s, "SELL", entries[s], (bars[s][LastBar(s)].close * 997) \div 1000, "entry")

ExitOrder(s) ==
  NewOrder(s, "SELL", entries[s], (bars[s][LastBar(s)].close * 997) \div 1000, "exit")

\* submit raises instead of answering.
Refused(i, o) == halted \/ problems \/ Known(i) \/ keys[o.key] # NoOrder

Raise(i, o) ==
  /\ Refused(i, o)
  /\ raised' = IF halted THEN "kill_switch" ELSE "duplicate"
  /\ stage' = IF o.side = "BUY" THEN "entry_raised" ELSE "exit_raised"
  /\ UNCHANGED <<vars, given, asOf, todo, entries, order, stranded>>

(***************************************************************************)
(* Entries.                                                                *)
(***************************************************************************)
\* The strategy is shown the instruments that have a bar by asOf.
Evaluate ==
  /\ stage = "evaluate" /\ asOf <= SessionEnd
  /\ todo' \in SetToAllKPermutations({s \in Symbols : \E t \in 1 .. asOf : HasBar(s, t)})
  /\ stage' = "enter"
  /\ UNCHANGED <<vars, given, asOf, entries, order, stranded, raised>>

\* An instrument already entered, with no bar to execute on, or too dear for one share.
Skip ==
  /\ stage = "enter" /\ todo # <<>>
  /\ LET s == Head(todo)
     IN Later(s, asOf) # {} /\ Shares(s, asOf) > 0 => entries[s] > 0
  /\ todo' = Tail(todo)
  /\ UNCHANGED <<vars, given, stage, asOf, entries, order, stranded, raised>>

Enter ==
  /\ stage = "enter" /\ todo # <<>>
  /\ LET s == Head(todo)
         i == <<s, asOf>>
     IN /\ entries[s] = 0 /\ Later(s, asOf) # {} /\ Shares(s, asOf) > 0
        /\ LET o == EntryOrder(s, asOf)
           IN \/ Raise(i, o)
              \/ /\ Reject(i, o)
                 /\ todo' = Tail(todo)
                 /\ UNCHANGED <<given, stage, asOf, entries, order, stranded, raised>>
              \/ /\ Accept(i, o, QuoteFrom(s, NextBar(s, asOf)))
                 /\ stage' = "entering"
                 /\ UNCHANGED <<given, asOf, todo, entries, order, stranded, raised>>

Entered_AsOrdered ==
  /\ stage = "entering" /\ ~Serving
  /\ LET s == Head(todo)
         quantity == orders[<<s, asOf>>].quantity
     IN /\ entries' = [entries EXCEPT ![s] = quantity]
        /\ order' = Append(order, s)
  /\ stage' = "enter" /\ todo' = Tail(todo)
  /\ UNCHANGED <<vars, given, asOf, stranded, raised>>

\* submit has returned: an order with no fill is not an entry.
Entered ==
  /\ stage = "entering" /\ ~Serving
  /\ LET s == Head(todo)
         filled == orders[<<s, asOf>>].filled
     IN IF filled = 0
        THEN UNCHANGED <<entries, order>>
        ELSE /\ entries' = [entries EXCEPT ![s] = filled]
             /\ order' = Append(order, s)
  /\ stage' = "enter" /\ todo' = Tail(todo)
  /\ UNCHANGED <<vars, given, asOf, stranded, raised>>

NextStep ==
  /\ stage = "enter" /\ todo = <<>>
  /\ stage' = "evaluate" /\ asOf' = asOf + Cadence
  /\ UNCHANGED <<vars, given, todo, entries, order, stranded, raised>>

(***************************************************************************)
(* Exits.                                                                  *)
(***************************************************************************)
Close ==
  /\ stage = "evaluate" /\ asOf > SessionEnd
  /\ stage' = "exit" /\ todo' = order
  /\ UNCHANGED <<vars, given, asOf, entries, order, stranded, raised>>

Exit ==
  /\ stage = "exit" /\ todo # <<>>
  /\ LET s == Head(todo)
         i == <<s, 0>>
         o == ExitOrder(s)
     IN \/ Raise(i, o)
        \/ /\ Reject(i, o)
           /\ stranded' = [stranded EXCEPT ![s] = entries[s]]
           /\ todo' = Tail(todo)
           /\ UNCHANGED <<given, stage, asOf, entries, order, raised>>
        \/ /\ Accept(i, o, QuoteFrom(s, LastBar(s)))
           /\ stage' = "exiting"
           /\ UNCHANGED <<given, asOf, todo, entries, order, stranded, raised>>

Exited ==
  /\ stage = "exiting" /\ ~Serving
  /\ LET s == Head(todo)
     IN stranded' = [stranded EXCEPT ![s] = entries[s] - orders[<<s, 0>>].filled]
  /\ stage' = "exit" /\ todo' = Tail(todo)
  /\ UNCHANGED <<vars, given, asOf, entries, order, raised>>

Finish ==
  /\ stage = "exit" /\ todo = <<>>
  /\ stage' = "done"
  /\ UNCHANGED <<vars, given, asOf, todo, entries, order, stranded, raised>>

\* The program is started again and restores the broker; the session starts over and
\* knows nothing of the entries of the run before.
RunAgain_ForgettingKeys ==
  /\ ~Serving /\ runs < MaxRuns /\ <<stage, asOf>> # <<"evaluate", 1>>
  /\ stage' = "evaluate" /\ asOf' = 1 /\ todo' = <<>>
  /\ entries' = [s \in Symbols |-> 0] /\ order' = <<>>
  /\ stranded' = [s \in Symbols |-> 0] /\ raised' = "nothing"
  /\ runs' = runs + 1 /\ left' = held
  /\ quote' = NoQuote /\ keys' = [k \in Keys |-> NoOrder]
  /\ UNCHANGED <<bars, orders, queue, fills, held, cash, problems, halted>>

RunAgain ==
  /\ ~Serving /\ runs < MaxRuns /\ <<stage, asOf>> # <<"evaluate", 1>>
  /\ stage' = "evaluate" /\ asOf' = 1 /\ todo' = <<>>
  /\ entries' = [s \in Symbols |-> 0] /\ order' = <<>>
  /\ stranded' = [s \in Symbols |-> 0] /\ raised' = "nothing"
  /\ runs' = runs + 1 /\ left' = held
  /\ quote' = NoQuote
  /\ UNCHANGED <<bars, orders, queue, fills, held, cash, keys, problems, halted>>

BrokerStep == (Serve \/ Engage \/ Release) /\ UNCHANGED sessionVars

\* The quote of an entry or an exit has the time of its bar, and a fill that of its quote.
QuoteTime ==
  IF stage = "entering" THEN NextBar(Head(todo), asOf) ELSE LastBar(Head(todo))

Stamped == stamps' = IF fills' = fills THEN stamps ELSE Append(stamps, QuoteTime)

SessionInit ==
  /\ Init
  /\ bars \in Panels
  /\ stage = "evaluate" /\ asOf = 1 /\ todo = <<>>
  /\ entries = [s \in Symbols |-> 0]
  /\ order = <<>>
  /\ stranded = [s \in Symbols |-> 0]
  /\ raised = "nothing"
  /\ runs = 1 /\ left = held
  /\ stamps = <<>>

SessionStep ==
  \/ Evaluate \/ Skip \/ Enter \/ Entered \/ NextStep
  \/ Close \/ Exit \/ Exited \/ Finish
  \/ RunAgain

SessionNext == (SessionStep \/ BrokerStep) /\ Stamped

SessionSpec == SessionInit /\ [][SessionNext]_allVars

(***************************************************************************)
(* Properties.                                                             *)
(***************************************************************************)
\* What a run believes it holds is what the book says beyond what earlier runs left, and
\* what these left stays as it is: an entry counts for what it filled, and after its exit
\* for what is reported as stranded, though entries and exits fill in part, are refused,
\* the run ends in an exception or dies, and is run again over its book.
ReportMatchesBook ==
  stage \notin {"entering", "exiting"} =>
    \A s \in Symbols :
      held[s] = left[s] + IF orders[<<s, 0>>].state = "PENDING" THEN entries[s] ELSE stranded[s]

\* A session never commits more than order_notional to an instrument, though signals
\* repeat, entries fill in part, orders of earlier steps keep resting and the session is
\* run again with other signals: "One entry per symbol per session" (run_session.py:181).
EntryWithinNotional ==
  \A s \in Symbols :
    LET bought == {n \in DOMAIN fills : fills[n].symbol = s /\ fills[n].side = "BUY"}
    IN SumFunction([n \in bought |-> fills[n].quantity * fills[n].price]) <= Notional * Lot

\* An order of the session is refused as a duplicate in two cases only, and no exit ever
\* is: the instrument was signalled again after an accepted entry that filled nothing and
\* rests, or an earlier run submitted an entry of it.  "Checking here as well keeps the
\* refusal out of the rejection count" (run_session.py:181) overlooks both: the session
\* ends there, with its entries open.
DuplicateMeansRestingEntry ==
  raised = "duplicate" =>
    /\ stage = "entry_raised"
    /\ \/ runs > 1 /\ \E t \in 1 .. SessionEnd : Known(<<Head(todo), t>>)
       \/ \E t \in 1 .. asOf - 1 :
            /\ orders[<<Head(todo), t>>].state = "OPEN" /\ held[Head(todo)] = 0
            /\ keys[<<Head(todo), "entry">>] = <<Head(todo), t>>

\* What the executions stamped by time t leave of an instrument.
Standing(s, t) ==
  LET by == {n \in DOMAIN fills : fills[n].symbol = s /\ stamps[n] <= t}
  IN SumFunction([n \in by |-> Signed(fills[n])])

\* On the clock of the bars no instrument is ever sold before it is bought: at any time
\* the executions stamped by then bought at least what they sold, though signals repeat,
\* entries and exits fill in part or are refused, and the session is run again.
\* One case is left out, which the code allows: an instrument without a later bar in the
\* session is bought on tomorrow's first bar and sold on today's last (run_session.py:190
\* and 236).  "Execution is strictly after the signal" (run_session.py:16) holds of each
\* leg and says nothing of the pair.
SoldAfterBought ==
  \A s \in Symbols :
    \/ \A t \in 1 .. LastTime : Standing(s, t) >= 0
    \/ \E n \in DOMAIN fills :
         fills[n].symbol = s /\ fills[n].side = "BUY" /\ stamps[n] > SessionEnd

\* An entry of which part of a share was filled, as a tenth of a thin bar's volume does,
\* stays to the last share: it is reported as stranded whole and its instrument never
\* sold ("KRX has no fractional shares", simulated_broker.py:431).
FractionIsStrandedWhole ==
  \A s \in Symbols :
    entries[s] % Lot # 0 /\ stage = "done" => stranded[s] = entries[s] /\ held[s] = entries[s]

\* "the kill switch stops order submission and does not stop liquidation"
\* (controls.py:7).  Does not hold: the exit leg goes through submit, which the switch
\* refuses, and the session ends with its entries open.
LiquidationIsNotStopped == ~(stage = "exit_raised" /\ raised = "kill_switch")
=============================================================================
