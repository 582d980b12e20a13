---------------------------- MODULE CrossSection ----------------------------
(***************************************************************************)
(* The two strategies that ship, over a panel of bars that grows with      *)
(* time: the hour rule ranks the instruments by the turnover of their      *)
(* latest bar relative to their own recent mean, the control draws some at *)
(* random from a generator fixed by its seed and the instant.  Both are    *)
(* shown the bars stamped at or before the instant (run_session's view)    *)
(* and both refuse rows that are not strictly increasing in time, as a     *)
(* loader that repeats a row makes them.                                   *)
(*                                                                         *)
(* Turnovers are integers and their ratios are compared exactly.           *)
(* Definitions named <definition>_<error> are wrong forms of the one that  *)
(* follows: each shows that a property fails when the code has that error. *)
(***************************************************************************)
EXTENDS Integers, Sequences, SequencesExt, FiniteSetsExt, Selections

CONSTANTS
  SymbolOrder,     \* the instruments, sorted
  Turnovers,       \* what a bar's traded value may be
  Lookback,        \* lookback_bars
  InHour(_),       \* whether an instant is in the hour the rule trades
  StrategyError,   \* what raising one answers
  Draw(_, _, _),   \* what the generator of an instant draws: some of a sequence, in order
  MaxSignals,
  MaxTime, MaxRows \* bounds of the model

Symbols == ToSet(SymbolOrder)

ASSUME CrossSectionConstants ==
  /\ \A m, n \in DOMAIN SymbolOrder : SymbolOrder[m] = SymbolOrder[n] => m = n
  /\ Turnovers \subseteq Nat /\ Lookback \in Nat \ {0} /\ MaxSignals \in Nat
  /\ MaxTime \in Nat /\ MaxRows \in Nat

VARIABLES
  bars,   \* the rows of each instrument, in the order they were loaded
  now,
  stage,  \* "load" or "decided": bars of an instant come before the decision
  said    \* each decision: its instant, and what each strategy answered

strategiesVars == <<bars, now, stage, said>>

View_All(panel, t) == panel

\* The single point-in-time cut.
Seen(rows, t) == Selected(rows, {n \in DOMAIN rows : rows[n].at <= t})
View(panel, t) == [s \in DOMAIN panel |-> Seen(panel[s], t)]

Usable_AllowingRepeats(view, t) ==
  \A s \in Symbols :
    LET rows == view[s]
    IN /\ \A n \in DOMAIN rows : rows[n].at <= t
       /\ \A n \in 1 .. Len(rows) - 1 : rows[n].at <= rows[n + 1].at

Usable(view, t) ==
  \A s \in Symbols :
    LET rows == view[s]
    IN /\ \A n \in DOMAIN rows : rows[n].at <= t
       /\ \A n \in 1 .. Len(rows) - 1 : rows[n].at < rows[n + 1].at

\* The trailing bars the latest one is compared with.
Baseline(rows) ==
  FoldLeft(LAMBDA sum, b : sum + b.value, 0, SubSeq(rows, Len(rows) - Lookback, Len(rows) - 1))

Rankable(rows) == Len(rows) >= Lookback + 1 /\ Baseline(rows) > 0

Place(s) == CHOOSE n \in DOMAIN SymbolOrder : SymbolOrder[n] = s

\* a ranks above b: a higher ratio, or the same and an earlier name.
Above(view, a, b) ==
  LET x == Last(view[a]).value * Baseline(view[b])
      y == Last(view[b]).value * Baseline(view[a])
  IN x > y \/ (x = y /\ Place(a) < Place(b))

Capped(ranking) == SubSeq(ranking, 1, IF Len(ranking) < MaxSignals THEN Len(ranking) ELSE MaxSignals)

HourRule(view, t) ==
  IF ~Usable(view, t) THEN StrategyError
  ELSE IF ~InHour(t) THEN <<>>
  ELSE Capped(SetToSortSeq({s \in Symbols : Rankable(view[s])}, LAMBDA a, b : Above(view, a, b)))

Control(view, t) ==
  LET candidates == SelectSeq(SymbolOrder, LAMBDA s : view[s] # <<>>)
      k == IF Len(candidates) < MaxSignals THEN Len(candidates) ELSE MaxSignals
  IN IF ~Usable(view, t) THEN StrategyError ELSE Draw(t, candidates, k)

Answers(panel, t) == [rule |-> HourRule(View(panel, t), t), control |-> Control(View(panel, t), t)]

Load(s, v) ==
  /\ stage = "load" /\ Len(bars[s]) < MaxRows
  /\ bars' = [bars EXCEPT ![s] = Append(@, [at |-> now, value |-> v])]
  /\ UNCHANGED <<now, stage, said>>

Decide ==
  /\ stage = "load"
  /\ stage' = "decided"
  /\ said' = Append(said, [at |-> now, answers |-> Answers(bars, now)])
  /\ UNCHANGED <<bars, now>>

Tick ==
  /\ stage = "decided" /\ now < MaxTime
  /\ now' = now + 1 /\ stage' = "load"
  /\ UNCHANGED <<bars, said>>

StrategiesInit == bars = [s \in Symbols |-> <<>>] /\ now = 1 /\ stage = "load" /\ said = <<>>
StrategiesNext == (\E s \in Symbols, v \in Turnovers : Load(s, v)) \/ Decide \/ Tick
StrategiesSpec == StrategiesInit /\ [][StrategiesNext]_strategiesVars

(***************************************************************************)
(* Properties.                                                             *)
(***************************************************************************)
\* Replaying an instant over the panel that later bars, and rows repeated by the loader,
\* were added to gives what was said at that instant (run_session's view, _rng_for).
ReplayRepeats == \A n \in DOMAIN said : Answers(bars, said[n].at) = said[n].answers

\* A row the loader repeats changes no ranking unnoticed: with a repeated row the rule
\* answers what it would answer without it, or raises (assert_usable_cross_section).
Repeated(panel, s, n) == [panel EXCEPT ![s] = InsertAt(@, n, @[n])]
RepeatedRowIsNoticed ==
  \A s \in Symbols : \A n \in DOMAIN bars[s] :
    LET answers == Answers(Repeated(bars, s, n), now)
    IN answers.rule \in {StrategyError, Answers(bars, now).rule}
==============================================================================
