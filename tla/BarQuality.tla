----------------------------- MODULE BarQuality -----------------------------
(***************************************************************************)
(* The integrity report on the bars of one symbol, as a function of the    *)
(* rows of the panel, to which a loader may add any row next.  The report  *)
(* only counts; the property says what may be concluded from it about      *)
(* which bars are there.                                                   *)
(*                                                                         *)
(* A day is a session of SessionMinutes minutes, 0 .. SessionMinutes - 1,  *)
(* with its first and last, and rows may be stamped outside it.  Bars have *)
(* positive prices: Bar refuses others.                                    *)
(* Definitions named <definition>_<error> are wrong forms of the one that  *)
(* follows: each shows that a property fails when the code has that error. *)
(***************************************************************************)
EXTENDS Integers, Sequences, FiniteSets, FiniteSetsExt

CONSTANTS
  Own, Other,       \* the symbol the report is about, and another
  Intervals,        \* resolutions, in minutes, a row may have
  SessionMinutes,
  Days,
  Minutes,          \* minutes of a day a row may be stamped with
  MaxPanel          \* bound of the model: rows of a panel

ASSUME QualityConstants ==
  /\ Own # Other /\ Intervals \subseteq Nat \ {0} /\ SessionMinutes \in Nat \ {0}
  /\ Minutes \subseteq Int /\ MaxPanel \in Nat

VARIABLE panel  \* the rows analyze_bars is given

Rows == [symbol : {Own, Other}, day : Days, minute : Minutes, interval : Intervals]

InSession(m) == 0 <= m /\ m < SessionMinutes

Moment(b) == <<b.day, b.minute>>
Moments == {Moment(panel[n]) : n \in DOMAIN panel}

Largest(i, j) == IF i >= j THEN i ELSE j

\* Rounded down: of a session whose minutes the interval does not divide, a bar less than
\* it has ("inclusive of both ends", quality.py:23).
ExpectedBarsPerSession(interval) == Largest(1, SessionMinutes \div interval)

Carrying(i) == Cardinality({n \in DOMAIN panel : panel[n].interval = i})
Resolutions == {panel[n].interval : n \in DOMAIN panel}

\* Counter.most_common: of the most frequent resolutions, the one met first.
Resolution ==
  LET top == {i \in Resolutions :
                \A j \in Resolutions : Carrying(i) >= Carrying(j)}
  IN panel[Min({n \in DOMAIN panel : panel[n].interval \in top})].interval

Foreign == Cardinality({n \in DOMAIN panel : panel[n].symbol # Own})

Duplicates == Len(panel) - Cardinality(Moments)

OutOfSession_BeforeOnly == Cardinality({n \in DOMAIN panel : panel[n].minute < 0})

OutOfSession == Cardinality({n \in DOMAIN panel : ~InSession(panel[n].minute)})

\* Counted on the days that have a row.
SeenOn(d) == Cardinality({x \in Moments : x[1] = d})
ShortOn(d) == Largest(0, ExpectedBarsPerSession(Resolution) - SeenOn(d))
MissingMinutes == SumFunction([d \in {x[1] : x \in Moments} |-> ShortOn(d)])

\* Whether analyze_bars adds a warning.
Warned ==
  \/ panel = <<>>
  \/ Foreign > 0 \/ Duplicates > 0 \/ OutOfSession > 0
  \/ Cardinality(Resolutions) > 1
  \/ MissingMinutes > 0

IsClean == ~Warned /\ Duplicates = 0

LoadRow(row) == Len(panel) < MaxPanel /\ panel' = Append(panel, row)

PanelInit == panel = <<>>
PanelNext == \E row \in Rows : LoadRow(row)
PanelSpec == PanelInit /\ [][PanelNext]_panel

(***************************************************************************)
(* Properties.                                                             *)
(***************************************************************************)
\* What a session at the resolution of the panel consists of.
SessionBars == {m \in 0 .. SessionMinutes - 1 : m % Resolution = 0}

IsWhole ==
  /\ panel # <<>> /\ Cardinality(Resolutions) = 1
  /\ \A n \in DOMAIN panel : panel[n].symbol = Own /\ panel[n].minute \in SessionBars
  /\ \A x \in Moments : \A m \in SessionBars :
       Cardinality({n \in DOMAIN panel : Moment(panel[n]) = <<x[1], m>>}) = 1

\* For rows on the bars of their resolution and an interval that divides the session, a
\* clean report is the report of a whole panel and of no other: on every day it has a
\* row of, each bar of the session is there exactly once and nothing else is - though the
\* report only counts, and rows that are there twice, outside the session, of another
\* resolution or of another symbol could stand in for missing ones (analyze_bars).
CleanMeansWhole ==
  /\ \A n \in DOMAIN panel : panel[n].minute % panel[n].interval = 0
  /\ \A n \in DOMAIN panel : SessionMinutes % panel[n].interval = 0
  => (IsClean <=> IsWhole)
==============================================================================
