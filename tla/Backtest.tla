------------------------------ MODULE Backtest ------------------------------
(***************************************************************************)
(* The backtest: one session after the other on a new broker, and a        *)
(* judgement of the nets they report that counts sessions and not trades.  *)
(* What becomes of a session is RunSession: it reports a net, ends in a    *)
(* ValueError, which is taken for a day without bars, or in any other      *)
(* exception, which ends the backtest.                                     *)
(*                                                                         *)
(* Nets are integers and means have a denominator that every number of     *)
(* events divides, so that means, and the square of the t-statistic        *)
(* against that of the bar, are compared exactly.                          *)
(* Definitions named <definition>_<error> are wrong forms of the one that  *)
(* follows: each shows that a property fails when the code has that error. *)
(***************************************************************************)
EXTENDS Integers, Sequences, FiniteSets, FiniteSetsExt, Functions, SequencesExt

CONSTANTS
  LastDay,   \* the days of the panel are 1 .. LastDay
  Nets,      \* what a session may report
  Unit       \* the denominator of means: a multiple of every number of events in a session

ASSUME BacktestConstants ==
  /\ LastDay \in Nat /\ Nets \subseteq Int
  /\ Unit \in Nat \ {0} /\ \A k \in 1 .. LastDay + 1 : Unit % k = 0

VARIABLES
  day,       \* the next day to replay
  reports,   \* the day and net of each session that reported
  outcome    \* "running", "raised", or the verdict

backtestVars == <<day, reports, outcome>>

(***************************************************************************)
(* Clustering on sessions.                                                 *)
(***************************************************************************)
\* Events are a function: of the places of a list, or of those that are left of one.
Sessions(events) == {events[n].day : n \in DOMAIN events}

Of(events, d) == {n \in DOMAIN events : events[n].day = d}

Total(events, d) == SumFunctionOnSet([n \in DOMAIN events |-> events[n].net], Of(events, d))

Means_Totals(events) == [d \in Sessions(events) |-> Total(events, d)]

\* The mean of each session, in parts of Unit.
Means(events) ==
  [d \in Sessions(events) |-> Total(events, d) * (Unit \div Cardinality(Of(events, d)))]

Sum(means) == SumFunction(means)
Squares(means) == SumFunction([d \in DOMAIN means |-> means[d] * means[d]])

\* n^2 times the variance of the n means.
Spread(means) == Cardinality(DOMAIN means) * Squares(means) - Sum(means) * Sum(means)

\* t^2 >= 4: the mean against its standard error, that of a sample of n means.
ReachesTwo(means) ==
  Sum(means) * Sum(means) * (Cardinality(DOMAIN means) - 1) >= 4 * Spread(means)

\* The first of the sessions with the highest mean.
Best(events) ==
  LET means == Means(events)
      tops == {n \in DOMAIN events : \A d \in Sessions(events) : means[events[n].day] >= means[d]}
  IN events[Min(tops)].day

WithoutBest(events) ==
  LET best == Best(events)
  IN Restrict(events, {n \in DOMAIN events : events[n].day # best})

\* _judge, of the t of the clustered events: fewer than two sessions have none, and
\* fewer than five are no sample.
Judged(events, sessions) ==
  LET means == Means(events)
  IN IF sessions < 5 THEN "absent"
     ELSE IF Cardinality(Sessions(events)) < 2 \/ Spread(means) = 0 THEN "degenerate"
     ELSE IF ~ReachesTwo(means) THEN "noise"
     ELSE IF Sum(means) < 0 THEN "loses" ELSE "positive"

(***************************************************************************)
(* The run over the days.                                                  *)
(***************************************************************************)
ReplayDay(net) ==
  /\ outcome = "running" /\ day <= LastDay
  /\ reports' = Append(reports, [day |-> day, net |-> net])
  /\ day' = day + 1
  /\ UNCHANGED outcome

SkipDay ==
  /\ outcome = "running" /\ day <= LastDay
  /\ day' = day + 1
  /\ UNCHANGED <<reports, outcome>>

AbortedDay ==
  /\ outcome = "running" /\ day <= LastDay
  /\ outcome' = "raised"
  /\ UNCHANGED <<day, reports>>

Judge ==
  /\ outcome = "running" /\ day > LastDay
  /\ outcome' = Judged(reports, Len(reports))
  /\ UNCHANGED <<day, reports>>

BacktestInit == day = 1 /\ reports = <<>> /\ outcome = "running"
BacktestNext == (\E net \in Nets : ReplayDay(net)) \/ SkipDay \/ AbortedDay \/ Judge
BacktestSpec == BacktestInit /\ [][BacktestNext]_backtestVars

(***************************************************************************)
(* Properties.                                                             *)
(***************************************************************************)
\* The trades of one session over again, or its trade in two parts of the same mean.
Twice(n) == InsertAt(reports, n, reports[n])
Split(n) ==
  InsertAt([reports EXCEPT ![n].net = @ - 1], n, [reports[n] EXCEPT !.net = @ + 1])

\* "the effective sample size is the session count, not the event count"
\* (day_clustering.py:18): however often the trades of a session are repeated, or its
\* result is spread over several, the t-statistic is the same and so is the verdict; and
\* the figure without the best session never flatters (cluster_by_session,
\* drop_worst_session, _judge).
VerdictCountsSessions ==
  /\ \A n \in DOMAIN reports : \A events \in {Twice(n), Split(n)} :
       Judged(events, Len(reports)) = Judged(reports, Len(reports))
  /\ Len(reports) >= 3 =>
       LET rest == WithoutBest(reports)
       IN Sum(Means(rest)) * Cardinality(Sessions(reports))
            <= Sum(Means(reports)) * Cardinality(Sessions(rest))
=============================================================================
