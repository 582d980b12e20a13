------------------------------- MODULE MCData -------------------------------
(***************************************************************************)
(* What is computed from bars: small instances of CrossSection, in which   *)
(* every instant after the first is in the hour and the generator of an    *)
(* instant rotates the sequence it draws from, of BarQuality,              *)
(* ReplaySource, Backtest and PriceLimits.  They share nothing and are     *)
(* explored one at a time: a step of one is taken only while the others    *)
(* are where they began.                                                   *)
(***************************************************************************)
EXTENDS CrossSection, BarQuality, ReplaySource, Backtest, PriceLimits

CONSTANTS a, b

TwoSymbols == <<a, b>>
FromSecond(t) == t >= 2
Rotated(t, candidates, k) ==
  [n \in 1 .. k |-> candidates[((n + t - 1) % Len(candidates)) + 1]]

MCNets == {-1, 0, 2}

\* Closes of the grid at the bounds of the bands, and where the limit crosses one.
Bounds == {2000, 5000, 20000, 50000, 200000, 500000}
MCCloses ==
  {c - (c % TickSize(c * 10)) + k * TickSize(c * 10) :
     c \in {10} \cup Bounds \cup {(bound * 10) \div 13 : bound \in Bounds}, k \in -1 .. 1}

StrategiesIdle == stage = "load" /\ now = 1 /\ \A s \in Symbols : bars[s] = <<>>
ReportIdle == panel = <<>>
SourceIdle == newest = 0 /\ \A s \in Sources : phase[s] = "idle"
BacktestIdle == outcome = "running" /\ day = 1
LimitsIdle == found = NoAnswer

MCInit == StrategiesInit /\ PanelInit /\ SourceInit /\ BacktestInit /\ LimitInit
MCNext ==
  \/ /\ ReportIdle /\ SourceIdle /\ BacktestIdle /\ LimitsIdle
     /\ StrategiesNext /\ UNCHANGED <<panel, sourceVars, backtestVars, limitVars>>
  \/ /\ StrategiesIdle /\ SourceIdle /\ BacktestIdle /\ LimitsIdle
     /\ PanelNext /\ UNCHANGED <<strategiesVars, sourceVars, backtestVars, limitVars>>
  \/ /\ StrategiesIdle /\ ReportIdle /\ BacktestIdle /\ LimitsIdle
     /\ SourceNext /\ UNCHANGED <<strategiesVars, panel, backtestVars, limitVars>>
  \/ /\ StrategiesIdle /\ ReportIdle /\ SourceIdle /\ LimitsIdle
     /\ BacktestNext /\ UNCHANGED <<strategiesVars, panel, sourceVars, limitVars>>
  \/ /\ StrategiesIdle /\ ReportIdle /\ SourceIdle /\ BacktestIdle
     /\ LimitNext /\ UNCHANGED <<strategiesVars, panel, sourceVars, backtestVars>>
MCSpec == MCInit /\ [][MCNext]_<<strategiesVars, panel, sourceVars, backtestVars, limitVars>>
=============================================================================
