---------------------------- MODULE MCRunSession ----------------------------
(***************************************************************************)
(* Instances of RunSession: a session of three bars and a bar of the next  *)
(* day, with bars that are missing, without volume, thin, or fall enough   *)
(* between their open and close to keep an exit from filling.              *)
(***************************************************************************)
EXTENDS RunSession

CONSTANTS a, b

TwoSymbols == {a, b}
Ids == TwoSymbols \X (0 .. 3)
Intents == TwoSymbols \X {"entry", "exit"}

Bar(open, close, volume) == [open |-> open, close |-> close, volume |-> volume]

\* Of b: halted at first, then a close above its open, which an exit cannot meet.
OfB == << NoBar, Bar(1000, 1000, 20), Bar(1000, 1200, 100), Bar(900, 900, 100) >>

\* Of a: every sequence of no bar and a liquid, an empty, a thin and a dear one.
BarsOfA == {NoBar, Bar(1000, 1000, 100), Bar(1000, 1000, 0), Bar(1000, 1100, 15),
            Bar(3000, 3000, 100)}

Replayable == {(a :> x) @@ (b :> OfB) : x \in {y \in [1 .. 4 -> BarsOfA] : y[1] # NoBar}}
=============================================================================
