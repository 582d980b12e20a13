-------------------------- MODULE MCParquetBarStore --------------------------
(* Small instances of ParquetBarStore. *)
EXTENDS ParquetBarStore

CONSTANTS f1, f2, f3, t1, t2, x, y, minutes, days

ThreeFiles == <<f1, f2, f3>>

\* Two symbols' minutes, in one directory, and a symbol's days, in another.
TwoIntervals == [f \in {f1, f2, f3} |-> IF f = f3 THEN days ELSE minutes]

Row(f, t, bar) == [file |-> f, at |-> t, bar |-> bar]

\* One file, two of one directory and two of both, a minute given twice, a bar that
\* replaces another.
MCBatches ==
  { <<Row(f1, t1, x), Row(f2, t1, x)>>,
    <<Row(f3, t2, x), Row(f1, t1, y), Row(f1, t1, x), Row(f1, t2, x)>>,
    <<Row(f3, t1, y)>> }
==============================================================================
