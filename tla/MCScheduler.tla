----------------------------- MODULE MCScheduler -----------------------------
(* Small instances of Scheduler. *)
EXTENDS Scheduler

CONSTANTS open_scan, report

\* Two jobs of one minute, one of them on every day.
SameMinute == << [key |-> open_scan, at |-> 1, weekdays_only |-> TRUE],
                 [key |-> report, at |-> 1, weekdays_only |-> FALSE] >>

OneJob == << [key |-> open_scan, at |-> 0, weekdays_only |-> TRUE] >>
==============================================================================
