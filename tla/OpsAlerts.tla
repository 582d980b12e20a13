------------------------------ MODULE OpsAlerts ------------------------------
(***************************************************************************)
(* The structural health checks: what build_alerts finds in the queue, the *)
(* positions, the job outcomes and the build, and in which order it lists  *)
(* the findings.  Times are counted in instants, of which a day has PerDay.*)
(* A finding that somebody has triaged keeps its place in the list, with a *)
(* status that sorts it below the open ones.                               *)
(*                                                                         *)
(* Definitions named <definition>_<error> are wrong forms of the one that  *)
(* follows: each shows that a property fails when the code has that error. *)
(***************************************************************************)
EXTENDS Integers, Sequences, FiniteSets, FiniteSetsExt, SequencesExt, Selections

CONSTANTS
  JobKeys,       \* the registered table, in its order
  PerDay,
  MaxAge,        \* pending_max_age_days
  SilenceDays,   \* silence_days
  Window,        \* undecidable_window
  Ratio,         \* undecidable_ratio, as <<numerator, denominator>>
  General        \* the subject of a finding, or of an acknowledgement, that has none

ASSUME AlertConstants ==
  /\ PerDay \in Nat \ {0} /\ MaxAge \in Nat
  /\ SilenceDays \in Nat \ {0} /\ Window \in Nat \ {0}
  /\ Ratio \in Nat \X Nat /\ 0 < Ratio[1] /\ Ratio[1] <= Ratio[2]
  /\ JobKeys \in Seq(ToSet(JobKeys))
  /\ \A m, n \in DOMAIN JobKeys : JobKeys[m] = JobKeys[n] => m = n

\* Triage: the acknowledgement of the subject counts before that of its category.
Status(category, subject, ack) ==
  IF <<category, subject>> \in DOMAIN ack THEN ack[<<category, subject>>]
  ELSE IF <<category, General>> \in DOMAIN ack THEN ack[<<category, General>>]
  ELSE "open"

Finding(severity, category, subject, count, ack) ==
  [severity |-> severity, status |-> Status(category, subject, ack),
   category |-> category, subject |-> subject, count |-> count]

\* pending gives each queued item the day it was queued on.
StuckQueue(pending, today, ack) ==
  LET ages == [i \in DOMAIN pending |-> today - pending[i]]
      aged == {i \in DOMAIN pending : ages[i] > MaxAge}
      severity == IF \E i \in aged : ages[i] > 2 * MaxAge THEN "critical" ELSE "major"
  IN IF aged = {} THEN <<>>
     ELSE <<Finding(severity, "stuck_queue", General, Cardinality(aged), ack)>>

\* positions gives each symbol, which is a number, its quantity and the day it should have
\* been sold by.
OverduePositions(positions, today, ack) ==
  LET days == [s \in DOMAIN positions |-> today - positions[s].exit]
      overdue == {s \in DOMAIN positions : positions[s].quantity # 0 /\ days[s] > 0}
      listed == InOrder(overdue,
                  {p \in overdue \X overdue :
                     days[p[1]] > days[p[2]] \/ (days[p[1]] = days[p[2]] /\ p[1] < p[2])})
  IN [n \in DOMAIN listed |->
        Finding("critical", "overdue_position", listed[n], days[listed[n]], ack)]

\* outcomes gives the outcomes that were read by their places in the stream.
OfJob(outcomes, key) == {n \in DOMAIN outcomes : outcomes[n].key = key}

Recent_Any(outcomes, key, now) == OfJob(outcomes, key)

Recent(outcomes, key, now) ==
  {n \in OfJob(outcomes, key) : outcomes[n].finished >= now - SilenceDays * PerDay}

SilenceOf_AnyRun(key, outcomes, now, ack) ==
  IF Recent(outcomes, key, now) = {}
  THEN {Finding("major", "job_silence", key, SilenceDays, ack)}
  ELSE {}

\* No outcome at all, or no outcome that is OK.
SilenceOf(key, outcomes, now, ack) ==
  LET recent == Recent(outcomes, key, now)
  IN IF recent = {} THEN {Finding("major", "job_silence", key, SilenceDays, ack)}
     ELSE IF \A n \in recent : outcomes[n].result # "OK"
     THEN {Finding("minor", "job_never_succeeds", key, Cardinality(recent), ack)}
     ELSE {}

\* The findings of the jobs, of which each has one or none, in the order of the table.
ByJob(found) ==
  Selected([n \in DOMAIN JobKeys |-> CHOOSE f \in found[n] : TRUE],
           {n \in DOMAIN JobKeys : found[n] # {}})

JobSilence(outcomes, now, ack) ==
  ByJob([n \in DOMAIN JobKeys |-> SilenceOf(JobKeys[n], outcomes, now, ack)])

\* The last outcomes in the order they were written, however old they are.
UndecidableOf(key, outcomes, ack) ==
  LET mine == OfJob(outcomes, key)
      recent == {n \in mine : Cardinality({m \in mine : m > n}) < Window}
      undecided == Cardinality({n \in recent : outcomes[n].result = "UNDECIDABLE"})
  IN IF Cardinality(mine) < Window \/ undecided * Ratio[2] < Ratio[1] * Window THEN {}
     ELSE {Finding("major", "undecidable_rate", key, undecided, ack)}

UndecidableSources(outcomes, ack) ==
  ByJob([n \in DOMAIN JobKeys |-> UndecidableOf(JobKeys[n], outcomes, ack)])

Staleness(stale, ack) ==
  IF stale THEN <<Finding("critical", "stale_build", General, 1, ack)>> ELSE <<>>

\* sort_key: what is open, then what is severe; findings that are alike stay in order.
Ranked_SeverityOnly(found) ==
  LET Of(severity) == Selected(found, {n \in DOMAIN found : found[n].severity = severity})
  IN Of("critical") \o Of("major") \o Of("minor")

Ranked(found) ==
  LET Of(severity, isOpen) ==
        Selected(found, {n \in DOMAIN found :
          found[n].severity = severity /\ (found[n].status = "open") = isOpen})
  IN Of("critical", TRUE) \o Of("major", TRUE) \o Of("minor", TRUE)
     \o Of("critical", FALSE) \o Of("major", FALSE) \o Of("minor", FALSE)

\* state: what build_alerts is given besides the outcomes.
BuildAlerts(state, outcomes, now, ack) ==
  LET today == now \div PerDay
  IN Ranked(StuckQueue(state.pending, today, ack)
            \o OverduePositions(state.positions, today, ack)
            \o JobSilence(outcomes, now, ack)
            \o UndecidableSources(outcomes, ack)
            \o Staleness(state.stale, ack))
==============================================================================
