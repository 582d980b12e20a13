------------------------------ MODULE OpsStream ------------------------------
(***************************************************************************)
(* The ops stream: one JSONL file to which the processes of the program    *)
(* append the outcome of each job run and each log line that looks like    *)
(* trouble, and from which the alerts are computed.  Any process may be    *)
(* killed, which is how a run ends without an outcome, and any append may  *)
(* be refused; either may leave a part of the record behind.               *)
(*                                                                         *)
(* A job is fired at its instant of the day by whoever runs the scheduler, *)
(* at most once a day (module Scheduler), and runs for as long as it likes.*)
(* Every day is a weekday.  The dashboard is looked at as every instant    *)
(* begins: raised holds what the silence check has told it by now.         *)
(*                                                                         *)
(* Definitions named <definition>_<error> are wrong forms of the one that  *)
(* follows: each shows that a property fails when the code has that error. *)
(***************************************************************************)
EXTENDS JsonlLines, OpsAlerts

CONSTANTS
  Procs,
  FireAt,               \* the instant of the day each job fires at
  Levels, MinLevel, CaptureFrom, \* ranks of the log levels
  Events,               \* the log calls that may be made
  Results,              \* how a run may end
  Earlier,              \* what may have been recorded before: sequences of outcomes
  Idle,
  MaxTime, MaxFaults,   \* bounds of the model
  States, Acks          \* what the alerts may be given besides the outcomes

Keys == {JobKeys[n] : n \in DOMAIN JobKeys}

OutcomeRecords == [kind : {"job_outcome"}, key : Keys, finished : Int, result : Results]
StreamRecords == OutcomeRecords \cup [kind : {"log_event"}, id : Events]

\* What is left of a cut record is no record: the front part of an object is not JSON.
ASSUME StreamConstants ==
  /\ FireAt \in [Keys -> 0 .. PerDay - 1]
  /\ Levels \subseteq Nat /\ MinLevel \in Nat /\ CaptureFrom \in Nat
  /\ Idle \notin Keys
  /\ Results \subseteq {"OK", "SKIPPED", "FAILED", "UNDECIDABLE"}
  /\ Earlier \subseteq Seq(OutcomeRecords)
  /\ \A outcomes \in Earlier : \A n \in DOMAIN outcomes : outcomes[n].finished < 0
  /\ \A state \in States :
       IsFiniteSet(DOMAIN state.positions) /\ DOMAIN state.positions \subseteq Nat
  /\ Cut \notin StreamRecords /\ SplitChar \notin StreamRecords
  /\ MaxTime \in Nat /\ MaxFaults \in Nat

VARIABLES
  file,
  now,
  fired,     \* the last day each job was fired on: the persisted map
  running,   \* the run each process is in, or Idle
  dropped,   \* dropped_events of each process
  faults,
  ended,     \* for the properties: every run that came to its end
  lost,      \* the runs that did not, whose outcome was refused, or that were missed: when
  raised,    \* those of them whose job was reported as silent since
  calls      \* the log calls of each process, since it started, that look like trouble

vars == <<file, now, fired, running, dropped, faults, ended, lost, raised, calls>>

Today == now \div PerDay

(***************************************************************************)
(* Readers.                                                                *)
(***************************************************************************)
\* read_outcomes and read_log_events, of a stream that can be read: the outcomes by their
\* places, and of the log lines only which there are.
Outcomes ==
  LET records == ReadAll(file)
      places == {n \in DOMAIN records : records[n].kind = "job_outcome"}
  IN [n \in places |-> records[n]]
LogEvents == {r \in ToSet(ReadAll(file)) : r.kind = "log_event"}

Alerts(state, ack) == BuildAlerts(state, Outcomes, now, ack)

Quiet == [pending |-> <<>>, positions |-> <<>>, stale |-> FALSE]
Unacknowledged == <<>>

Mentions(alerts, category, key) ==
  \E n \in DOMAIN alerts : alerts[n].category = category /\ alerts[n].subject = key

ReportedSilent(key, moment) ==
  /\ Readable(file)
  /\ Mentions(BuildAlerts(Quiet, Outcomes, moment, Unacknowledged), "job_silence", key)

(***************************************************************************)
(* Jobs.                                                                   *)
(***************************************************************************)
Fire(p, key) ==
  /\ running[p] = Idle
  /\ now % PerDay = FireAt[key] /\ fired[key] < Today
  /\ fired' = [fired EXCEPT ![key] = Today]
  /\ running' = [running EXCEPT ![p] = key]
  /\ UNCHANGED <<file, now, dropped, faults, ended, lost, raised, calls>>

Outcome(key, result) ==
  [kind |-> "job_outcome", key |-> key, finished |-> now, result |-> result]

Ended(outcome) == [key |-> outcome.key, at |-> outcome.finished, result |-> outcome.result]

Run(key) == [key |-> key, at |-> now]

Complete(p, result) ==
  /\ running[p] # Idle
  /\ file' = Appended(file, Outcome(running[p], result), TRUE)
  /\ ended' = ended \cup {Ended(Outcome(running[p], result))}
  /\ running' = [running EXCEPT ![p] = Idle]
  /\ UNCHANGED <<now, fired, dropped, faults, lost, raised, calls>>

\* What an append that does not come to its end leaves: nothing, or a part of the record.
Remains(record) == {file} \cup {Appended(file, piece, FALSE) : piece \in Torn(record)}

\* The append of the outcome raises: the run is noted on stderr and nowhere else.
Unrecorded(p, result) ==
  /\ faults < MaxFaults /\ running[p] # Idle
  /\ faults' = faults + 1
  /\ file' \in Remains(Outcome(running[p], result))
  /\ ended' = ended \cup {Ended(Outcome(running[p], result))}
  /\ lost' = lost \cup {Run(running[p])}
  /\ running' = [running EXCEPT ![p] = Idle]
  /\ UNCHANGED <<now, fired, dropped, raised, calls>>

(***************************************************************************)
(* Log lines.                                                              *)
(***************************************************************************)
Event(e) == [kind |-> "log_event", id |-> e]

Captured_IfShown(level, matches) ==
  level >= MinLevel /\ (level >= CaptureFrom \/ matches)

Captured(level, matches) == level >= CaptureFrom \/ matches

\* One log call: the console may refuse the line, the stream the record, and each
\* refusal is counted.
Log(p, e, level, matches) ==
  /\ \A q \in Procs : e \notin calls[q]
  /\ \A n \in DOMAIN file : ~Contains(file[n].pieces, Event(e))
  /\ calls' = [calls EXCEPT ![p] =
                 IF level >= CaptureFrom \/ matches THEN @ \cup {e} ELSE @]
  /\ \E console, stream \in BOOLEAN :
       LET refusals == {r \in {"console", "stream"} :
             \/ r = "console" /\ level >= MinLevel /\ ~console
             \/ r = "stream" /\ Captured(level, matches) /\ ~stream}
       IN /\ faults + Cardinality(refusals) <= MaxFaults
          /\ faults' = faults + Cardinality(refusals)
          /\ dropped' = [dropped EXCEPT ![p] = @ + Cardinality(refusals)]
          /\ IF ~Captured(level, matches) THEN UNCHANGED file
             ELSE IF stream THEN file' = Appended(file, Event(e), TRUE)
             ELSE file' \in Remains(Event(e))
  /\ UNCHANGED <<now, fired, running, ended, lost, raised>>

(***************************************************************************)
(* The machine.                                                            *)
(***************************************************************************)
\* A process is killed, perhaps while it appends a line, and takes its counts with it.
Killed(p) ==
  /\ faults < MaxFaults
  /\ faults' = faults + 1
  /\ lost' = IF running[p] = Idle THEN lost ELSE lost \cup {Run(running[p])}
  /\ running' = [running EXCEPT ![p] = Idle]
  /\ dropped' = [dropped EXCEPT ![p] = 0]
  /\ calls' = [calls EXCEPT ![p] = {}]
  /\ UNCHANGED <<now, fired, raised>>

Kill(p) ==
  /\ Killed(p)
  /\ file' \in {file} \cup {Appended(file, piece, FALSE) : piece \in {Cut, SplitChar}}
  /\ UNCHANGED ended

\* The job is over, and its process is killed while it appends the outcome.
KillRecording(p, result) ==
  /\ running[p] # Idle
  /\ Killed(p)
  /\ file' \in Remains(Outcome(running[p], result))
  /\ ended' = ended \cup {Ended(Outcome(running[p], result))}

Missed == {Run(k) : k \in {j \in Keys : FireAt[j] = now % PerDay /\ fired[j] < Today}}

\* The minute of a job that nobody fired is over, and is not made up for.
Tick ==
  /\ now < MaxTime
  /\ now' = now + 1
  /\ lost' = lost \cup Missed
  /\ UNCHANGED <<file, fired, running, dropped, faults, ended, calls>>
  /\ raised' = raised \cup {r \in lost \cup Missed : ReportedSilent(r.key, now + 1)}

Init ==
  /\ \E outcomes \in Earlier :
       /\ file = [n \in DOMAIN outcomes |-> [pieces |-> <<outcomes[n]>>, ended |-> TRUE]]
       /\ ended = {Ended(outcomes[n]) : n \in DOMAIN outcomes}
  /\ now = 0
  /\ fired = [k \in Keys |-> -1]
  /\ running = [p \in Procs |-> Idle]
  /\ dropped = [p \in Procs |-> 0]
  /\ faults = 0
  /\ lost = {} /\ raised = {}
  /\ calls = [p \in Procs |-> {}]

Process(p) ==
  \/ \E k \in Keys : Fire(p, k)
  \/ \E r \in Results : Complete(p, r) \/ Unrecorded(p, r) \/ KillRecording(p, r)
  \/ \E e \in Events, level \in Levels, matches \in BOOLEAN : Log(p, e, level, matches)
  \/ Kill(p)

Next == (\E p \in Procs : Process(p)) \/ Tick
Spec == Init /\ [][Next]_vars

(***************************************************************************)
(* Properties.                                                             *)
(***************************************************************************)
\* The time a job has to be silent for.
Patience == SilenceDays * PerDay

\* "a job that failed to complete shows up as silence, and ops_alerts.build_alerts raises
\* silence as an alert.  Losing a run loudly" (scheduler.py:24), and so for a missed one
\* (scheduler.py:31).  Does not hold: an outcome of the job on the next day ends the
\* silence long before silence_days are over.
LostRunIsRaised ==
  \A r \in lost : now > r.at + Patience => r \in raised \/ ~Readable(file)

\* A lost or missed run stays unreported in two ways only: another run of the job came
\* to its end within the time of silence after it, or the stream has become one that
\* read_outcomes raises on, and no alert is computed at all.
HiddenLossHasItsCause ==
  \A r \in lost \ raised :
    now > r.at + Patience =>
      \/ ~Readable(file)
      \/ \E e \in ended : e.key = r.key /\ r.at < e.at /\ e.at <= r.at + Patience + 1

\* A job that has not succeeded for silence_days is reported, as silent or as never
\* successful, whichever outcomes were torn, swallowed by torn ones or refused, and
\* whatever is acknowledged: what is lost from the stream hides no failure.
UnsuccessfulJobIsReported ==
  \A key \in Keys, ack \in Acks :
    Readable(file) /\ (\A e \in ended : e.key = key /\ e.result = "OK" => e.at < now - Patience)
      => Mentions(Alerts(Quiet, ack), "job_silence", key)
         \/ Mentions(Alerts(Quiet, ack), "job_never_succeeds", key)

\* Triage removes nothing from the list: the findings are those there would be without
\* it, with what is open above what is not and what is severe above what is less so
\* among these ("a triaged finding sorts below open ones instead of being suppressed",
\* ops_alerts.py:68).
Severities == <<"critical", "major", "minor">>
Place(a) == CHOOSE k \in DOMAIN Severities : Severities[k] = a.severity
Opened(alerts) == {[alerts[n] EXCEPT !.status = "open"] : n \in DOMAIN alerts}
TriageOnlyReorders ==
  Readable(file) => \A state \in States, ack \in Acks :
    LET alerts == Alerts(state, ack)
        plain == Alerts(state, Unacknowledged)
    IN /\ Len(alerts) = Len(plain) /\ Opened(alerts) = Opened(plain)
       /\ \A m, n \in DOMAIN alerts :
            m < n => IF alerts[m].status = "open" THEN alerts[n].status = "open" => Place(alerts[m]) <= Place(alerts[n])
                     ELSE alerts[n].status # "open" /\ Place(alerts[m]) <= Place(alerts[n])

\* A line that looks like trouble, also one below the console's level, is in the stream
\* or counted as dropped by the process that logged it, whatever other processes append
\* and wherever they die ("nothing is silently lost", logging.py:21), until something is
\* appended to a torn line: that loses a record whose append returned, and no one counts.
LossesAreCounted ==
  Intact(file) =>
    \A p \in Procs :
      Cardinality(calls[p] \ {e.id : e \in LogEvents}) <= dropped[p]
==============================================================================
