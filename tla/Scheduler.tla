------------------------------ MODULE Scheduler ------------------------------
(***************************************************************************)
(* The job scheduler: loops that poll a table of jobs and dispatch what is *)
(* due, operators who run a job from a shell, the threads the jobs run in, *)
(* and the last-fired map they share on disk.                              *)
(*                                                                         *)
(* A mark on the map is one step: AtomicJsonStore shows that mutate is     *)
(* atomic.  The decision that a job is due reads the map without its lock, *)
(* in a step of its own, as does each later step of the tick.              *)
(*                                                                         *)
(* Time is a count of minutes.  Prompt says that the machine keeps pace:   *)
(* a tick or a mark does not outlast its minute, and a loop that sleeps    *)
(* poll_seconds (20 s) between ticks polls at least Polls times a minute.  *)
(*                                                                         *)
(* Definitions named <definition>_<error> are wrong forms of the one that  *)
(* follows: each shows that a property fails when the code has that error. *)
(***************************************************************************)
EXTENDS Integers, Sequences, FiniteSets

CONSTANTS
  Keys,           \* job keys
  Table,          \* the registered jobs, in registration order
  Loops,          \* processes that run serve
  Operators,      \* processes that run run_once
  MinutesPerDay,
  Weekend,        \* the days that are a Saturday or a Sunday
  Prompt, Polls,
  MaxClock, MaxManual, MaxKills, MaxFailures  \* bounds of the model

JobType == [key : Keys, at : 0 .. MinutesPerDay - 1, weekdays_only : BOOLEAN]

\* register refuses a second job with the same key.
ASSUME SchedulerConstants ==
  /\ MinutesPerDay \in Nat \ {0} /\ Polls \in Nat \ {0}
  /\ MaxClock \in Nat /\ MaxManual \in Nat /\ MaxKills \in Nat /\ MaxFailures \in Nat
  /\ Table \in Seq(JobType) /\ Table # <<>>
  /\ \A m, n \in DOMAIN Table : Table[m].key = Table[n].key => m = n
  /\ Weekend \subseteq Nat /\ Prompt \in BOOLEAN
  /\ Loops \cap Operators = {}

VARIABLES
  clock,
  fired,     \* the persisted map: the day each key last fired, or Never
  loop,      \* each loop: where it is, and the moment and place of its tick
  stopped,   \* the event that stop() sets
  operator,  \* each operator: where it is in run_once
  runs,      \* every run of a job that began, in order
  kills, failures  \* how many there were, for the bounds

vars == <<clock, fired, loop, stopped, operator, runs, kills, failures>>

Never == -1
Day(t) == t \div MinutesPerDay
Minute(t) == t % MinutesPerDay

\* polled and attended serve the clock: polls since the minute began, and whether the
\* loop has been serving since then.
LoopType == [pc : {"down", "up", "poll", "tick", "due", "marked", "waiting",
                   "draining", "exited"},
             moment : Nat, place : Nat, polled : Nat, attended : BOOLEAN]
Serving(p) == loop[p].pc \in {"poll", "tick", "due", "marked", "waiting"}
Job(p) == Table[loop[p].place]

\* A run is "recorded" when its outcome is in the ops stream, and "lost" when its
\* process ended or its record could not be written.
RunType == [key : Keys, day : Nat, by : Loops \cup Operators,
            state : {"running", "recorded", "lost"}]

Run(k, d, p) == [key |-> k, day |-> d, by |-> p, state |-> "running"]

(***************************************************************************)
(* The loop.                                                               *)
(***************************************************************************)
At(p, pc) == loop' = [loop EXCEPT ![p].pc = pc]

Start(p) ==
  /\ loop[p].pc \in {"down", "exited"}
  /\ At(p, "up")
  /\ stopped' = [stopped EXCEPT ![p] = FALSE]
  /\ UNCHANGED <<clock, fired, operator, runs, kills, failures>>

\* serve begins by clearing the event.
Serve(p) ==
  /\ loop[p].pc = "up"
  /\ At(p, "poll")
  /\ stopped' = [stopped EXCEPT ![p] = FALSE]
  /\ UNCHANGED <<clock, fired, operator, runs, kills, failures>>

\* A signal arrives, at any time after the handlers are installed.
Stop(p) ==
  /\ loop[p].pc = "up" \/ Serving(p)
  /\ ~stopped[p]
  /\ stopped' = [stopped EXCEPT ![p] = TRUE]
  /\ loop' = [loop EXCEPT ![p].attended = FALSE]
  /\ UNCHANGED <<clock, fired, operator, runs, kills, failures>>

Poll_Unconditional(p) ==
  /\ loop[p].pc = "poll"
  /\ loop' = [loop EXCEPT ![p].pc = "tick", ![p].moment = clock, ![p].place = 1]
  /\ UNCHANGED <<clock, fired, stopped, operator, runs, kills, failures>>

\* The test of the while loop, and the beginning of tick.
Poll(p) ==
  /\ loop[p].pc = "poll"
  /\ IF stopped[p]
     THEN At(p, "draining")
     ELSE loop' = [loop EXCEPT ![p].pc = "tick", ![p].moment = clock, ![p].place = 1]
  /\ UNCHANGED <<clock, fired, stopped, operator, runs, kills, failures>>

IsDue(job, t) ==
  /\ job.weekdays_only => Day(t) \notin Weekend
  /\ Minute(t) = job.at
  /\ fired[job.key] # Day(t)

\* is_due of the next job of the table.
Scan(p) ==
  /\ loop[p].pc = "tick" /\ loop[p].place <= Len(Table)
  /\ loop' = IF IsDue(Job(p), loop[p].moment)
             THEN [loop EXCEPT ![p].pc = "due"]
             ELSE [loop EXCEPT ![p].place = @ + 1]
  /\ UNCHANGED <<clock, fired, stopped, operator, runs, kills, failures>>

MarkFired_Overwriting(k, d) == fired' = [key \in Keys |-> IF key = k THEN d ELSE Never]

MarkFired(k, d) == fired' = [fired EXCEPT ![k] = d]

Mark(p) ==
  /\ loop[p].pc = "due"
  /\ MarkFired(Job(p).key, Day(loop[p].moment))
  /\ At(p, "marked")
  /\ UNCHANGED <<clock, stopped, operator, runs, kills, failures>>

Spawn(p) ==
  /\ loop[p].pc = "marked"
  /\ runs' = Append(runs, Run(Job(p).key, Day(loop[p].moment), p))
  /\ loop' = [loop EXCEPT ![p].pc = "tick", ![p].place = @ + 1]
  /\ UNCHANGED <<clock, fired, stopped, operator, kills, failures>>

Rested(p) ==
  [loop EXCEPT ![p] = [pc |-> "waiting", moment |-> 0, place |-> 0,
                       polled |-> IF @.polled < Polls THEN @.polled + 1 ELSE @.polled,
                       attended |-> @.attended]]

EndTick(p) ==
  /\ loop[p].pc = "tick" /\ loop[p].place > Len(Table)
  /\ loop' = Rested(p)
  /\ UNCHANGED <<clock, fired, stopped, operator, runs, kills, failures>>

FailTick_EndsLoop(p) ==
  /\ loop[p].pc \in {"tick", "due", "marked"} /\ failures < MaxFailures
  /\ failures' = failures + 1
  /\ At(p, "exited")
  /\ UNCHANGED <<clock, fired, stopped, operator, runs, kills>>

\* Reading the map, marking it or starting the thread raises: the rest of the table
\* waits for the next tick.
FailTick(p) ==
  /\ loop[p].pc \in {"tick", "due", "marked"} /\ failures < MaxFailures
  /\ failures' = failures + 1
  /\ loop' = Rested(p)
  /\ UNCHANGED <<clock, fired, stopped, operator, runs, kills>>

\* poll_seconds passed or the event was set.
Wake(p) ==
  /\ loop[p].pc = "waiting"
  /\ At(p, "poll")
  /\ UNCHANGED <<clock, fired, stopped, operator, runs, kills, failures>>

\* The runs of a process that is gone: their threads are daemons.
Abandoned(p) ==
  [n \in DOMAIN runs |->
     IF runs[n].by = p /\ runs[n].state = "running"
     THEN [runs[n] EXCEPT !.state = "lost"] ELSE runs[n]]

Down == [pc |-> "down", moment |-> 0, place |-> 0, polled |-> 0, attended |-> FALSE]

\* drain returns when the jobs are done or its budget is spent, and the process ends.
Drain(p) ==
  /\ loop[p].pc = "draining"
  /\ loop' = [loop EXCEPT ![p] = [Down EXCEPT !.pc = "exited"]]
  /\ runs' = Abandoned(p)
  /\ UNCHANGED <<clock, fired, stopped, operator, kills, failures>>

Kill_ForgetsMap(p) ==
  /\ loop[p].pc \notin {"down", "exited"} /\ kills < MaxKills
  /\ kills' = kills + 1
  /\ loop' = [loop EXCEPT ![p] = Down]
  /\ runs' = Abandoned(p)
  /\ fired' = [k \in Keys |-> Never]
  /\ UNCHANGED <<clock, stopped, operator, failures>>

Kill(p) ==
  /\ loop[p].pc \notin {"down", "exited"} /\ kills < MaxKills
  /\ kills' = kills + 1
  /\ loop' = [loop EXCEPT ![p] = Down]
  /\ runs' = Abandoned(p)
  /\ UNCHANGED <<clock, fired, stopped, operator, failures>>

(***************************************************************************)
(* run_once from a shell, the end of a run, and the clock.                 *)
(***************************************************************************)
Idle == [pc |-> "idle", key |-> Table[1].key, day |-> 0]

RunOnce(o, k, mark) ==
  /\ operator[o].pc = "idle"
  /\ Cardinality({n \in DOMAIN runs : runs[n].by \in Operators}) < MaxManual
  /\ operator' = [operator EXCEPT ![o] = [pc |-> IF mark THEN "marking" ELSE "marked",
                                          key |-> k, day |-> Day(clock)]]
  /\ UNCHANGED <<clock, fired, loop, stopped, runs, kills, failures>>

MarkManual(o) ==
  /\ operator[o].pc = "marking"
  /\ MarkFired(operator[o].key, operator[o].day)
  /\ operator' = [operator EXCEPT ![o].pc = "marked"]
  /\ UNCHANGED <<clock, loop, stopped, runs, kills, failures>>

Execute(o) ==
  /\ operator[o].pc = "marked"
  /\ runs' = Append(runs, Run(operator[o].key, operator[o].day, o))
  /\ operator' = [operator EXCEPT ![o] = Idle]
  /\ UNCHANGED <<clock, fired, loop, stopped, kills, failures>>

\* The mark raises or the shell is closed.
GiveUp(o) ==
  /\ operator[o].pc # "idle"
  /\ operator' = [operator EXCEPT ![o] = Idle]
  /\ UNCHANGED <<clock, fired, loop, stopped, runs, kills, failures>>

\* A job ends and its outcome is recorded, or cannot be.
EndRun(n, state) ==
  /\ runs[n].state = "running"
  /\ runs' = [runs EXCEPT ![n].state = state]
  /\ UNCHANGED <<clock, fired, loop, stopped, operator, kills, failures>>

KeptPace ==
  /\ \A p \in Loops :
       \/ loop[p].pc \in {"down", "up", "draining", "exited"}
       \/ loop[p].pc = "waiting" /\ (loop[p].attended => loop[p].polled >= Polls)
  /\ \A o \in Operators : operator[o].pc # "marking"

MinutePasses ==
  /\ clock < MaxClock
  /\ Prompt => KeptPace
  /\ clock' = clock + 1
  /\ loop' = [p \in Loops |-> [loop[p] EXCEPT !.polled = 0,
                                              !.attended = Serving(p) /\ ~stopped[p]]]
  /\ UNCHANGED <<fired, stopped, operator, runs, kills, failures>>

Init ==
  /\ clock = 0
  /\ fired = [k \in Keys |-> Never]
  /\ loop = [p \in Loops |-> Down]
  /\ stopped = [p \in Loops |-> FALSE]
  /\ operator = [o \in Operators |-> Idle]
  /\ runs = <<>>
  /\ kills = 0 /\ failures = 0

LoopStep(p) ==
  \/ Serve(p) \/ Poll(p) \/ Scan(p) \/ Mark(p) \/ Spawn(p) \/ EndTick(p)
  \/ Wake(p) \/ Drain(p)

OperatorStep(o) ==
  \/ \E n \in DOMAIN Table, mark \in BOOLEAN : RunOnce(o, Table[n].key, mark)
  \/ MarkManual(o) \/ Execute(o) \/ GiveUp(o)

Next ==
  \/ \E p \in Loops : LoopStep(p)
  \/ \E p \in Loops : Start(p) \/ Stop(p) \/ FailTick(p) \/ Kill(p)
  \/ \E o \in Operators : OperatorStep(o)
  \/ \E n \in DOMAIN runs, state \in {"recorded", "lost"} : EndRun(n, state)
  \/ MinutePasses

Spec == Init /\ [][Next]_vars

\* A running process is scheduled, and its sleeps and its drain end after poll_seconds
\* and shutdown_timeout_seconds.  Nothing else is fair: jobs may hang, operators may
\* do nothing and no process has to be started.
FairSpec == Spec /\ \A p \in Loops : WF_vars(LoopStep(p))

(***************************************************************************)
(* Properties.                                                             *)
(***************************************************************************)
\* The state of the scheduler is of the expected shape.
TypeOK ==
  /\ clock \in Nat
  /\ fired \in [Keys -> Nat \cup {Never}]
  /\ loop \in [Loops -> LoopType]
  /\ stopped \in [Loops -> BOOLEAN]
  /\ operator \in [Operators -> [pc : {"idle", "marking", "marked"}, key : Keys, day : Nat]]
  /\ runs \in Seq(RunType)
  /\ kills \in Nat /\ failures \in Nat

\* At most once: the loop runs a job once a day at most, however often it is killed and
\* started again in the minute of the job, and whatever operators run (tick, run_once).
\* Holds with one loop.  "Firing is thread-safe and cross-process safe, because the
\* fired map is mutated under the store's advisory lock" (scheduler.py:86) says that it
\* holds with several, and it does not: is_due reads the map outside the lock, so two
\* loops that both find the job due both mark it and both run it.
FiresOncePerDay ==
  \A m, n \in DOMAIN runs :
    /\ runs[m].by \in Loops /\ runs[n].by \in Loops
    /\ runs[m].key = runs[n].key /\ runs[m].day = runs[n].day
    => m = n

\* The mark of a run outlives everything that happens to the run: for every run the loop
\* began, the map says that day or a later one, so no restart can begin it again.
RunsAreMarked == \A n \in DOMAIN runs : runs[n].by \in Loops => fired[runs[n].key] >= runs[n].day

\* A loop that serves through the whole minute of a job has fired it when the minute is
\* over, though one tick of that minute failed before it reached the job (serve, tick).
AttendedMinuteFires ==
  [][clock' # clock =>
       \A p \in Loops, n \in DOMAIN Table :
         /\ loop[p].attended
         /\ Minute(clock) = Table[n].at
         /\ Table[n].weekdays_only => Day(clock) \notin Weekend
         => fired[Table[n].key] = Day(clock)]_vars

\* A loop that is asked to stop while it serves ends, though jobs hang (stop, drain).
\* "Ask the loop to finish. Safe to call from a signal handler." (scheduler.py:347) does
\* not say "while it serves", but a stop that comes before is erased by serve.
StopEndsLoop ==
  \A p \in Loops : stopped[p] /\ Serving(p) ~> loop[p].pc \in {"exited", "down"}

==============================================================================
