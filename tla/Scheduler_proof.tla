--------------------------- MODULE Scheduler_proof ---------------------------
(***************************************************************************)
(* Proofs about Scheduler: at most once a day, for one loop that keeps     *)
(* pace, any table of jobs, any operators, and any number of kills; and at *)
(* least once in a minute that is attended, for any number of such loops.  *)
(***************************************************************************)
EXTENDS Scheduler, TLAPS

\* A tick or a mark in progress is of today, and no mark is in the future.
WorkIsOfToday ==
  /\ \A p \in Loops :
       /\ loop[p].pc \in {"tick", "due", "marked"} => Day(loop[p].moment) = Day(clock)
       /\ loop[p].pc \in {"tick", "due", "marked"} => loop[p].place \in Nat \ {0}
       /\ loop[p].pc \in {"due", "marked"} => loop[p].place \in 1 .. Len(Table)
  /\ \A o \in Operators : operator[o].pc = "marking" => operator[o].day = Day(clock)
  /\ \A k \in Keys : fired[k] <= Day(clock)

\* A job that was found due today has not been run by the loop today.
DueIsUnfired ==
  \A p \in Loops :
    /\ loop[p].pc \in {"due", "marked"} =>
         \A n \in DOMAIN runs :
           runs[n].by \in Loops /\ runs[n].key = Job(p).key => runs[n].day # Day(clock)
    /\ loop[p].pc = "marked" => fired[Job(p).key] = Day(clock)

IInv == TypeOK /\ WorkIsOfToday /\ DueIsUnfired /\ RunsAreMarked /\ FiresOncePerDay

\* An entry of the table is a job.
LEMMA TableTyped == ASSUME NEW n \in DOMAIN Table PROVE Table[n] \in JobType
BY SchedulerConstants

\* A run has a day and the key of a job.
LEMMA RunTyped ==
  ASSUME TypeOK, NEW n \in DOMAIN runs
  PROVE  runs[n].day \in Nat /\ runs[n].key \in Keys
<1>1. runs[n] \in RunType
  BY DEF TypeOK
<1>. QED BY <1>1 DEF RunType

\* day_key of a moment is a day.
LEMMA DayTyped == ASSUME NEW t \in Nat PROVE Day(t) \in Nat
BY SchedulerConstants DEF Day

\* A mark on the map is a number.
LEMMA MarksTyped == ASSUME TypeOK, NEW k \in Keys PROVE fired[k] \in Int
BY DEF TypeOK, Never

\* Days do not go back as minutes pass.
LEMMA DayAdvances == ASSUME NEW t \in Nat PROVE Day(t) <= Day(t + 1)
<1> DEFINE M == MinutesPerDay
<1>1. M \in Nat /\ M > 0
  BY SchedulerConstants
<1> HIDE DEF M
<1>2. t \div M \in Nat /\ (t + 1) \div M \in Nat
  BY <1>1
<1>3. t \div M <= (t + 1) \div M
  BY <1>1, <1>2
<1>. QED BY <1>3 DEF Day, M

\* With no process started and nothing fired, the invariant holds.
THEOREM InitInvariant == ASSUME Init PROVE IInv
<1>1. Table[1] \in JobType
  BY SchedulerConstants, TableTyped
<1>2. TypeOK
  BY <1>1 DEF Init, TypeOK, LoopType, Down, Idle, Never, JobType
<1>3. WorkIsOfToday /\ DueIsUnfired
  BY DayTyped DEF Init, WorkIsOfToday, DueIsUnfired, Down, Idle, Never
<1>4. RunsAreMarked /\ FiresOncePerDay
  BY DEF Init, RunsAreMarked, FiresOncePerDay
<1>. QED BY <1>2, <1>3, <1>4 DEF IInv

(***************************************************************************)
(* Steps that move one loop and leave the map, the runs and time alone.    *)
(***************************************************************************)
\* Such a step preserves the invariant if it keeps what the loop knows of its tick.
LEMMA LoopMoves ==
  ASSUME IInv, NEW p \in Loops,
         UNCHANGED <<clock, fired, operator, runs>>,
         stopped' \in [Loops -> BOOLEAN], kills' \in Nat, failures' \in Nat,
         NEW l \in LoopType, loop' = [loop EXCEPT ![p] = l],
         \/ l.pc \notin {"tick", "due", "marked"}
         \/ /\ l.pc \in {"tick", "due"}
            /\ Day(l.moment) = Day(clock) /\ l.place \in Nat \ {0}
            /\ l.pc = "due" => /\ l.place \in 1 .. Len(Table)
                               /\ \A n \in DOMAIN runs :
                                    runs[n].by \in Loops /\ runs[n].key = Table[l.place].key
                                      => runs[n].day # Day(clock)
         \/ l.pc = loop[p].pc /\ l.moment = loop[p].moment /\ l.place = loop[p].place
  PROVE  IInv'
<1>1. TypeOK'
  BY DEF IInv, TypeOK
<1>2. \A q \in Loops : loop'[q] = IF q = p THEN l ELSE loop[q]
  BY DEF IInv, TypeOK
<1>3. WorkIsOfToday'
  BY <1>2 DEF IInv, WorkIsOfToday, Day
<1>4. DueIsUnfired'
  BY <1>2 DEF IInv, DueIsUnfired, Day, Job
<1>5. RunsAreMarked' /\ FiresOncePerDay'
  BY DEF IInv, RunsAreMarked, FiresOncePerDay
<1>. QED BY <1>1, <1>3, <1>4, <1>5 DEF IInv

\* What a loop does apart from looking at jobs keeps the invariant.
LEMMA ControlInvariant ==
  ASSUME IInv, NEW p \in Loops,
         Start(p) \/ Serve(p) \/ Stop(p) \/ Poll(p) \/ EndTick(p) \/ FailTick(p) \/ Wake(p)
  PROVE  IInv'
<1> USE DEF At
<1>0. loop \in [Loops -> LoopType] /\ stopped \in [Loops -> BOOLEAN]
      /\ kills \in Nat /\ failures \in Nat /\ clock \in Nat
  BY DEF IInv, TypeOK
<1>1. CASE Start(p) \/ Serve(p) \/ Wake(p)
  <2> DEFINE l == [loop[p] EXCEPT !.pc = loop'[p].pc]
  <2>1. l \in LoopType /\ loop' = [loop EXCEPT ![p] = l]
    BY <1>0, <1>1 DEF Start, Serve, Wake, LoopType
  <2>2. l.pc \notin {"tick", "due", "marked"}
    BY <1>0, <1>1 DEF Start, Serve, Wake, LoopType
  <2>3. /\ UNCHANGED <<clock, fired, operator, runs>>
        /\ stopped' \in [Loops -> BOOLEAN] /\ kills' \in Nat /\ failures' \in Nat
    BY <1>0, <1>1 DEF Start, Serve, Wake
  <2> HIDE DEF l
  <2>. QED BY <2>1, <2>2, <2>3, LoopMoves
<1>2. CASE Stop(p)
  <2> DEFINE l == [loop[p] EXCEPT !.attended = FALSE]
  <2>1. l \in LoopType /\ loop' = [loop EXCEPT ![p] = l]
    BY <1>0, <1>2 DEF Stop, LoopType
  <2>2. l.pc = loop[p].pc /\ l.moment = loop[p].moment /\ l.place = loop[p].place
    BY <1>0 DEF LoopType
  <2>3. /\ UNCHANGED <<clock, fired, operator, runs>>
        /\ stopped' \in [Loops -> BOOLEAN] /\ kills' \in Nat /\ failures' \in Nat
    BY <1>0, <1>2 DEF Stop
  <2> HIDE DEF l
  <2>. QED BY <2>1, <2>2, <2>3, LoopMoves
<1>3. CASE Poll(p)
  <2>1. CASE stopped[p]
    <3> DEFINE l == [loop[p] EXCEPT !.pc = "draining"]
    <3>1. l \in LoopType /\ loop' = [loop EXCEPT ![p] = l] /\ l.pc = "draining"
      BY <1>0, <1>3, <2>1 DEF Poll, LoopType
    <3>2. /\ UNCHANGED <<clock, fired, operator, runs>>
          /\ stopped' \in [Loops -> BOOLEAN] /\ kills' \in Nat /\ failures' \in Nat
      BY <1>0, <1>3 DEF Poll
    <3> HIDE DEF l
    <3>. QED BY <3>1, <3>2, LoopMoves
  <2>2. CASE ~stopped[p]
    <3> DEFINE l == [[[loop[p] EXCEPT !.pc = "tick"] EXCEPT !.moment = clock] EXCEPT !.place = 1]
    <3>1. l \in LoopType /\ loop' = [loop EXCEPT ![p] = l]
      <4>1. loop[p] \in LoopType
        BY <1>0
      <4>2. l \in LoopType
        BY ONLY <1>0, <4>1 DEF LoopType
      <4>3. loop' = [loop EXCEPT ![p] = l]
        BY <1>3, <2>2 DEF Poll
      <4>. QED BY <4>2, <4>3
    <3>2. l.pc = "tick" /\ Day(l.moment) = Day(clock) /\ l.place \in Nat \ {0}
      BY <1>0 DEF LoopType
    <3>3. /\ UNCHANGED <<clock, fired, operator, runs>>
          /\ stopped' \in [Loops -> BOOLEAN] /\ kills' \in Nat /\ failures' \in Nat
      BY <1>0, <1>3 DEF Poll
    <3> HIDE DEF l
    <3>. QED BY <3>1, <3>2, <3>3, LoopMoves
  <2>. QED BY <2>1, <2>2
<1>4. CASE EndTick(p) \/ FailTick(p)
  <2> DEFINE polled == loop[p].polled
             l == [pc |-> "waiting", moment |-> 0, place |-> 0,
                   polled |-> IF polled < Polls THEN polled + 1 ELSE polled,
                   attended |-> loop[p].attended]
  <2>1. l \in LoopType /\ l.pc = "waiting"
    BY <1>0, SchedulerConstants DEF LoopType
  <2>3. loop' = [loop EXCEPT ![p] = l]
    BY <1>0, <1>4 DEF EndTick, FailTick, Rested
  <2>2. /\ UNCHANGED <<clock, fired, operator, runs>>
        /\ stopped' \in [Loops -> BOOLEAN] /\ kills' \in Nat /\ failures' \in Nat
    BY <1>0, <1>4 DEF EndTick, FailTick
  <2> HIDE DEF l
  <2>. QED BY <2>1, <2>2, <2>3, LoopMoves
<1>. QED BY <1>1, <1>2, <1>3, <1>4

\* A job whose mark is not of today has no run of today: its runs are marked.
LEMMA ScanInvariant ==
  ASSUME IInv, NEW p \in Loops, Scan(p)
  PROVE  IInv'
<1>0. /\ loop \in [Loops -> LoopType] /\ stopped \in [Loops -> BOOLEAN]
      /\ kills \in Nat /\ failures \in Nat
      /\ loop[p].place \in 1 .. Len(Table)
      /\ Day(loop[p].moment) = Day(clock)
      /\ clock \in Nat
  BY DEF IInv, TypeOK, Scan, WorkIsOfToday
<1>1. /\ UNCHANGED <<clock, fired, operator, runs>>
      /\ stopped' \in [Loops -> BOOLEAN] /\ kills' \in Nat /\ failures' \in Nat
  BY <1>0 DEF Scan
<1>2. CASE IsDue(Job(p), loop[p].moment)
  <2> DEFINE l == [loop[p] EXCEPT !.pc = "due"]
  <2>1. l \in LoopType /\ loop' = [loop EXCEPT ![p] = l]
    BY <1>0, <1>2 DEF Scan, LoopType
  <2>2. l.pc = "due" /\ l.moment = loop[p].moment /\ l.place = loop[p].place
    BY <1>0 DEF LoopType
  <2>3. Job(p) \in JobType
    BY <1>0, TableTyped DEF Job
  <2>4. fired[Job(p).key] < Day(clock)
    <3>1. Job(p).key \in Keys /\ fired[Job(p).key] # Day(clock)
      BY <1>0, <1>2, <2>3 DEF IsDue, JobType
    <3>2. fired[Job(p).key] <= Day(clock) /\ fired[Job(p).key] \in Int /\ Day(clock) \in Int
      <4>1. TypeOK /\ \A k \in Keys : fired[k] <= Day(clock)
        BY DEF IInv, WorkIsOfToday
      <4>2. clock \in Nat /\ Job(p).key \in Keys
        BY <1>0, <3>1
      <4>3. Day(clock) \in Int
        BY <4>2, DayTyped
      <4>. QED BY ONLY <4>1, <4>2, <4>3, MarksTyped
    <3>. QED BY <3>1, <3>2
  <2>5. ASSUME NEW n \in DOMAIN runs, runs[n].by \in Loops, runs[n].key = Job(p).key
        PROVE  runs[n].day # Day(clock)
    <3>1. fired[Job(p).key] >= runs[n].day
      BY <2>5 DEF IInv, RunsAreMarked
    <3>2. runs[n].day \in Nat
      BY <2>5, RunTyped DEF IInv
    <3>3. Job(p).key \in Keys
      BY <2>3 DEF JobType
    <3>4. fired[Job(p).key] \in Int /\ Day(clock) \in Nat
      BY <3>3, <1>0, DayTyped, MarksTyped DEF IInv
    <3>. QED BY <2>4, <3>1, <3>2, <3>4
  <2>6. \A n \in DOMAIN runs : runs[n].by \in Loops /\ runs[n].key = Table[l.place].key
                                 => runs[n].day # Day(clock)
    BY <2>2, <2>5 DEF Job
  <2>7. l.pc \in {"tick", "due"} /\ Day(l.moment) = Day(clock) /\ l.place \in Nat \ {0}
        /\ l.place \in 1 .. Len(Table)
    BY <1>0, <2>2
  <2> HIDE DEF l
  <2>. QED BY <1>1, <2>1, <2>6, <2>7, LoopMoves
<1>3. CASE ~IsDue(Job(p), loop[p].moment)
  <2> DEFINE l == [loop[p] EXCEPT !.place = @ + 1]
  <2>0. loop[p] \in LoopType /\ loop[p].place + 1 \in Nat
    <3>1. loop[p] \in LoopType
      BY <1>0
    <3>. QED BY <3>1 DEF LoopType
  <2>1. l \in LoopType
    BY <2>0 DEF LoopType
  <2>2. loop' = [loop EXCEPT ![p] = l]
    BY <1>0, <1>3 DEF Scan
  <2>3. l.pc = "tick" /\ l.moment = loop[p].moment /\ l.place = loop[p].place + 1
    BY <1>0 DEF LoopType, Scan
  <2>4. Day(l.moment) = Day(clock) /\ l.place \in Nat \ {0}
    BY <1>0, <2>3
  <2> HIDE DEF l
  <2>. QED BY <1>1, <2>1, <2>2, <2>3, <2>4, LoopMoves
<1>. QED BY <1>2, <1>3

(***************************************************************************)
(* Marks and runs.                                                         *)
(***************************************************************************)
\* A mark of today on the map is at least every mark it replaces.
LEMMA MarkKeepsRunsMarked ==
  ASSUME IInv, NEW k \in Keys, MarkFired(k, Day(clock)), UNCHANGED <<clock, runs>>
  PROVE  /\ fired' \in [Keys -> Nat \cup {Never}]
         /\ \A key \in Keys : fired'[key] <= Day(clock) /\ fired[key] <= fired'[key]
         /\ fired'[k] = Day(clock)
         /\ RunsAreMarked'
<1>1. fired \in [Keys -> Nat \cup {Never}] /\ Day(clock) \in Nat
  BY DayTyped DEF IInv, TypeOK
<1>2. fired' \in [Keys -> Nat \cup {Never}] /\ fired'[k] = Day(clock)
  BY <1>1 DEF MarkFired
<1>3. \A key \in Keys : fired'[key] <= Day(clock) /\ fired[key] <= fired'[key]
  BY <1>1 DEF MarkFired, IInv, WorkIsOfToday, Never
<1>4. ASSUME NEW n \in DOMAIN runs, runs[n].by \in Loops
      PROVE  fired'[runs[n].key] >= runs[n].day
  <2>1. runs[n].key \in Keys /\ runs[n].day \in Nat
    BY RunTyped DEF IInv
  <2>2. fired[runs[n].key] >= runs[n].day
    BY <1>4 DEF IInv, RunsAreMarked
  <2>. QED BY <1>1, <1>2, <1>3, <2>1, <2>2 DEF Never
<1>5. RunsAreMarked'
  BY <1>4 DEF RunsAreMarked
<1>. QED BY <1>2, <1>3, <1>5

\* The mark of the one loop keeps it: nothing of that key and day has run yet.
LEMMA MarkInvariant ==
  ASSUME IInv, NEW p \in Loops, Mark(p), \A q \in Loops : q = p
  PROVE  IInv'
<1>1. /\ loop[p].pc = "due" /\ loop[p].place \in 1 .. Len(Table)
      /\ Day(loop[p].moment) = Day(clock)
      /\ MarkFired(Job(p).key, Day(clock))
      /\ UNCHANGED <<clock, runs, operator>>
  BY DEF Mark, IInv, WorkIsOfToday
<1>2. Job(p).key \in Keys
  <2>1. Job(p) \in JobType
    BY <1>1, TableTyped DEF Job
  <2>. QED BY <2>1 DEF JobType
<1>3. /\ fired' \in [Keys -> Nat \cup {Never}]
      /\ \A key \in Keys : fired'[key] <= Day(clock)
      /\ fired'[Job(p).key] = Day(clock)
      /\ RunsAreMarked'
  BY <1>1, <1>2, MarkKeepsRunsMarked
<1>4. /\ loop' \in [Loops -> LoopType]
      /\ loop'[p].pc = "marked" /\ loop'[p].moment = loop[p].moment
      /\ loop'[p].place = loop[p].place
  BY DEF Mark, At, IInv, TypeOK, LoopType
<1>5. TypeOK'
  BY <1>3, <1>4 DEF Mark, IInv, TypeOK
<1>6. WorkIsOfToday'
  BY <1>1, <1>3, <1>4 DEF IInv, WorkIsOfToday, Day
<1>7. DueIsUnfired'
  BY <1>1, <1>3, <1>4 DEF IInv, DueIsUnfired, Day, Job
<1>8. FiresOncePerDay'
  BY <1>1 DEF IInv, FiresOncePerDay
<1>. QED BY <1>3, <1>5, <1>6, <1>7, <1>8 DEF IInv

\* The run that follows a mark keeps it: it is the first of its key and day.
LEMMA SpawnInvariant ==
  ASSUME IInv, NEW p \in Loops, Spawn(p), \A q \in Loops : q = p
  PROVE  IInv'
<1> DEFINE k == Job(p).key
           r == Run(k, Day(clock), p)
<1>1. /\ loop[p].pc = "marked" /\ loop[p].place \in 1 .. Len(Table)
      /\ Day(loop[p].moment) = Day(clock)
      /\ runs' = Append(runs, r)
      /\ UNCHANGED <<clock, fired, operator, stopped, kills, failures>>
  BY DEF Spawn, IInv, WorkIsOfToday
<1>2. k \in Keys
  <2>1. Job(p) \in JobType
    BY <1>1, TableTyped DEF Job
  <2>. QED BY <2>1 DEF JobType
<1>3. r \in RunType /\ r.key = k /\ r.day = Day(clock) /\ r.by = p
  BY <1>2, DayTyped DEF Run, RunType, IInv, TypeOK
<1> HIDE DEF r
<1>4. runs \in Seq(RunType)
  BY DEF IInv, TypeOK
<1>5. /\ runs' \in Seq(RunType)
      /\ DOMAIN runs' = DOMAIN runs \cup {Len(runs) + 1}
      /\ \A n \in DOMAIN runs : runs'[n] = runs[n] /\ n # Len(runs) + 1
      /\ runs'[Len(runs) + 1] = r
  BY <1>1, <1>3, <1>4
<1>6. fired[k] = Day(clock)
  BY <1>1 DEF IInv, DueIsUnfired
<1>7. \A n \in DOMAIN runs : runs[n].by \in Loops /\ runs[n].key = k => runs[n].day # Day(clock)
  BY <1>1 DEF IInv, DueIsUnfired
<1>8. /\ loop' \in [Loops -> LoopType]
      /\ loop'[p].pc = "tick" /\ loop'[p].moment = loop[p].moment
      /\ loop'[p].place = loop[p].place + 1
  <2>1. loop[p].place + 1 \in Nat
    BY <1>1
  <2>2. loop \in [Loops -> LoopType]
    BY DEF IInv, TypeOK
  <2>. QED BY <2>1, <2>2 DEF Spawn, LoopType
<1>9. TypeOK'
  BY <1>1, <1>5, <1>8 DEF IInv, TypeOK
<1>10. WorkIsOfToday'
  BY <1>1, <1>8 DEF IInv, WorkIsOfToday, Day
<1>11. DueIsUnfired'
  BY <1>8 DEF DueIsUnfired
<1>12. RunsAreMarked'
  <2>1. fired[k] >= Day(clock)
    BY <1>6, DayTyped DEF IInv, TypeOK
  <2>. QED BY <1>1, <1>3, <1>5, <2>1 DEF IInv, RunsAreMarked
<1>13. FiresOncePerDay'
  BY <1>3, <1>5, <1>7 DEF IInv, FiresOncePerDay
<1>. QED BY <1>9, <1>10, <1>11, <1>12, <1>13 DEF IInv

\* Steps that change only how runs ended, and the loop they belonged to if it is gone.
LEMMA RunsEnd ==
  ASSUME IInv, runs' \in Seq(RunType), DOMAIN runs' = DOMAIN runs,
         \A n \in DOMAIN runs : /\ runs'[n].key = runs[n].key
                                /\ runs'[n].day = runs[n].day
                                /\ runs'[n].by = runs[n].by,
         UNCHANGED <<clock, fired, operator, stopped, failures>>, kills' \in Nat,
         loop' \in [Loops -> LoopType],
         \A p \in Loops : loop'[p] = loop[p] \/ loop'[p].pc \in {"down", "exited"}
  PROVE  IInv'
<1>1. TypeOK'
  BY DEF IInv, TypeOK
<1>2. WorkIsOfToday'
  BY DEF IInv, WorkIsOfToday, Day
<1>3. DueIsUnfired'
  BY DEF IInv, DueIsUnfired, Day, Job
<1>4. RunsAreMarked' /\ FiresOncePerDay'
  BY DEF IInv, RunsAreMarked, FiresOncePerDay
<1>. QED BY <1>1, <1>2, <1>3, <1>4 DEF IInv

\* A process that is killed or leaves after drain keeps it.
LEMMA DepartInvariant ==
  ASSUME IInv, NEW p \in Loops, Drain(p) \/ Kill(p)
  PROVE  IInv'
<1>1. runs \in Seq(RunType) /\ loop \in [Loops -> LoopType] /\ kills \in Nat
  BY DEF IInv, TypeOK
<1>2. runs' = Abandoned(p)
  BY DEF Drain, Kill
<1>3. DOMAIN runs' = DOMAIN runs
  BY <1>2 DEF Abandoned
<1>4. ASSUME NEW n \in DOMAIN runs
      PROVE  /\ runs'[n] \in RunType
             /\ runs'[n].key = runs[n].key /\ runs'[n].day = runs[n].day
             /\ runs'[n].by = runs[n].by
  <2>1. runs[n] \in RunType
    BY <1>1
  <2>2. runs'[n] = runs[n] \/ runs'[n] = [runs[n] EXCEPT !.state = "lost"]
    BY <1>2 DEF Abandoned
  <2>. QED BY <2>1, <2>2 DEF RunType
<1>5. runs' \in Seq(RunType)
  BY <1>1, <1>2, <1>4 DEF Abandoned
<1>6. /\ loop' \in [Loops -> LoopType]
      /\ \A q \in Loops : loop'[q] = loop[q] \/ loop'[q].pc \in {"down", "exited"}
  <2>1. Down \in LoopType /\ [Down EXCEPT !.pc = "exited"] \in LoopType
    BY DEF Down, LoopType
  <2>2. Down.pc = "down" /\ [Down EXCEPT !.pc = "exited"].pc = "exited"
    BY DEF Down
  <2>. QED BY <1>1, <2>1, <2>2 DEF Drain, Kill
<1>7. kills' \in Nat /\ UNCHANGED <<clock, fired, operator, stopped, failures>>
  BY <1>1 DEF Drain, Kill
<1>. QED BY <1>3, <1>4, <1>5, <1>6, <1>7, RunsEnd

\* A run that ends, recorded or lost, keeps it.
LEMMA EndRunInvariant ==
  ASSUME IInv, NEW n \in DOMAIN runs, NEW state \in {"recorded", "lost"}, EndRun(n, state)
  PROVE  IInv'
<1>1. runs \in Seq(RunType) /\ runs[n] \in RunType /\ clock \in Nat
  BY DEF IInv, TypeOK
<1> DEFINE r == [runs[n] EXCEPT !.state = state]
<1>2. /\ r \in RunType
      /\ r.key = runs[n].key /\ r.day = runs[n].day /\ r.by = runs[n].by
  BY <1>1 DEF RunType
<1>3. runs' = [runs EXCEPT ![n] = r]
  BY <1>1 DEF EndRun
<1> HIDE DEF r
<1>4. /\ runs' \in Seq(RunType) /\ DOMAIN runs' = DOMAIN runs
      /\ \A m \in DOMAIN runs : runs'[m] = IF m = n THEN r ELSE runs[m]
  BY <1>1, <1>2, <1>3
<1>5. \A m \in DOMAIN runs : /\ runs'[m].key = runs[m].key
                             /\ runs'[m].day = runs[m].day
                             /\ runs'[m].by = runs[m].by
  BY <1>2, <1>4
<1>6. /\ UNCHANGED <<clock, fired, operator, stopped, failures, loop>>
      /\ kills' \in Nat /\ loop' \in [Loops -> LoopType]
  BY DEF EndRun, IInv, TypeOK
<1>. QED BY <1>4, <1>5, <1>6, RunsEnd

(***************************************************************************)
(* Operators and the clock.                                                *)
(***************************************************************************)
\* An operator's key and day are some job's key and a day.
LEMMA OperatorTyped ==
  ASSUME TypeOK, NEW o \in Operators
  PROVE  operator[o].key \in Keys /\ operator[o].day \in Nat
BY DEF TypeOK

\* An operator who calls run_once or gives it up keeps it.
LEMMA ShellInvariant ==
  ASSUME IInv, NEW o \in Operators,
         (\E k \in Keys, mark \in BOOLEAN : RunOnce(o, k, mark)) \/ GiveUp(o)
  PROVE  IInv'
<1>1. /\ UNCHANGED <<clock, fired, loop, stopped, runs, kills, failures>>
  BY DEF RunOnce, GiveUp
<1>2. PICK s \in [pc : {"idle", "marking", "marked"}, key : Keys, day : Nat] :
        operator' = [operator EXCEPT ![o] = s] /\ (s.pc = "marking" => s.day = Day(clock))
  <2>1. CASE GiveUp(o)
    <3>1. Table[1].key \in Keys
      <4>1. Table[1] \in JobType
        BY SchedulerConstants, TableTyped
      <4>. QED BY <4>1 DEF JobType
    <3>2. Idle \in [pc : {"idle", "marking", "marked"}, key : Keys, day : Nat]
      BY <3>1 DEF Idle
    <3>3. operator' = [operator EXCEPT ![o] = Idle] /\ Idle.pc = "idle"
      BY <2>1 DEF GiveUp, Idle
    <3>. QED BY <3>2, <3>3
  <2>2. ASSUME NEW k \in Keys, NEW mark \in BOOLEAN, RunOnce(o, k, mark)
        PROVE  \E s \in [pc : {"idle", "marking", "marked"}, key : Keys, day : Nat] :
                 operator' = [operator EXCEPT ![o] = s]
                 /\ (s.pc = "marking" => s.day = Day(clock))
    <3> DEFINE s == [pc |-> IF mark THEN "marking" ELSE "marked", key |-> k, day |-> Day(clock)]
    <3>1. s \in [pc : {"idle", "marking", "marked"}, key : Keys, day : Nat]
      BY DayTyped DEF IInv, TypeOK
    <3>2. operator' = [operator EXCEPT ![o] = s]
      BY <2>2 DEF RunOnce
    <3>3. s.day = Day(clock)
      OBVIOUS
    <3> HIDE DEF s
    <3>. QED BY <3>1, <3>2, <3>3
  <2>. QED BY <2>1, <2>2
<1>3. TypeOK'
  BY <1>1, <1>2 DEF IInv, TypeOK
<1>4. WorkIsOfToday'
  <2>1. \A q \in Operators : operator'[q] = IF q = o THEN s ELSE operator[q]
    BY <1>2 DEF IInv, TypeOK
  <2>. QED BY <1>1, <1>2, <2>1 DEF IInv, WorkIsOfToday, Day
<1>5. DueIsUnfired' /\ RunsAreMarked' /\ FiresOncePerDay'
  BY <1>1 DEF IInv, DueIsUnfired, RunsAreMarked, FiresOncePerDay, Day, Job
<1>. QED BY <1>3, <1>4, <1>5 DEF IInv

\* The mark of an operator keeps it: promptness makes it one of today.
LEMMA ManualMarkInvariant ==
  ASSUME IInv, NEW o \in Operators, MarkManual(o)
  PROVE  IInv'
<1> DEFINE k == operator[o].key
<1>1. /\ k \in Keys /\ MarkFired(k, Day(clock))
      /\ UNCHANGED <<clock, loop, stopped, runs, kills, failures>>
  BY OperatorTyped DEF MarkManual, IInv, WorkIsOfToday
<1>2. /\ fired' \in [Keys -> Nat \cup {Never}]
      /\ \A key \in Keys : fired'[key] <= Day(clock) /\ fired[key] <= fired'[key]
      /\ RunsAreMarked'
  BY <1>1, MarkKeepsRunsMarked
<1>3. TypeOK'
  BY <1>1, <1>2 DEF MarkManual, IInv, TypeOK
<1>4. WorkIsOfToday'
  <2>1. \A q \in Operators : operator'[q].pc = "marking" => operator'[q] = operator[q]
    BY DEF MarkManual, IInv, TypeOK
  <2>. QED BY <1>1, <1>2, <2>1 DEF IInv, WorkIsOfToday, Day
<1>5. DueIsUnfired'
  <2>1. ASSUME NEW p \in Loops, loop[p].pc = "marked"
        PROVE  fired'[Job(p).key] = Day(clock)
    <3>1. Job(p).key \in Keys
      <4>1. Job(p) \in JobType
        BY <2>1, TableTyped DEF Job, IInv, WorkIsOfToday
      <4>. QED BY <4>1 DEF JobType
    <3>2. fired[Job(p).key] = Day(clock)
      BY <2>1 DEF IInv, DueIsUnfired
    <3>3. Day(clock) \in Nat /\ fired'[Job(p).key] \in Int
      <4>1. clock \in Nat
        BY DEF IInv, TypeOK
      <4>. QED BY <1>2, <3>1, <4>1, DayTyped DEF Never
    <3>. QED BY <1>2, <3>1, <3>2, <3>3
  <2>. QED BY <1>1, <2>1 DEF IInv, DueIsUnfired, Day, Job
<1>6. FiresOncePerDay'
  BY <1>1 DEF IInv, FiresOncePerDay
<1>. QED BY <1>2, <1>3, <1>4, <1>5, <1>6 DEF IInv

\* A run of an operator keeps it: it is no run of a loop.
LEMMA ManualRunInvariant ==
  ASSUME IInv, NEW o \in Operators, Execute(o)
  PROVE  IInv'
<1> DEFINE r == Run(operator[o].key, operator[o].day, o)
<1>1. /\ runs' = Append(runs, r)
      /\ UNCHANGED <<clock, fired, loop, stopped, kills, failures>>
  BY DEF Execute
<1>2. r \in RunType /\ r.by = o
  BY OperatorTyped DEF Run, RunType, IInv
<1>3. o \notin Loops
  BY SchedulerConstants
<1> HIDE DEF r
<1>4. runs \in Seq(RunType)
  BY DEF IInv, TypeOK
<1>5. /\ runs' \in Seq(RunType)
      /\ \A n \in DOMAIN runs' :
           runs'[n].by \in Loops => n \in DOMAIN runs /\ runs'[n] = runs[n]
  BY <1>1, <1>2, <1>3, <1>4
<1>6. operator' = [operator EXCEPT ![o] = Idle] /\ Idle.pc = "idle"
      /\ Idle \in [pc : {"idle", "marking", "marked"}, key : Keys, day : Nat]
  <2>1. Table[1] \in JobType
    BY SchedulerConstants, TableTyped
  <2>2. Table[1].key \in Keys
    BY <2>1 DEF JobType
  <2>. QED BY <2>2 DEF Execute, Idle
<1>7. TypeOK'
  BY <1>1, <1>5, <1>6 DEF IInv, TypeOK
<1>8. WorkIsOfToday'
  <2>1. \A q \in Operators : operator'[q].pc = "marking" => operator'[q] = operator[q]
    BY <1>6 DEF IInv, TypeOK
  <2>. QED BY <1>1, <2>1 DEF IInv, WorkIsOfToday, Day
<1>9. DueIsUnfired'
  BY <1>1, <1>5 DEF IInv, DueIsUnfired, Day, Job
<1>10. RunsAreMarked' /\ FiresOncePerDay'
  BY <1>1, <1>5 DEF IInv, RunsAreMarked, FiresOncePerDay
<1>. QED BY <1>7, <1>8, <1>9, <1>10 DEF IInv

\* Nothing is in progress when the minute passes, so it may begin another day.
LEMMA MinuteInvariant ==
  ASSUME IInv, MinutePasses, Prompt
  PROVE  IInv'
<1>1. /\ clock' = clock + 1 /\ clock \in Nat /\ KeptPace
      /\ UNCHANGED <<fired, stopped, operator, runs, kills, failures>>
  BY DEF MinutePasses, IInv, TypeOK
<1>2. Day(clock) <= Day(clock') /\ Day(clock) \in Nat /\ Day(clock') \in Nat
  BY <1>1, DayAdvances, DayTyped
<1>3. \A p \in Loops : /\ loop'[p] \in LoopType /\ loop'[p].pc = loop[p].pc
                       /\ loop[p].pc \notin {"tick", "due", "marked"}
  <2> SUFFICES ASSUME NEW p \in Loops
               PROVE  /\ loop'[p] \in LoopType /\ loop'[p].pc = loop[p].pc
                      /\ loop[p].pc \notin {"tick", "due", "marked"}
    OBVIOUS
  <2>1. loop[p] \in LoopType /\ stopped[p] \in BOOLEAN
    BY DEF IInv, TypeOK
  <2>2. loop[p].pc \notin {"tick", "due", "marked"}
    BY <1>1 DEF KeptPace
  <2> DEFINE b == Serving(p) /\ ~stopped[p]
  <2>3. loop'[p] = [loop[p] EXCEPT !.polled = 0, !.attended = b]
    BY DEF MinutePasses
  <2>4. b \in BOOLEAN
    BY <2>1 DEF Serving
  <2> HIDE DEF b
  <2>5. [loop[p] EXCEPT !.polled = 0, !.attended = b] \in LoopType
    BY <2>1, <2>4 DEF LoopType
  <2>6. [loop[p] EXCEPT !.polled = 0, !.attended = b].pc = loop[p].pc
    BY <2>1 DEF LoopType
  <2>. QED BY <2>2, <2>3, <2>5, <2>6
<1>4. TypeOK'
  <2>1. loop' \in [Loops -> LoopType]
    BY <1>3 DEF MinutePasses
  <2>. QED BY <1>1, <2>1 DEF IInv, TypeOK
<1>5. WorkIsOfToday'
  <2>1. \A k \in Keys : fired[k] <= Day(clock')
    <3> SUFFICES ASSUME NEW k \in Keys PROVE fired[k] <= Day(clock')
      OBVIOUS
    <3>1. fired[k] <= Day(clock) /\ fired[k] \in Int
      BY DEF IInv, WorkIsOfToday, TypeOK, Never
    <3>. QED BY <1>2, <3>1
  <2>2. \A o \in Operators : operator[o].pc # "marking"
    BY <1>1 DEF KeptPace
  <2>. QED BY <1>1, <1>3, <2>1, <2>2 DEF WorkIsOfToday, Day
<1>6. DueIsUnfired'
  BY <1>3 DEF DueIsUnfired
<1>7. RunsAreMarked' /\ FiresOncePerDay'
  BY <1>1 DEF IInv, RunsAreMarked, FiresOncePerDay
<1>. QED BY <1>4, <1>5, <1>6, <1>7 DEF IInv

\* Every step keeps the invariant when there is one loop and it is prompt.
LEMMA NextInvariant ==
  ASSUME IInv, [Next]_vars, Prompt, \A p, q \in Loops : p = q
  PROVE  IInv'
<1>1. ASSUME NEW p \in Loops, LoopStep(p) \/ Start(p) \/ Stop(p) \/ FailTick(p) \/ Kill(p)
      PROVE  IInv'
  <2>1. CASE Start(p) \/ Serve(p) \/ Stop(p) \/ Poll(p) \/ EndTick(p) \/ FailTick(p) \/ Wake(p)
    BY <2>1, ControlInvariant
  <2>2. CASE Scan(p)
    BY <2>2, ScanInvariant
  <2>3. CASE Mark(p)
    BY <2>3, MarkInvariant
  <2>4. CASE Spawn(p)
    BY <2>4, SpawnInvariant
  <2>5. CASE Drain(p) \/ Kill(p)
    BY <2>5, DepartInvariant
  <2>. QED BY <1>1, <2>1, <2>2, <2>3, <2>4, <2>5 DEF LoopStep
<1>2. ASSUME NEW o \in Operators, OperatorStep(o)
      PROVE  IInv'
  <2>1. CASE \E n \in DOMAIN Table, mark \in BOOLEAN : RunOnce(o, Table[n].key, mark)
    <3>1. \E k \in Keys, mark \in BOOLEAN : RunOnce(o, k, mark)
      <4>1. \A n \in DOMAIN Table : Table[n].key \in Keys
        BY TableTyped DEF JobType
      <4>. QED BY <2>1, <4>1
    <3>. QED BY <3>1, ShellInvariant
  <2>2. CASE GiveUp(o)
    BY <2>2, ShellInvariant
  <2>3. CASE MarkManual(o)
    BY <2>3, ManualMarkInvariant
  <2>4. CASE Execute(o)
    BY <2>4, ManualRunInvariant
  <2>. QED BY <1>2, <2>1, <2>2, <2>3, <2>4 DEF OperatorStep
<1>3. CASE \E n \in DOMAIN runs, state \in {"recorded", "lost"} : EndRun(n, state)
  BY <1>3, EndRunInvariant
<1>4. CASE MinutePasses
  BY <1>4, MinuteInvariant
<1>5. CASE UNCHANGED vars
  BY <1>5 DEF vars, IInv, TypeOK, WorkIsOfToday, DueIsUnfired, RunsAreMarked,
              FiresOncePerDay, Day, Job
<1>. QED BY <1>1, <1>2, <1>3, <1>4, <1>5 DEF Next

\* With one prompt loop the invariant holds throughout (tick, run_once, serve).
THEOREM Invariance ==
  ASSUME Prompt, \A p, q \in Loops : p = q
  PROVE  Spec => []IInv
<1>1. Init => IInv
  BY InitInvariant
<1>2. IInv /\ [Next]_vars => IInv'
  BY NextInvariant
<1>. QED BY <1>1, <1>2, PTL DEF Spec

\* For any table, any operators and any number of kills, restarts and failed ticks: one
\* loop that keeps pace runs a job at most once a day (Scheduler.tick, _mark_fired).
THEOREM OneLoopFiresOncePerDay ==
  ASSUME Prompt, \A p, q \in Loops : p = q
  PROVE  Spec => []FiresOncePerDay
<1>1. IInv => FiresOncePerDay
  BY DEF IInv
<1>. QED BY <1>1, Invariance, PTL

\* Under the same conditions every run the loop began stays marked on the map.
THEOREM LoopRunsAreMarked ==
  ASSUME Prompt, \A p, q \in Loops : p = q
  PROVE  Spec => []RunsAreMarked
<1>1. IInv => RunsAreMarked
  BY DEF IInv
<1>. QED BY <1>1, Invariance, PTL

(***************************************************************************)
(* A minute that is attended fires its jobs, with any number of loops.     *)
(***************************************************************************)
\* A job of this minute has been fired, by whomever.
FiredNow(n) ==
  (Minute(clock) = Table[n].at /\ (Table[n].weekdays_only => Day(clock) \notin Weekend))
    => fired[Table[n].key] = Day(clock)

AllFiredNow == \A n \in DOMAIN Table : FiredNow(n)

\* A tick is of this minute and has fired the jobs it passed; of a loop that attends the
\* minute, either some poll came to its end, so that all jobs are fired, or all failed.
Paced(l, f) ==
  /\ l \in LoopType
  /\ l.pc \in {"tick", "due", "marked"} =>
       /\ l.moment = clock /\ l.place > 0
       /\ \A n \in DOMAIN Table : n < l.place => FiredNow(n)
  /\ l.pc \in {"due", "marked"} => l.place <= Len(Table)
  /\ l.pc = "marked" => FiredNow(l.place)
  /\ l.attended =>
       /\ l.pc \in {"poll", "tick", "due", "marked", "waiting"}
       /\ AllFiredNow \/ l.polled <= f

ClockOK ==
  /\ clock \in Nat /\ failures \in 0 .. MaxFailures
  /\ fired \in [Keys -> Nat \cup {Never}]
  /\ stopped \in [Loops -> BOOLEAN]
  /\ operator \in [Operators -> [pc : {"idle", "marking", "marked"}, key : Keys, day : Nat]]

PaceInv ==
  /\ ClockOK
  /\ DOMAIN loop = Loops /\ loop = [p \in Loops |-> loop[p]]
  /\ \A p \in Loops : Paced(loop[p], failures) /\ (loop[p].attended => ~stopped[p])
  /\ \A o \in Operators : operator[o].pc = "marking" => operator[o].day = Day(clock)

\* A loop keeps pace while others fail, and mark what is due today.
LEMMA PacedStays ==
  ASSUME ClockOK, ClockOK', clock' = clock, failures <= failures',
         \A n \in DOMAIN Table : FiredNow(n) => FiredNow(n)',
         NEW l, Paced(l, failures)
  PROVE  Paced(l, failures)'
<1>1. l.polled \in Nat /\ l.place \in Nat
  BY DEF Paced, LoopType
<1>2. failures \in Int /\ failures' \in Int
  BY DEF ClockOK
<1>3. ASSUME l.pc = "marked"
      PROVE  FiredNow(l.place)'
  <2>1. l.place \in DOMAIN Table
    BY <1>1, <1>3, SchedulerConstants DEF Paced
  <2>2. QED
    BY <1>3, <2>1 DEF Paced
<1>4. AllFiredNow => AllFiredNow'
  BY DEF AllFiredNow
<1>5. l.attended => AllFiredNow' \/ l.polled <= failures'
  BY <1>1, <1>2, <1>4 DEF Paced
<1>6. QED
  BY <1>3, <1>5 DEF Paced

\* One loop becomes l, which keeps pace, while nothing is taken back.
Goes(p, l) ==
  /\ ClockOK' /\ clock' = clock /\ operator' = operator /\ failures <= failures'
  /\ \A n \in DOMAIN Table : FiredNow(n) => FiredNow(n)'
  /\ loop' = [loop EXCEPT ![p] = l]
  /\ Paced(l, failures)' /\ (l.attended => ~stopped'[p])
  /\ \A q \in Loops : q # p => stopped'[q] = stopped[q]

\* The others do while one of them takes a step.
LEMMA OneLoopMoves ==
  ASSUME PaceInv, NEW p \in Loops, NEW l, Goes(p, l)
  PROVE  PaceInv'
<1>0. /\ ClockOK' /\ clock' = clock /\ operator' = operator /\ failures <= failures'
      /\ \A n \in DOMAIN Table : FiredNow(n) => FiredNow(n)'
      /\ loop' = [loop EXCEPT ![p] = l]
      /\ Paced(l, failures)' /\ (l.attended => ~stopped'[p])
      /\ \A q \in Loops : q # p => stopped'[q] = stopped[q]
  BY DEF Goes
<1>1. \A q \in Loops : loop'[q] = IF q = p THEN l ELSE loop[q]
  BY <1>0 DEF PaceInv
<1>2. DOMAIN loop' = Loops /\ loop' = [q \in Loops |-> loop'[q]]
  BY <1>0 DEF PaceInv
<1>3. ASSUME NEW q \in Loops
      PROVE  Paced(loop[q], failures)'
  <2>1. CASE q = p
    BY <1>0, <1>1, <2>1
  <2>2. CASE q # p
    <3>1. Paced(loop[q], failures) /\ loop'[q] = loop[q]
      BY <1>1, <2>2 DEF PaceInv
    <3> DEFINE k == loop[q]
    <3>2. ASSUME NEW m, Paced(m, failures) PROVE Paced(m, failures)'
      BY <1>0, <3>2, PacedStays DEF PaceInv
    <3>3. QED
      BY <3>1, <3>2 DEF Paced
  <2>3. QED
    BY <2>1, <2>2
<1>4. \A q \in Loops : loop'[q].attended => ~stopped'[q]
  BY <1>0, <1>1 DEF PaceInv
<1>5. \A o \in Operators : operator'[o].pc = "marking" => operator'[o].day = Day(clock')
  BY <1>0 DEF PaceInv
<1>6. QED
  BY <1>0, <1>2, <1>3, <1>4, <1>5 DEF PaceInv

\* A step that moves one loop and neither time nor the map.
Moves(p, l) ==
  /\ UNCHANGED <<clock, fired, operator>>
  /\ failures' \in 0 .. MaxFailures /\ failures <= failures'
  /\ stopped' \in [Loops -> BOOLEAN]
  /\ \A q \in Loops : q # p => stopped'[q] = stopped[q]
  /\ loop' = [loop EXCEPT ![p] = l]
  /\ Paced(l, failures') /\ (l.attended => ~stopped'[p])

\* It keeps the pace.
LEMMA LoopAloneMoves ==
  ASSUME PaceInv, NEW p \in Loops, NEW l, Moves(p, l)
  PROVE  PaceInv'
<1>0. /\ UNCHANGED <<clock, fired, operator>>
      /\ failures' \in 0 .. MaxFailures /\ failures <= failures'
      /\ stopped' \in [Loops -> BOOLEAN]
      /\ \A q \in Loops : q # p => stopped'[q] = stopped[q]
      /\ loop' = [loop EXCEPT ![p] = l]
      /\ Paced(l, failures') /\ (l.attended => ~stopped'[p])
  BY DEF Moves
<1>1. ClockOK'
  BY <1>0 DEF PaceInv, ClockOK
<1>2. \A n \in DOMAIN Table : FiredNow(n)' <=> FiredNow(n)
  BY <1>0 DEF FiredNow, Day, Minute
<1>3. Paced(l, failures)'
  <2>1. AllFiredNow' <=> AllFiredNow
    BY <1>2 DEF AllFiredNow
  <2>2. l.pc = "marked" => FiredNow(l.place)'
    <3>1. FiredNow(l.place)' <=> FiredNow(l.place)
      BY <1>0 DEF FiredNow, Day, Minute
    <3>2. QED
      BY <1>0, <3>1 DEF Paced
  <2>3. QED
    BY <1>0, <1>2, <2>1, <2>2 DEF Paced
<1>4. failures <= failures' /\ \A n \in DOMAIN Table : FiredNow(n) => FiredNow(n)'
  BY <1>0, <1>2
<1>5. Goes(p, l)
  BY ONLY <1>0, <1>1, <1>3, <1>4 DEF Goes
<1>6. QED
  BY <1>5, OneLoopMoves

\* Where a loop is, in particular.
LEMMA LoopPaced ==
  ASSUME PaceInv, NEW p \in Loops
  PROVE  /\ loop[p] \in LoopType /\ Paced(loop[p], failures)
         /\ loop[p].attended => ~stopped[p]
         /\ failures \in 0 .. MaxFailures /\ failures \in Nat /\ clock \in Nat
         /\ stopped \in [Loops -> BOOLEAN] /\ fired \in [Keys -> Nat \cup {Never}]
BY DEF PaceInv, Paced, ClockOK

\* A step that moves one loop, and its event at most, and no failure.
Steps(p, l) ==
  /\ UNCHANGED <<clock, fired, operator, failures>>
  /\ stopped' = stopped \/ \E b \in BOOLEAN : stopped' = [stopped EXCEPT ![p] = b]
  /\ loop' = [loop EXCEPT ![p] = l]
  /\ Paced(l, failures) /\ (l.attended => ~stopped'[p])

\* It keeps the pace, too.
LEMMA LoopSteps ==
  ASSUME PaceInv, NEW p \in Loops, NEW l, Steps(p, l)
  PROVE  PaceInv'
<1>1. /\ failures' = failures /\ Paced(l, failures)
      /\ stopped' = stopped \/ \E b \in BOOLEAN : stopped' = [stopped EXCEPT ![p] = b]
  BY DEF Steps
<1>2. Paced(l, failures')
  BY ONLY <1>1
<1>3. failures' \in 0 .. MaxFailures /\ failures <= failures'
  BY <1>1, LoopPaced
<1>4. stopped' \in [Loops -> BOOLEAN] /\ \A q \in Loops : q # p => stopped'[q] = stopped[q]
  BY <1>1, LoopPaced
<1>5. Moves(p, l)
  BY <1>2, <1>3, <1>4 DEF Moves, Steps
<1>6. QED
  BY <1>5, LoopAloneMoves

\* A loop that is started, serves, is asked to stop or wakes keeps the pace.
LEMMA QuietSteps ==
  ASSUME PaceInv, NEW p \in Loops, Start(p) \/ Serve(p) \/ Wake(p)
  PROVE  PaceInv'
<1>1. PICK c \in {"up", "poll"} :
        /\ loop' = [loop EXCEPT ![p] = [loop[p] EXCEPT !.pc = c]]
        /\ c = "up" => loop[p].pc \in {"down", "exited"}
        /\ UNCHANGED <<clock, fired, operator, failures>>
        /\ stopped' = stopped \/ stopped' = [stopped EXCEPT ![p] = FALSE]
  BY DEF Start, Serve, Wake, At
<1> DEFINE l == [loop[p] EXCEPT !.pc = c]
<1>2. /\ l \in LoopType /\ l.pc = c /\ l.attended = loop[p].attended
      /\ l.polled = loop[p].polled
  BY LoopPaced DEF LoopType
<1>3. Paced(l, failures)
  BY <1>1, <1>2, LoopPaced DEF Paced
<1>4. l.attended => ~stopped'[p]
  BY <1>1, <1>2, LoopPaced
<1> HIDE DEF l
<1>5. Steps(p, l)
  <2>1. loop' = [loop EXCEPT ![p] = l]
    BY <1>1 DEF l
  <2>2. stopped' = stopped \/ \E b \in BOOLEAN : stopped' = [stopped EXCEPT ![p] = b]
    BY <1>1
  <2>3. QED
    BY <1>1, <1>3, <1>4, <2>1, <2>2 DEF Steps
<1>6. QED
  BY <1>5, LoopSteps

\* So does one that is asked to stop, which no longer attends the minute.
LEMMA StopStep ==
  ASSUME PaceInv, NEW p \in Loops, Stop(p)
  PROVE  PaceInv'
<1> DEFINE l == [loop[p] EXCEPT !.attended = FALSE]
<1>1. /\ UNCHANGED <<clock, fired, operator, failures>>
      /\ stopped' = [stopped EXCEPT ![p] = TRUE] /\ loop' = [loop EXCEPT ![p] = l]
  BY DEF Stop
<1>2. /\ l \in LoopType /\ l.pc = loop[p].pc /\ l.attended = FALSE
      /\ l.moment = loop[p].moment /\ l.place = loop[p].place
  BY LoopPaced DEF LoopType
<1>3. Paced(l, failures)
  BY <1>2, LoopPaced DEF Paced
<1> HIDE DEF l
<1>4. Steps(p, l)
  BY <1>1, <1>2, <1>3 DEF Steps
<1>5. QED
  BY <1>4, LoopSteps

\* And one that begins a tick, or drains, since nothing attended was asked to stop.
LEMMA PollStep ==
  ASSUME PaceInv, NEW p \in Loops, Poll(p)
  PROVE  PaceInv'
<1>1. UNCHANGED <<clock, fired, operator, failures, stopped>> /\ loop[p].pc = "poll"
  BY DEF Poll
<1>2. CASE stopped[p]
  <2> DEFINE l == [loop[p] EXCEPT !.pc = "draining"]
  <2>1. loop' = [loop EXCEPT ![p] = l]
    BY <1>2 DEF Poll, At
  <2>2. l \in LoopType /\ l.pc = "draining" /\ l.attended = FALSE
    BY <1>2, LoopPaced DEF LoopType
  <2>3. Paced(l, failures)
    BY <2>2 DEF Paced
  <2> HIDE DEF l
  <2>4. Steps(p, l)
    BY <1>1, <2>1, <2>2, <2>3 DEF Steps
  <2>5. QED
    BY <2>4, LoopSteps
<1>3. CASE ~stopped[p]
  <2> DEFINE l == [[[loop[p] EXCEPT !.pc = "tick"] EXCEPT !.moment = clock] EXCEPT !.place = 1]
  <2>1. loop' = [loop EXCEPT ![p] = l]
    BY <1>3 DEF Poll
  <2>2. /\ l \in LoopType /\ l.pc = "tick" /\ l.moment = clock /\ l.place = 1
        /\ l.attended = loop[p].attended /\ l.polled = loop[p].polled
    BY LoopPaced DEF LoopType
  <2>3. \A n \in DOMAIN Table : ~ (n < 1)
    BY SchedulerConstants
  <2>4. Paced(l, failures)
    BY <1>1, <2>2, <2>3, LoopPaced DEF Paced
  <2> HIDE DEF l
  <2>5. Steps(p, l)
    BY <1>1, <1>3, <2>1, <2>4 DEF Steps
  <2>6. QED
    BY <2>5, LoopSteps
<1>4. QED
  BY <1>2, <1>3

\* And one that finds a job due, or passes one that is not: it is fired, or not of now.
LEMMA ScanStep ==
  ASSUME PaceInv, NEW p \in Loops, Scan(p)
  PROVE  PaceInv'
<1> DEFINE k == loop[p].place
<1>1. /\ UNCHANGED <<clock, fired, operator, failures, stopped>>
      /\ loop[p].pc = "tick" /\ k <= Len(Table)
  BY DEF Scan
<1>2. k \in DOMAIN Table /\ loop[p].moment = clock
  BY <1>1, LoopPaced, SchedulerConstants DEF Paced, LoopType
<1>3. CASE IsDue(Job(p), loop[p].moment)
  <2> DEFINE l == [loop[p] EXCEPT !.pc = "due"]
  <2>1. loop' = [loop EXCEPT ![p] = l]
    BY <1>3 DEF Scan
  <2>2. /\ l \in LoopType /\ l.pc = "due" /\ l.moment = loop[p].moment /\ l.place = k
        /\ l.attended = loop[p].attended /\ l.polled = loop[p].polled
    BY LoopPaced DEF LoopType
  <2>3. Paced(l, failures)
    BY <1>1, <2>2, LoopPaced DEF Paced
  <2> HIDE DEF l
  <2>4. l.attended => ~stopped'[p]
    BY <1>1, <2>2, LoopPaced
  <2>5. Steps(p, l)
    BY <1>1, <2>1, <2>3, <2>4 DEF Steps
  <2>6. QED
    BY <2>5, LoopSteps
<1>4. CASE ~IsDue(Job(p), loop[p].moment)
  <2> DEFINE l == [loop[p] EXCEPT !.place = k + 1]
  <2>1. loop' = [loop EXCEPT ![p] = l]
    BY <1>4 DEF Scan
  <2>2. k \in Nat
    BY LoopPaced DEF LoopType
  <2>3. /\ l \in LoopType /\ l.pc = "tick" /\ l.moment = loop[p].moment /\ l.place = k + 1
        /\ l.attended = loop[p].attended /\ l.polled = loop[p].polled
    <3>1. loop[p] \in LoopType /\ k + 1 \in Nat
      BY <2>2, LoopPaced
    <3>2. QED
      BY ONLY <1>1, <3>1 DEF LoopType
  <2>4. FiredNow(k)
    BY <1>2, <1>4 DEF IsDue, Job, FiredNow
  <2>5. \A n \in DOMAIN Table : n < k + 1 => n < k \/ n = k
    BY <2>2, SchedulerConstants
  <2>6. Paced(l, failures)
    BY <1>1, <2>2, <2>3, <2>4, <2>5, LoopPaced DEF Paced
  <2> HIDE DEF l
  <2>7. l.attended => ~stopped'[p]
    BY <1>1, <2>3, LoopPaced
  <2>8. Steps(p, l)
    BY <1>1, <2>1, <2>6, <2>7 DEF Steps
  <2>9. QED
    BY <2>8, LoopSteps
<1>5. QED
  BY <1>3, <1>4

\* The day of a due job is today's, so that marking it takes no mark back.
LEMMA MarkKeeps ==
  ASSUME ClockOK, clock' = clock, NEW k \in Keys, MarkFired(k, Day(clock))
  PROVE  /\ fired' \in [Keys -> Nat \cup {Never}]
         /\ fired' = [fired EXCEPT ![k] = Day(clock)]
         /\ \A n \in DOMAIN Table : FiredNow(n) => FiredNow(n)'
         /\ \A n \in DOMAIN Table : Table[n].key = k => FiredNow(n)'
<1>1. /\ fired' = [fired EXCEPT ![k] = Day(clock)] /\ fired \in [Keys -> Nat \cup {Never}]
      /\ Day(clock) \in Nat
  BY DayTyped DEF MarkFired, ClockOK
<1>2. /\ fired' \in [Keys -> Nat \cup {Never}]
      /\ \A j \in Keys : fired'[j] = IF j = k THEN Day(clock) ELSE fired[j]
  BY <1>1
<1>3. Day(clock)' = Day(clock) /\ Minute(clock)' = Minute(clock)
  BY DEF Day, Minute
<1>4. \A n \in DOMAIN Table : Table[n].key \in Keys
  BY TableTyped DEF JobType
<1>5. ASSUME NEW n \in DOMAIN Table, FiredNow(n) \/ Table[n].key = k
      PROVE  FiredNow(n)'
  BY <1>2, <1>3, <1>4, <1>5 DEF FiredNow
<1>6. QED
  BY <1>1, <1>2, <1>5

\* A loop that marks what it found due has fired it.
LEMMA MarkStep ==
  ASSUME PaceInv, NEW p \in Loops, Mark(p)
  PROVE  PaceInv'
<1>1. /\ UNCHANGED <<clock, operator, failures, stopped>> /\ loop[p].pc = "due"
      /\ loop' = [loop EXCEPT ![p] = [loop[p] EXCEPT !.pc = "marked"]]
      /\ MarkFired(Table[loop[p].place].key, Day(loop[p].moment))
  BY DEF Mark, At, Job
<1>2. loop[p].place \in DOMAIN Table /\ loop[p].moment = clock
  BY <1>1, LoopPaced, SchedulerConstants DEF Paced, LoopType
<1>3. PICK k \in DOMAIN Table : k = loop[p].place
  BY <1>2
<1>4. PICK l : l = [loop[p] EXCEPT !.pc = "marked"]
  OBVIOUS
<1>5. /\ l \in LoopType /\ l.pc = "marked" /\ l.moment = clock /\ l.place = k
      /\ l.attended = loop[p].attended /\ l.polled = loop[p].polled
  BY <1>2, <1>3, <1>4, LoopPaced DEF LoopType
<1>6. Table[k].key \in Keys /\ ClockOK
  BY TableTyped DEF JobType, PaceInv
<1>7. clock' = clock /\ MarkFired(Table[k].key, Day(clock))
  BY <1>1, <1>2, <1>3
<1>8. /\ fired' \in [Keys -> Nat \cup {Never}]
      /\ \A n \in DOMAIN Table : FiredNow(n) => FiredNow(n)'
      /\ \A n \in DOMAIN Table : Table[n].key = Table[k].key => FiredNow(n)'
  BY ONLY <1>6, <1>7, MarkKeeps
<1>9. ClockOK' /\ failures <= failures'
  BY <1>1, <1>6, <1>8, LoopPaced DEF ClockOK
<1>10. Paced(l, failures)'
  <2>1. Paced(loop[p], failures)
    BY LoopPaced
  <2>2. AllFiredNow => AllFiredNow'
    BY <1>8 DEF AllFiredNow
  <2>3. \A n \in DOMAIN Table : n < l.place => FiredNow(n)'
    BY <1>1, <1>3, <1>5, <1>8, <2>1 DEF Paced
  <2>4. l.moment = clock' /\ l.place > 0 /\ l.place <= Len(Table) /\ FiredNow(l.place)'
    BY <1>1, <1>3, <1>5, <1>7, <1>8, <2>1 DEF Paced
  <2>5. l.attended => AllFiredNow' \/ l.polled <= failures'
    BY <1>1, <1>5, <2>1, <2>2 DEF Paced
  <2>6. QED
    BY ONLY <1>5, <2>3, <2>4, <2>5 DEF Paced
<1>11. l.attended => ~stopped'[p]
  BY <1>1, <1>5, LoopPaced
<1>12. \A q \in Loops : q # p => stopped'[q] = stopped[q]
  BY <1>1
<1>13. clock' = clock /\ operator' = operator /\ loop' = [loop EXCEPT ![p] = l]
  BY <1>1, <1>4
<1>14. Goes(p, l)
  BY ONLY <1>8, <1>9, <1>10, <1>11, <1>12, <1>13 DEF Goes
<1>15. QED
  BY <1>14, OneLoopMoves

\* Then it goes on to the next job.
LEMMA SpawnStep ==
  ASSUME PaceInv, NEW p \in Loops, Spawn(p)
  PROVE  PaceInv'
<1> DEFINE k == loop[p].place
           l == [[loop[p] EXCEPT !.pc = "tick"] EXCEPT !.place = k + 1]
<1>1. /\ UNCHANGED <<clock, fired, operator, failures, stopped>> /\ loop[p].pc = "marked"
      /\ loop' = [loop EXCEPT ![p] = l]
  BY DEF Spawn
<1>2. k \in Nat
  BY LoopPaced DEF LoopType
<1>3. /\ l \in LoopType /\ l.pc = "tick" /\ l.moment = loop[p].moment /\ l.place = k + 1
      /\ l.attended = loop[p].attended /\ l.polled = loop[p].polled
  <2>1. loop[p] \in LoopType /\ k + 1 \in Nat
    BY <1>2, LoopPaced
  <2>2. QED
    BY ONLY <2>1 DEF LoopType
<1>4. \A n \in DOMAIN Table : n < k + 1 => n < k \/ n = k
  BY <1>2, SchedulerConstants
<1>5. Paced(l, failures)
  BY <1>1, <1>2, <1>3, <1>4, LoopPaced DEF Paced
<1>6. l.attended => ~stopped'[p]
  BY <1>1, <1>3, LoopPaced
<1> HIDE DEF l
<1>7. Steps(p, l)
  BY <1>1, <1>5, <1>6 DEF Steps
<1>8. QED
  BY <1>7, LoopSteps

\* What a loop is after a tick, failed or not.
LEMMA RestedForm ==
  ASSUME PaceInv, NEW p \in Loops
  PROVE  \E l \in LoopType :
           /\ Rested(p) = [loop EXCEPT ![p] = l] /\ l.pc = "waiting"
           /\ l.attended = loop[p].attended /\ l.polled <= loop[p].polled + 1
<1> DEFINE l == [pc |-> "waiting", moment |-> 0, place |-> 0,
                 polled |-> IF loop[p].polled < Polls THEN loop[p].polled + 1 ELSE loop[p].polled,
                 attended |-> loop[p].attended]
<1>1. loop[p].polled \in Nat /\ loop[p].attended \in BOOLEAN
  BY LoopPaced DEF LoopType
<1>2. l \in LoopType /\ l.polled <= loop[p].polled + 1
  BY <1>1 DEF LoopType
<1>3. Rested(p) = [loop EXCEPT ![p] = l]
  BY DEF Rested
<1>4. QED
  BY <1>2, <1>3

\* A tick that came to its end has passed all jobs.
LEMMA EndTickStep ==
  ASSUME PaceInv, NEW p \in Loops, EndTick(p)
  PROVE  PaceInv'
<1>1. /\ UNCHANGED <<clock, fired, operator, failures, stopped>> /\ loop[p].pc = "tick"
      /\ loop[p].place > Len(Table) /\ loop' = Rested(p)
  BY DEF EndTick
<1>2. PICK l \in LoopType :
        /\ loop' = [loop EXCEPT ![p] = l] /\ l.pc = "waiting" /\ l.attended = loop[p].attended
  BY <1>1, RestedForm
<1>3. AllFiredNow
  <2>1. \A n \in DOMAIN Table : n < loop[p].place
    BY <1>1, LoopPaced, SchedulerConstants DEF LoopType
  <2>2. QED
    BY <1>1, <2>1, LoopPaced DEF Paced, AllFiredNow
<1>4. Paced(l, failures)
  BY <1>2, <1>3 DEF Paced
<1>5. l.attended => ~stopped'[p]
  BY <1>1, <1>2, LoopPaced
<1>6. Steps(p, l)
  BY <1>1, <1>2, <1>4, <1>5 DEF Steps
<1>7. QED
  BY <1>6, LoopSteps

\* One that failed is a poll more, and a failure more.
LEMMA FailTickStep ==
  ASSUME PaceInv, NEW p \in Loops, FailTick(p)
  PROVE  PaceInv'
<1>1. /\ UNCHANGED <<clock, fired, operator, stopped>> /\ loop' = Rested(p)
      /\ failures < MaxFailures /\ failures' = failures + 1
  BY DEF FailTick
<1>2. PICK l \in LoopType :
        /\ loop' = [loop EXCEPT ![p] = l] /\ l.pc = "waiting"
        /\ l.attended = loop[p].attended /\ l.polled <= loop[p].polled + 1
  BY <1>1, RestedForm
<1>3. /\ failures' \in 0 .. MaxFailures /\ failures <= failures'
  BY <1>1, LoopPaced, SchedulerConstants
<1>4. l.attended => AllFiredNow \/ l.polled <= failures'
  <2>1. loop[p].polled \in Nat /\ l.polled \in Nat /\ failures \in Nat
    BY LoopPaced DEF LoopType
  <2>2. l.attended => AllFiredNow \/ loop[p].polled <= failures
    BY <1>2, LoopPaced DEF Paced
  <2>3. loop[p].polled <= failures => l.polled <= failures'
    BY <1>1, <1>2, <2>1
  <2>4. QED
    BY <2>2, <2>3
<1>5. Paced(l, failures')
  BY <1>2, <1>4 DEF Paced
<1>6. l.attended => ~stopped'[p]
  BY <1>1, <1>2, LoopPaced
<1>7. Moves(p, l)
  BY <1>1, <1>2, <1>3, <1>5, <1>6, LoopPaced DEF Moves
<1>8. QED
  BY <1>7, LoopAloneMoves

\* A process that is gone attends nothing.
LEMMA EndStep ==
  ASSUME PaceInv, NEW p \in Loops, Drain(p) \/ Kill(p)
  PROVE  PaceInv'
<1>1. PICK c \in {"down", "exited"} : loop' = [loop EXCEPT ![p] = [Down EXCEPT !.pc = c]]
  BY DEF Drain, Kill, Down
<1>2. UNCHANGED <<clock, fired, operator, failures, stopped>>
  BY DEF Drain, Kill
<1> DEFINE l == [Down EXCEPT !.pc = c]
<1>3. l \in LoopType /\ l.pc = c /\ l.attended = FALSE
  BY DEF Down, LoopType
<1>4. Paced(l, failures)
  BY <1>3 DEF Paced
<1> HIDE DEF l
<1>5. Steps(p, l)
  <2>1. loop' = [loop EXCEPT ![p] = l]
    BY <1>1 DEF l
  <2>2. QED
    BY <1>2, <1>3, <1>4, <2>1 DEF Steps
<1>6. QED
  BY <1>5, LoopSteps

\* Loops keep pace while an operator acts, whose mark is of today.
Acts ==
  /\ ClockOK' /\ UNCHANGED <<clock, loop, stopped, failures>>
  /\ \A n \in DOMAIN Table : FiredNow(n) => FiredNow(n)'
  /\ \A o \in Operators : operator'[o].pc = "marking" => operator'[o].day = Day(clock)

\* And while jobs end.
LEMMA OthersAct ==
  ASSUME PaceInv, Acts
  PROVE  PaceInv'
<1>0. /\ ClockOK' /\ UNCHANGED <<clock, loop, stopped, failures>>
      /\ \A n \in DOMAIN Table : FiredNow(n) => FiredNow(n)'
      /\ \A o \in Operators : operator'[o].pc = "marking" => operator'[o].day = Day(clock)
  BY DEF Acts
<1>1. DOMAIN loop' = Loops /\ loop' = [p \in Loops |-> loop'[p]]
  BY <1>0 DEF PaceInv
<1>2. ASSUME NEW p \in Loops
      PROVE  Paced(loop[p], failures)' /\ (loop'[p].attended => ~stopped'[p])
  <2>1. /\ Paced(loop[p], failures) /\ loop'[p] = loop[p]
        /\ loop[p].attended => ~stopped[p]
    BY <1>0 DEF PaceInv
  <2>2. ClockOK /\ failures <= failures'
    BY <1>0, LoopPaced DEF PaceInv
  <2>3. ASSUME NEW m, Paced(m, failures) PROVE Paced(m, failures)'
    BY <1>0, <2>2, <2>3, PacedStays
  <2>4. QED
    BY <1>0, <2>1, <2>3 DEF Paced
<1>3. \A o \in Operators : operator'[o].pc = "marking" => operator'[o].day = Day(clock')
  BY <1>0
<1>4. QED
  BY <1>0, <1>1, <1>2, <1>3 DEF PaceInv

\* An operator that calls run_once, runs its job or gives up changes no mark.
LEMMA ShellStep ==
  ASSUME PaceInv, NEW o \in Operators,
         \/ \E k \in Keys, mark \in BOOLEAN : RunOnce(o, k, mark)
         \/ Execute(o) \/ GiveUp(o)
  PROVE  PaceInv'
<1> DEFINE Shell == [pc : {"idle", "marking", "marked"}, key : Keys, day : Nat]
<1>1. UNCHANGED <<clock, fired, loop, stopped, failures>>
  BY DEF RunOnce, Execute, GiveUp
<1>2. Day(clock) \in Nat /\ operator \in [Operators -> Shell]
  BY DayTyped DEF PaceInv, ClockOK
<1>3. PICK s \in Shell :
        operator' = [operator EXCEPT ![o] = s] /\ (s.pc = "marking" => s.day = Day(clock))
  <2>1. CASE Execute(o) \/ GiveUp(o)
    <3>1. Table[1] \in JobType
      BY SchedulerConstants, TableTyped
    <3>2. Idle \in Shell /\ Idle.pc = "idle"
      BY <3>1 DEF Idle, JobType
    <3>3. operator' = [operator EXCEPT ![o] = Idle]
      BY <2>1 DEF Execute, GiveUp
    <3>4. QED
      BY <3>2, <3>3
  <2>2. ASSUME NEW k \in Keys, NEW mark \in BOOLEAN, RunOnce(o, k, mark)
        PROVE  \E s \in Shell :
                 operator' = [operator EXCEPT ![o] = s]
                 /\ (s.pc = "marking" => s.day = Day(clock))
    <3> DEFINE s == [pc |-> IF mark THEN "marking" ELSE "marked", key |-> k, day |-> Day(clock)]
    <3>1. s \in Shell /\ s.day = Day(clock)
      BY <1>2
    <3>2. operator' = [operator EXCEPT ![o] = s]
      BY <2>2 DEF RunOnce
    <3> HIDE DEF s
    <3>3. QED
      BY <3>1, <3>2
  <2>3. QED
    BY <2>1, <2>2
<1>4. operator' \in [Operators -> Shell]
      /\ \A q \in Operators : operator'[q] = IF q = o THEN s ELSE operator[q]
  BY <1>2, <1>3
<1>5. \A q \in Operators : operator'[q].pc = "marking" => operator'[q].day = Day(clock)
  BY <1>3, <1>4 DEF PaceInv
<1>6. ClockOK'
  BY <1>1, <1>4 DEF PaceInv, ClockOK
<1>7. \A n \in DOMAIN Table : FiredNow(n) => FiredNow(n)'
  BY <1>1 DEF FiredNow, Day, Minute
<1>8. Acts
  BY ONLY <1>1, <1>5, <1>6, <1>7 DEF Acts
<1>9. QED
  BY <1>8, OthersAct

\* A mark by hand is of today, and takes no mark of a loop back.
LEMMA ManualMarkStep ==
  ASSUME PaceInv, NEW o \in Operators, MarkManual(o)
  PROVE  PaceInv'
<1> DEFINE Shell == [pc : {"idle", "marking", "marked"}, key : Keys, day : Nat]
<1>1. /\ UNCHANGED <<clock, loop, stopped, failures>>
      /\ MarkFired(operator[o].key, Day(clock))
      /\ operator' = [operator EXCEPT ![o].pc = "marked"]
  BY DEF MarkManual, PaceInv
<1>2. operator[o].key \in Keys /\ operator \in [Operators -> Shell] /\ ClockOK
  BY DEF PaceInv, ClockOK
<1>3. operator' \in [Operators -> Shell]
      /\ \A q \in Operators : (q = o \/ operator'[q] = operator[q])
      /\ operator'[o].pc = "marked"
  <2>1. [operator[o] EXCEPT !.pc = "marked"] \in Shell
    BY <1>2
  <2>2. operator' = [operator EXCEPT ![o] = [operator[o] EXCEPT !.pc = "marked"]]
    BY <1>1
  <2>3. [operator[o] EXCEPT !.pc = "marked"].pc = "marked"
    BY <1>2
  <2>4. QED
    BY <1>2, <2>1, <2>2, <2>3
<1>4. \A q \in Operators : operator'[q].pc = "marking" => operator'[q].day = Day(clock)
  BY <1>3 DEF PaceInv
<1>5. /\ fired' \in [Keys -> Nat \cup {Never}]
      /\ \A n \in DOMAIN Table : FiredNow(n) => FiredNow(n)'
  BY <1>1, <1>2, MarkKeeps
<1>6. ClockOK'
  BY <1>1, <1>2, <1>3, <1>5 DEF ClockOK
<1>7. Acts
  BY ONLY <1>1, <1>4, <1>5, <1>6 DEF Acts
<1>8. QED
  BY <1>7, OthersAct

\* The end of a job changes nothing of it.
LEMMA JobEndStep ==
  ASSUME PaceInv, UNCHANGED <<clock, fired, loop, stopped, operator, failures>>
  PROVE  PaceInv'
<1>1. ClockOK'
  BY DEF PaceInv, ClockOK
<1>2. \A n \in DOMAIN Table : FiredNow(n) => FiredNow(n)'
  BY DEF FiredNow, Day, Minute
<1>3. \A o \in Operators : operator'[o].pc = "marking" => operator'[o].day = Day(clock)
  BY DEF PaceInv
<1>4. Acts
  BY <1>1, <1>2, <1>3 DEF Acts
<1>5. QED
  BY <1>4, OthersAct

\* A minute begins with all loops between two ticks, and no poll of it yet.
LEMMA MinuteStep ==
  ASSUME PaceInv, MinutePasses, Prompt
  PROVE  PaceInv'
<1>1. /\ clock' = clock + 1 /\ clock \in Nat /\ KeptPace
      /\ UNCHANGED <<fired, stopped, operator, failures>>
  BY DEF MinutePasses, PaceInv, ClockOK
<1>2. ClockOK'
  BY <1>1 DEF PaceInv, ClockOK
<1>3. ASSUME NEW p \in Loops
      PROVE  Paced(loop[p], failures)' /\ (loop'[p].attended => ~stopped'[p])
  <2>1. loop[p] \in LoopType /\ stopped[p] \in BOOLEAN
    BY LoopPaced
  <2> DEFINE b == Serving(p) /\ ~stopped[p]
             l == [[loop[p] EXCEPT !.polled = 0] EXCEPT !.attended = b]
  <2>2. loop'[p] = l
    BY DEF MinutePasses
  <2>3. b \in BOOLEAN /\ (b => loop[p].pc \in {"poll", "tick", "due", "marked", "waiting"})
    BY <2>1 DEF Serving
  <2>4. loop[p].pc \notin {"tick", "due", "marked"}
    BY <1>1 DEF KeptPace
  <2>5. b => ~stopped'[p]
    BY <1>1
  <2> HIDE DEF b
  <2>6. l \in LoopType /\ l.pc = loop[p].pc /\ l.polled = 0 /\ l.attended = b
    BY <2>1, <2>3 DEF LoopType
  <2>7. 0 <= failures'
    BY <1>2 DEF ClockOK
  <2> HIDE DEF l
  <2>8. Paced(loop[p], failures)'
    BY <2>2, <2>3, <2>4, <2>6, <2>7 DEF Paced
  <2>9. QED
    BY <2>2, <2>5, <2>6, <2>8
<1>4. DOMAIN loop' = Loops /\ loop' = [p \in Loops |-> loop'[p]]
  BY DEF MinutePasses
<1>5. \A o \in Operators : operator'[o].pc = "marking" => operator'[o].day = Day(clock')
  BY <1>1 DEF KeptPace
<1>6. QED
  BY <1>2, <1>3, <1>4, <1>5 DEF PaceInv

\* No loop attends the minute in which the system comes up.
LEMMA InitPaced == ASSUME Init PROVE PaceInv
<1>1. Table[1] \in JobType
  BY SchedulerConstants, TableTyped
<1>2. ClockOK
  BY <1>1, SchedulerConstants DEF Init, ClockOK, Idle, Never, JobType
<1>3. Down \in LoopType /\ Down.pc = "down" /\ Down.attended = FALSE
  BY DEF Down, LoopType
<1>4. ASSUME NEW p \in Loops
      PROVE  Paced(loop[p], failures) /\ (loop[p].attended => ~stopped[p])
  BY <1>3 DEF Init, Paced
<1>5. \A o \in Operators : operator[o].pc # "marking"
  BY DEF Init, Idle
<1>6. DOMAIN loop = Loops /\ loop = [p \in Loops |-> loop[p]]
  BY DEF Init
<1>7. QED
  BY <1>2, <1>4, <1>5, <1>6 DEF PaceInv

\* Every step keeps the pace of prompt loops, however many there are.
LEMMA NextPaced ==
  ASSUME PaceInv, [Next]_vars, Prompt
  PROVE  PaceInv'
<1>1. ASSUME NEW p \in Loops, LoopStep(p) \/ Start(p) \/ Stop(p) \/ FailTick(p) \/ Kill(p)
      PROVE  PaceInv'
  <2>1. CASE Start(p) \/ Serve(p) \/ Wake(p)
    BY <2>1, QuietSteps
  <2>2. CASE Stop(p)
    BY <2>2, StopStep
  <2>3. CASE Poll(p)
    BY <2>3, PollStep
  <2>4. CASE Scan(p)
    BY <2>4, ScanStep
  <2>5. CASE Mark(p)
    BY <2>5, MarkStep
  <2>6. CASE Spawn(p)
    BY <2>6, SpawnStep
  <2>7. CASE EndTick(p)
    BY <2>7, EndTickStep
  <2>8. CASE FailTick(p)
    BY <2>8, FailTickStep
  <2>9. CASE Drain(p) \/ Kill(p)
    BY <2>9, EndStep
  <2>10. QED
    BY <1>1, <2>1, <2>2, <2>3, <2>4, <2>5, <2>6, <2>7, <2>8, <2>9 DEF LoopStep
<1>2. ASSUME NEW o \in Operators, OperatorStep(o)
      PROVE  PaceInv'
  <2>1. CASE \E n \in DOMAIN Table, mark \in BOOLEAN : RunOnce(o, Table[n].key, mark)
    <3>1. \E k \in Keys, mark \in BOOLEAN : RunOnce(o, k, mark)
      <4>1. \A n \in DOMAIN Table : Table[n].key \in Keys
        BY TableTyped DEF JobType
      <4>2. QED
        BY <2>1, <4>1
    <3>2. QED
      BY <3>1, ShellStep
  <2>2. CASE Execute(o) \/ GiveUp(o)
    BY <2>2, ShellStep
  <2>3. CASE MarkManual(o)
    BY <2>3, ManualMarkStep
  <2>4. QED
    BY <1>2, <2>1, <2>2, <2>3 DEF OperatorStep
<1>3. CASE \E n \in DOMAIN runs, state \in {"recorded", "lost"} : EndRun(n, state)
  BY <1>3, JobEndStep DEF EndRun
<1>4. CASE MinutePasses
  BY <1>4, MinuteStep
<1>5. CASE UNCHANGED vars
  BY <1>5, JobEndStep DEF vars
<1>6. QED
  BY <1>1, <1>2, <1>3, <1>4, <1>5 DEF Next

\* Time passes in one action only.
LEMMA OnlyMinutesPass ==
  ASSUME [Next]_vars, clock' # clock
  PROVE  MinutePasses
<1>1. ASSUME NEW p \in Loops, LoopStep(p) \/ Start(p) \/ Stop(p) \/ FailTick(p) \/ Kill(p)
      PROVE  clock' = clock
  BY <1>1 DEF LoopStep, Serve, Poll, Scan, Mark, Spawn, EndTick, Wake, Drain, Start, Stop,
              FailTick, Kill
<1>2. ASSUME NEW o \in Operators, OperatorStep(o)
      PROVE  clock' = clock
  BY <1>2 DEF OperatorStep, RunOnce, MarkManual, Execute, GiveUp
<1>3. QED
  BY <1>1, <1>2 DEF Next, EndRun, vars

\* What AttendedMinuteFires says of one step.
MinuteFires ==
  clock' # clock =>
    \A p \in Loops, n \in DOMAIN Table :
      /\ loop[p].attended
      /\ Minute(clock) = Table[n].at
      /\ Table[n].weekdays_only => Day(clock) \notin Weekend
      => fired[Table[n].key] = Day(clock)

\* A loop that attended a minute polled more often in it than ticks failed, so that one
\* tick of it passed every job.
LEMMA PaceFires ==
  ASSUME PaceInv, [Next]_vars, Prompt, MaxFailures < Polls
  PROVE  MinuteFires
<1> SUFFICES ASSUME clock' # clock, NEW p \in Loops, NEW n \in DOMAIN Table,
                    loop[p].attended, Minute(clock) = Table[n].at,
                    Table[n].weekdays_only => Day(clock) \notin Weekend
             PROVE  fired[Table[n].key] = Day(clock)
  BY DEF MinuteFires
<1>1. KeptPace
  BY OnlyMinutesPass DEF MinutePasses
<1>2. /\ Paced(loop[p], failures) /\ loop[p] \in LoopType /\ failures \in 0 .. MaxFailures
      /\ loop[p].pc \in {"poll", "tick", "due", "marked", "waiting"}
      /\ AllFiredNow \/ loop[p].polled <= failures
  BY LoopPaced DEF Paced
<1>3. loop[p].polled >= Polls
  BY <1>1, <1>2 DEF KeptPace
<1>4. AllFiredNow
  <2>1. loop[p].polled \in Nat /\ failures \in Int /\ MaxFailures \in Nat /\ Polls \in Nat
        /\ failures <= MaxFailures
    BY <1>2, SchedulerConstants DEF LoopType
  <2>2. QED
    BY <1>2, <1>3, <2>1
<1>5. QED
  BY <1>4 DEF AllFiredNow, FiredNow

\* For any table and any number of prompt loops, operators, kills and restarts: if fewer
\* ticks fail in all than a minute has polls, each job of a minute that some loop attended
\* is marked as fired when the minute is over (Scheduler.serve, tick).
THEOREM AttendedMinuteIsFired ==
  ASSUME Prompt, MaxFailures < Polls
  PROVE  Spec => AttendedMinuteFires
<1>1. Init => PaceInv
  BY InitPaced
<1>2. PaceInv /\ [Next]_vars => PaceInv'
  BY NextPaced
<1>3. PaceInv /\ [Next]_vars => [MinuteFires]_vars
  BY PaceFires
<1>4. QED
  BY <1>1, <1>2, <1>3, PTL DEF Spec, AttendedMinuteFires, MinuteFires
=============================================================================
