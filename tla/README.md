# Specifications of the KOSDAQ research program

TLA+ specifications of the stateful parts of this repository: what an operator,
a crash, a second process or a run of bad luck can do to the order book, the
files it is kept in, the scheduler, a replayed session and the stores. Small
instances are checked with TLC; the results that should hold for every instance
are proved with TLAPS. Paths are relative to the repository root; line numbers
are those of the commit that the specifications were translated from, and
`PROJECT.json` maps every definition to its lines.

## The system

The program replays minute bars of a cross-section of stocks through a strategy,
executes its signals on a simulated broker and keeps books of what it did:
orders in a JSONL journal, verdicts in a hypothesis ledger, bars in parquet
files, fired jobs in a JSON map, outcomes and log lines in JSONL streams. It is
one process per command; several commands, and a scheduler that serves for days,
may run at once and meet in those files.

| Component | Source (`src/`) | State | Operations |
|---|---|---|---|
| Simulated broker | `features/execution/infrastructure/simulated_broker.py` | orders, positions, cash, fills, idempotency keys, problems | `submit`, `cancel`, `on_quote`, `apply_fill`, `mark_state_unknown`, `adopt` |
| Order journal | `features/execution/infrastructure/jsonl_journal.py` | a JSONL file | `record_order`, `record_fill`, `replay` |
| JSONL appender | `features/operations/infrastructure/atomic_store.py` | a file of lines | `append`, `read_all` |
| Atomic JSON store | the same | a JSON document, its lock file | `load`, `save`, `mutate` |
| Job scheduler | `features/operations/infrastructure/scheduler.py` | last-fired map, threads, stop event | `tick`, `run_once`, `serve`, `stop`, `drain` |
| Ops alerts | `features/operations/infrastructure/ops_alerts.py` | none | `build_alerts` |
| Operator controls | `features/operations/infrastructure/controls.py` | the kill switch file, the mode file | `engage`, `release`, `guard_submission` |
| Session runner | `app/use_cases/run_session.py` | the entries of one session | `run_session` |
| Backtest | `app/use_cases/run_backtest.py` | the sessions so far | `run_backtest` |
| Strategies | `features/strategy/infrastructure/` | none | `evaluate` |
| Bar store | `features/market_data/infrastructure/parquet_store.py` | a parquet file per symbol and interval | `append_bars`, `load_bars` |
| Replay source | `features/market_data/infrastructure/replay_source.py` | a cached panel | `fetch_bars` |
| Bar quality | `features/market_data/infrastructure/quality.py` | none | `analyze_bars` |
| Hypothesis ledger | `features/hypothesis/infrastructure/json_hypothesis_repository.py` | a JSON array in a file | `record`, `count_tests` |
| Structured logging | `features/operations/infrastructure/logging.py` | `dropped_events`, the ops stream | `log`, `read_log_events` |
| Market rules | `shared/domain/entities/market.py`, `features/execution_realism` | none | `tick_size`, `limit_up_price`, `check_buy` |
| Statistics | `features/falsification` | none | `cluster_by_session`, `drop_worst_session`, and others |
| Rate limits, frozen rules | `features/market_data/domain/rate_limit.py`, `features/preregistration` | none | pure functions, values |
| Wiring, command line | `app/` | configuration | `build`, the commands |

How they interact. `build` replays the journal into a broker (`restore_from`)
before anything else happens. `run_session` asks the source for bars, the
strategy for signals and the broker for executions; every `submit` first asks the
kill switch. The broker writes the journal after it has changed memory. The
scheduler's loop, its job threads and an operator's `run_once` in another process
share the last-fired map through `AtomicJsonStore.mutate`; outcomes go through
the JSONL appender, and the alerts read them back. Collectors append to the bar
store under its lock. Nothing else is locked: the journal and the ledger are not.

What is hard in it, and what makes each part correct:

- **Broker.** Partial fills, several resting orders on the same shares or cash, a
  quote shared by several orders, retries of one intent, reports from outside, and
  a switch that is engaged with orders resting. Correct means: orders never
  overfill, positions, cash and orders are sums over one list of fills, whatever
  rests is covered (but for what a report above its limit costs), an intent is placed
  once, a terminal order is final, and exposure does not grow once the switch is engaged.
- **Journal.** A kill or a refused write between the change in memory and each of
  its records, a line torn half-way, a restart, then more of the same. Correct
  means: the replay is the book, or the book is flagged; nothing a caller was told
  of is forgotten. The code keeps this until a record is appended to a torn one.
- **Atomic store.** Processes that interleave load, change and save; one that fails
  or dies with the lock; a power cut after the rename. Correct means: `mutate` is
  atomic.
- **Scheduler.** A decision read outside the lock, a mark before the run, restarts
  within the minute, ticks that fail, signals. Correct means: at most once a day,
  once if the minute was attended, and a loop that stops when asked.
- **Session.** Signals repeat, entries fill in part or not at all, exits are refused,
  an exception ends it anywhere. Correct means: its report is the book, and nothing is
  sold before it is bought.
- **Bar store.** Two collectors, batches over several files, failures, kills and
  power cuts, directories that cannot be synced. Correct means: merges only, exact
  counts, what returned is durable where its directory could be synced.
- **Ledger.** A read, a check and a rewrite in place, with no lock. Correct means:
  the count of tests is never understated and no hypothesis has two verdicts.
- **Strategies and data.** A view with the future or a repeated row in it, ties,
  zero baselines. Correct means: decisions replay and depend on what the rule says.
- **Replay source.** A panel replaced between the stat and the read. Correct means:
  no stale panel is served.
- **Ops stream and alerts.** Jobs that are killed, missed, or whose outcome is refused,
  torn or swallowed by a torn line; log lines refused by the console or the stream;
  triage. Correct means: a lost run becomes an alert, a job that only fails is always
  reported, a logged incident is stored or counted, and triage only reorders.
- **Backtest.** Sessions that raise, and sessions of unequal numbers of events.
  Correct means: the verdict counts sessions.
- **Market rules.** A limit that lies in another tick band than the close. Correct
  means: what is called feasible can still rise by a tick.

`PROJECT.json` lists these hazards at the lines where they bite, each with the
properties that look at it, or with the reason why none does yet.

## The modules

| Module | Models | Composes |
|---|---|---|
| `SimulatedBroker` | broker and kill switch | |
| `JsonlLines` | the lines of a JSONL file, written and read | |
| `JournaledBroker` | the program: broker, journal, kills and starts | `SimulatedBroker`, `JsonlLines` |
| `AtomicDocument` | abstract: a document with atomic changes | |
| `AtomicJsonStore` | `load`, `save`, `locked`, `mutate` of several processes | implements `AtomicDocument`, by `INSTANCE … WITH content <- document, safe <- onDisk, done <- returned` |
| `Scheduler` | loops, operators, jobs, the clock | uses one atomic step for `mutate` |
| `Selections` | what a comprehension with a condition, and a sort by a key, leave of a list, as operators | |
| `OpsAlerts` | `build_alerts`, its five checks, triage and order, as operators | `Selections` |
| `OpsStream` | the ops stream: jobs, log calls, kills, refused appends, the dashboard | `JsonlLines`, `OpsAlerts` |
| `RunSession` | a session over a new broker, and again over the book it left | `SimulatedBroker` |
| `Backtest` | the run over the days and its verdict | takes the outcomes of `RunSession` as they may be |
| `BarArchive` | abstract: files that change by merges | |
| `ParquetBarStore` | `append_bars` of several collectors | implements `BarArchive`, by `INSTANCE … WITH archive <- stored, safe <- durable` |
| `HypothesisLedger` | `record` of several writers | |
| `CrossSection` | the strategies over a growing panel | `Selections` |
| `BarQuality` | the quality report on a panel of any rows | |
| `ReplaySource` | the panel cache of several sources | |
| `PriceLimits` | the tick ladder, the daily limit and `check_buy` | |
| `MCDocuments` | an instance of `AtomicJsonStore` and one of `HypothesisLedger` | both |
| `MCData` | an instance of each of what is computed from bars | `CrossSection`, `BarQuality`, `ReplaySource`, `Backtest`, `PriceLimits` |

`MC<module>` gives a module its instance for TLC, `<module>_proof` its theorems.
`SimulatedBroker_proof`, `OpsStream_proof` and `Data_proof` rest on the lemmas of
`Collections_proof` about sums and selections; `Documents_proof` has the theorems of
`AtomicJsonStore` and of `HypothesisLedger`, `Data_proof` those of `CrossSection`,
`ParquetBarStore`, `ReplaySource`, `BarQuality`, `PriceLimits` and `Backtest`.
`MCDocuments` and `MCData` put components that share nothing into one run and explore
them one at a time: a step of one is taken only while the others are where they began,
so the states are those of the parts, and none of their products. A definition
named `<definition>_<error>` is a wrong form of the one that follows it, as a bug
in the code might make it: each shows that some property would notice.

### Broker

State is the fields of `SimulatedBroker.__init__` and the quote being served.
Every method runs in one thread and is one action, except that a quote is served
one fill at a time: `Accept` (with a quote) and `OnQuote` open the quote and
`Serve` gives it to the next order it fills, until no order is left; no other
operation starts in between, as none can in the code. This keeps one action one
fill, which is what the journal needs. The loop of `on_quote` walks a snapshot of the
orders, hence `quote.from` and the order of `queue`. Shares are integers in units of
`1/Lot` share and prices are integers, so `_EPSILON` plays no part.
`Refused` submissions change nothing, so they have no action, except in a session,
which they end. `Report` is `apply_fill` called from outside, at any price: only the
broker's own fills are at a limit at most.

### Journal and recovery

An operation of the broker changes memory and then writes one record per order
transition and one per fill (`Recorded`), each in a step of its own. A kill or a
refused write may come at each; what an interrupted write leaves is nothing, the
record, or a part of it, perhaps cut inside a character. `Restart` is
`wiring.build`: it reads the lines back, replays them and adopts the result. The
model has one process; the ghost variables `placed`, `flagged` and `behind`
remember what callers were told, what a start found and whether a record was
refused in this run.

### Atomic store and scheduler

`mutate` is five steps under the lock, with failures and kills at each, and a
power cut that brings back what was on disk. Since it implements `AtomicDocument`,
`Scheduler` may mark the map in one step, and the scheduler's own steps
(`Scan`, `Mark`, `Spawn`) are those of `tick`. Time is a count of minutes; a tick
carries the moment it began at. `drain`, the daemon threads that die with their
process, operators that mark or do not, and jobs that never end are there.

### Ops stream

`OpsStream` takes from `Scheduler` only that a job is fired at its instant of a day, at
most once. A run ends with an outcome that is appended (`Complete`), refused
(`Unrecorded`), or cut off by a kill (`KillRecording`), or is killed before (`Kill`). A
log call goes to the console, if its level is shown, and to the stream, if it looks like
trouble; each may refuse it, and each refusal is counted (`Log`). `Init` may begin on a
stream with an earlier day's outcome. The dashboard is looked at as each
instant begins; `raised` remembers which of the `lost` runs the silence check has told it
of. `ended`, `lost`, `raised` and `calls` are ghosts. `OpsAlerts` has no state: each check is
an operator of what it is given, and `BuildAlerts` joins and ranks them. What the code selects
with a comprehension is a set of places in the list (`Selected`), and its sort by `sort_key` the
six groups of equal keys one after the other (`Ranked`), which is what a stable sort is. Symbols
are numbers, as the code sorts positions that are equally overdue by symbol.

### Session

`RunSession` walks `run_session` step by step: evaluation, each signal, the fills
of each submission, then the exits. What a strategy says is any sequence of the
instruments it was shown. Panels are constants, so TLC takes every one of a set.
`RunAgain` begins the session again, after it ended, raised or died at any point between two
operations of the broker, over the book that is there: its tables are empty, and the
orders, keys, positions and cash are those it left, as a start from the journal finds
them. `left` remembers the positions of that moment, and `stamps` the bar time of each fill, which
`_quote_from` gives the quote and `apply_fill` the `Fill`: bar times, not the order of the
steps, are the clock on which a session's trades are judged.

### Backtest

A session reports a net, ends in a `ValueError`, which `run_backtest` takes for a day
without bars, or in another exception, which it does not catch (`ReplayDay`,
`SkipDay`, `AbortedDay`). `Judge` is `_judge` after `cluster_by_session`. Means and the
t-statistic are compared exactly, over integers: the means are in parts of `Unit`, which
every number of events in a session divides (`BacktestConstants`), and the square of t is
compared with that of the bar.

### Stores, strategies, data

`ParquetBarStore` has a step per file staged and per rename, and one for the syncs of
the directories: `_fsync_dir` suppresses its errors, so any of them may stay unsynced and the
append returns all the same (`SyncDirs`). `staged` holds the merged contents to be published,
`renamed` the files that are, `synced` the directories that could be synced; the ghost `grown`
has the bars that each rename really added, and `promised` those of returned appends in synced
directories. The local variables of a call end with it (`Ended`). `HypothesisLedger` has the
truncation and the write as separate steps, and any remains of a write that was cut off or
went over another. `CrossSection` builds the panel row by row, so that what was said earlier can be asked again.
`BarQuality` adds any row to a panel, so that every panel up to the bound is a state,
and the report is a function of it. `ReplaySource` numbers the versions of a file by its
mtime and size. `PriceLimits` asks `check_buy` of every price of the grid around a limit;
prices are integers, for which thirty per cent above a close never is the bound of a
band, so that the `1e-9` of the code gives the exact quotient.

## What the runs check

Runs whose expectation is *violation* check a sentence of the repository that its
code does not keep; TLC's trace is the evidence.

| Run | Instance | Shows |
|---|---|---|
| `broker` | 3 orders, 2 instruments, 1 intent key, 8 kinds of order, 4 quotes, 2 reports, one of them above the limit of a buy, cash 4 | the nine properties of the broker |
| `journal` | 2 orders, 1 instrument, 3 kinds of order, 2 quotes, 2 kills or refused writes, torn lines | replay, soundness and coverage of a restored book, and a discrepancy found again; what a torn record costs, until something is appended to it |
| `journal_torn_intent` | the same | *violation*: a placed order is forgotten (`order.py:98`) |
| `documents` | 3 processes, 3 changes, power cuts; 2 writers, 3 hypotheses, deaths anywhere | `mutate` implements `AtomicDocument` and no returned mutation is lost; the ledger's count is right unless writers overlapped, with one verdict each |
| `scheduler` | 1 loop, 1 operator, 2 jobs of one minute, 2 days, 1 kill, 1 failed tick | once a day, marked, fired if attended, ends if stopped |
| `scheduler_two` | 2 loops, 1 job | *violation*: both fire it (`scheduler.py:86`) |
| `ops` | 2 processes, 1 daily job, 4 days, silence of 2 days, 1 log call, 1 fault | why a lost run may go unreported, that a failing job is always reported, that incidents are stored or counted, that triage only reorders |
| `ops_lost_run` | the same | *violation*: a lost run is never raised (`scheduler.py:24`) |
| `session` | 500 panels of 2 instruments and 4 bars, any signals, the switch at any moment, 2 runs over one book | the report is the book; one entry of the given size; nothing sold before it is bought; the causes of lost exits |
| `session_switch` | the same, 1 run | *violation*: the switch stops liquidation (`controls.py:7`) |
| `bar_store` | 2 collectors, 3 overlapping batches, 3 files in 2 directories, 2 minutes | implements `BarArchive`; counts are exact; what returned is durable where it could be synced |
| `data` | 2 instruments, 3 instants, 3 rows each; all panels of up to 4 rows of 2 days; 2 sources, 4 versions; all backtests of up to 6 sessions; the prices around the limit of closes at every band's bounds | replay, repeated rows; a clean report is a whole panel; no stale panel; the verdict counts sessions; feasible leaves a tick |

Why the bounds are enough. Three orders are the least with which two resting orders
compete for what a third one brought in; two are enough for an intent placed
twice, and for a sell of what a buy bought. Two faults are the least with which a
record is torn and the start after the one that follows it is a start too. Three
processes let two of them interleave inside a third one's mutation. In the
scheduler two days are enough for a mark to be wrongly kept or wrongly re-armed, two
jobs in one minute for one to be skipped because of the other. Three bars and one of
the next day give a session a step with no bar behind it, one in the middle and a
last one. Three batches over three files hold a repeated minute, a replaced bar and
a file in common, and two directories a batch of which one is synced and the other not. Panels of four rows on two days of a session of two minutes
hold one whole panel of one-minute bars and its every near miss. Two runs of a session
are enough for the second to meet what the first left. Four days with a silence of two hold a
lost run, the two days in which its alert is due, and one after; one fault is one lost run
or one torn line, and the outcome or log line after it is the one that it swallows. Six
sessions are one more than the least sample that is judged, with three nets that make ties,
zero dispersion and both signs, and `Unit` is the least common multiple of 1 to 7. The closes stand on both sides of every bound of the
ladder and of the closes whose limit crosses one.
The bounds that are not of the system are named and stand in the guards:
`MaxFaults`, `MaxClock`, `MaxManual`, `MaxKills`, `MaxFailures`, `MaxVersions`,
`MaxRows`, `MaxTime`, `MaxPanel`, `MaxRuns`, `MaxSignals`, and `LastDay` of the backtest.
Deadlock is not checked: in every module the
system may stop (all orders done, bounds reached, a session over).

### Fairness

Only `Scheduler` claims liveness. `FairSpec` has weak fairness of `LoopStep(p)`
of every loop: a process that can run is scheduled, `stop_event.wait(poll_seconds)`
and `drain` end after their timeouts. Jobs may hang, operators may do nothing and
no process need be started, so none of that is fair. `AttendedMinuteFires` is not a
liveness property: `Prompt` and `Polls` say that a tick does not outlast its
minute and that a loop which sleeps 20 seconds polls at least twice in a minute,
and `attended` is true of a minute only if the loop served through all of it. The
instance has one failing tick per run, so one poll of the minute is left.
`Prompt` also bears on safety: with `Prompt = FALSE` the same instance violates
`RunsAreMarked`, since `_mark_fired` writes whatever day its caller began on and a
`run_once` delayed past the next day's run puts an earlier day over a later one.

## What is proved

| Theorem | Says, for every value of the constants |
|---|---|
| `SimulatedBroker_proof!TypeCorrect` | the broker's state keeps its shape, with no negative fill |
| `SimulatedBroker_proof!NeverOverfilled` | no order is filled past its quantity, and its state says how far it is |
| `SimulatedBroker_proof!IntentPlacedOnce` | at most one accepted order carries a key |
| `SimulatedBroker_proof!TerminalOrdersAreFinal` | no operation changes a terminal order |
| `SimulatedBroker_proof!NoShortPosition` | the shares held cover all working sells together |
| `SimulatedBroker_proof!BuysArePaidFor` | the cash, where enforced, covers all working buys at their limits, but for what reports above a limit cost beyond it |
| `SimulatedBroker_proof!HaltAddsNoRisk` | after the switch or a flag no step raises what may be held |
| `SimulatedBroker_proof!AccountsAgree` | orders, positions and cash are sums over the fills |
| `SimulatedBroker_proof!SharedQuoteSuffices` | a quote gives no more than it offered |
| `SimulatedBroker_proof!ServedInOrder` | a quote fills no order while an earlier marketable one works |
| `JournaledBroker_proof!RestartRebuildsBook` | while no record was refused in this run, what was written replays to the book in memory (*) |
| `JournaledBroker_proof!RestartedBookIsSound` | a book no start flagged is not overfilled, has each intent once and positions that are its fills |
| `JournaledBroker_proof!RestoredBookIsCovered` | it covers its working orders, while no record was ever refused (*) |
| `JournaledBroker_proof!DiscrepancyStays` | what one start flags every later start flags, while no record was ever refused (*) |
| `JournaledBroker_proof!TornRecordIsSurvived` | a torn last line costs no order a caller was told of (*) |
| `RunSession_proof!ReportIsTheBook` | what a run reports to hold is what the book has beyond earlier runs |
| `RunSession_proof!EntriesWithinNotional` | an instrument's entry costs no more than the notional |
| `RunSession_proof!DuplicatesAreKnown` | a duplicate has one of two causes, and no exit is one |
| `RunSession_proof!NothingSoldUnbought` | by any bar time, what was sold of an instrument had been bought, purchases of the next day apart |
| `RunSession_proof!FractionsAreStranded` | an entry with a part of a share is reported whole, never sold in part |
| `Documents_proof!ReturnedChangesAreKept` | no returned mutation is lost, power cuts apart |
| `Documents_proof!MutateIsAtomic` | the store implements `AtomicDocument` |
| `Scheduler_proof!OneLoopFiresOncePerDay` | one prompt loop runs a job once a day at most |
| `Scheduler_proof!LoopRunsAreMarked` | every run the loop began is on the map |
| `Scheduler_proof!AttendedMinuteIsFired` | with any number of loops, a job of an attended minute is fired |
| `Documents_proof!VerdictsAreUnique` | no hypothesis has two rows, however writers overlap |
| `Documents_proof!LedgerCountsEveryTest` | without overlap, a ledger that can be read holds every recorded verdict |
| `Data_proof!ReplaysRepeat` | an instant replayed over the panel that later bars came to repeats what was said |
| `Data_proof!RepeatedRowsAreNoticed` | with a row repeated the rule answers what it would without it, or raises |
| `Data_proof!VerdictsCountSessions` | the events of a session count as one, and the figure without the best session is no higher |
| `Data_proof!NoStalePanelIsServed` | a served panel was in place during the call |
| `Data_proof!CleanReportsAreWhole` | the report is clean exactly when the panel is whole |
| `Data_proof!FeasibleBuysLeaveATick` | a buy is refused as locked exactly when no price of the grid is left |
| `Data_proof!AppendsAreCounted` | an append returns the number of bars it added |
| `Data_proof!AppendedBarsStay` | a bar whose append returned stays stored, power cuts included, if its directory could be synced |
| `Data_proof!AppendsOnlyMerge` | the store implements `BarArchive` |
| `OpsStream_proof!NothingIsSilentlyLost` | a log call is stored or counted, whoever dies, while no torn line was appended to |
| `OpsStream_proof!HiddenLossesAreExplained` | an unreported lost run was followed in time by one that ended, or the stream cannot be read |
| `OpsStream_proof!LostRecordsHideNoFailure` | a job without a success for `silence_days` is reported, whatever was lost |
| `OpsStream_proof!TriageSuppressesNothing` | the triaged list has the same findings, open above triaged, severe above less severe |

(*) For a journal that is `Intact`: no record was appended to one that was torn or had lost its
newline, and none was cut inside a character. Nothing of this is claimed of other journals, and
the code does not keep it for them: `journal_torn_intent` forgets an order, and the same way a
discrepancy is forgotten. A `PARTIALLY_FILLED` record left without its newline, its execution
kept from the journal by a kill, flags the start; a cancel of that order is then appended to
that line, and the next start skips it as a torn one and finds the rest sound.
`RestartedBookIsSound` alone asks nothing of the file.

Assumptions are the named `ASSUME`s of the modules (`BrokerConstants`,
`SessionConstants`, `StoreConstants`, `SchedulerConstants`, `LedgerConstants`, `VersionBound`,
`BarStoreConstants`, `JournalConstants`, `QualityConstants`, `LimitConstants`, `StreamConstants`,
`AlertConstants`, `CrossSectionConstants`,
`BacktestConstants`), which TLC
evaluates on its instances (that of the broker asks for a finite set of order ids, as an
`OrderId` is minted per submission and sums are over the orders there are), and what stands
in the theorems themselves. For the scheduler that is `Prompt` and, for
once a day, a single loop: with two loops `scheduler_two` refutes the claim. An attended
minute fires with any number of loops, if fewer ticks fail than a minute has polls
(`MaxFailures < Polls`); if every poll of the minute may fail, nothing is left to fire its jobs.

The arguments:

- *Broker*: `IInv == TypeOK /\ StateMatchesFilled /\ KeysAreRegistered`. That one
  intent is placed once does not follow from itself: the next acceptance is stopped
  by the key's entry in `keys`, so the invariant says that every accepted order with
  a key is the one registered under it. `TerminalIsFinal` needs
  `StateMatchesFilled`: a fill goes to a working order only because a filled one
  has nothing left.
- *Sums*: what is committed, held or spent is a sum of a function over a finite set.
  `Collections_proof` proves how such a sum changes when the function changes at one point
  (`SumChange`) or gets one more (`SumExtended`), that it is a sum over the places that
  count (`SumWhere`), monotonic and linear (`SumIsMonotonic`, `SumScaled`). There being no
  induction over an operator, each is an argument by a least counterexample: the
  recursion of the library's fold is unfolded on a subset of least cardinality for which the
  claim fails.
- *Cover*: `CoverInv == IInv /\ FillsAreOfKnown /\ SharesCovered /\ BuysAreLimited /\
  CashCovered`. A fill lowers the position and what the sell has left by the same amount
  (`SumChange`). An order accepted under cash enforcement has a limit (`BuysAreLimited`), so
  that a fill frees its quantity at that limit and costs it at its price; where the price is
  higher, as only a report's can be, the difference is added to `Overpaid` in the same step
  (`OverpaidStep`). For that no limit of a filled order may change, which is what
  `FillsAreOfKnown` is for: an id is accepted once. In the journal and in a session nothing is
  reported, and the cash covers the buys (`CashSuffices`). `NoNewRisk` needs that
  fills of a buy raise the position by what they take from its remainder, so that the sum of
  both is what a step may not raise.
- *Accounts*: `IInv /\ BooksAgree`. A fill extends the list by one, so that every sum over it
  gains one term or, for the other orders and instruments, none.
- *Quotes*: `QuoteInv == IInv /\ QueueInv /\ PoolInv /\ PassedInv /\ TimePriority`. `PoolInv` is an
  equation, taken plus left is offered; `PassedInv` says that the loop leaves nothing behind
  that it could still fill, and that every fill of the quote is of a place it has passed.
- *Session*: `SessionInv == BookInv /\ RunInv`, twelve named parts. Those of the book: every
  order is an entry of some evaluation or the exit of an instrument that was entered
  (`OrdersInv`), a key is held by an accepted order of its leg (`LegsInv`), and every buy is an
  execution of the one accepted entry at the open of its bar (`FillsInv`). Those of the run:
  a quote is served only while the run waits for it, and only to the order that brought it,
  the last in the queue (`ServedInv`, `WaitingInv`); what is still to be handled, what was
  entered and in which order (`TodoInv`, `EntriesInv`); what is held is what earlier runs
  left and what this one has (`HeldInv`); in a first run an entry is what its order filled
  and no order is of an evaluation still to come (`FirstRunInv`). The causes of a duplicate
  follow from `FirstRunInv` and `LegsInv`; the notional, from `FillsInv` and the sums, as all buys of
  an instrument have one price. `ClockInv` adds the bar times: every sale is stamped with the
  last bar of its instrument in the session, every purchase with a bar that is not after it, or
  with one of the next day. Before that bar the instrument is only bought, then, and from that
  bar on all of its fills count, whose sum is the position (`BooksAgree`), which is never short
  (`SharesCovered`).
- *Journal*: `JInv == StoreInv /\ BookInv /\ RecordsInv /\ RebuildInv /\ PlacedInv`. While
  nothing was refused in this run, memory is what a replay gives once the records that are
  still to be written are (`RebuildInv`), and no two records contradict each other about an
  intent (`RecordsInv`), so that a start over any of these files gives a sound book. For cover,
  `FaithfulInv` says that the book of the journal, the one in memory and the one between them
  are *fair*: no order has more executions than it says, every execution is of an order that is
  known, and the book covers its orders unless an order says more than its executions. Such an
  order, whose execution a kill kept from the journal, never catches up, since each later
  fill raises both by the same amount: hence a flag is never covered up
  while every record stands on a line of its own (`DiscrepancyIsNotForgotten`), and a book
  without one is covered. `Replayed` is one fold over the records; that one record more is one
  application more is shown by its unfolding.
- *Quality report*: nothing is kept, so the argument is arithmetic. The report compares numbers:
  rows, days times bars of a day, rows of a day outside the session, rows repeated. If no day
  is short, no minute is repeated and none is outside, the minutes of a day are as many as the
  bars of a session and among them, hence the same; and conversely. Sums over the days and
  cardinalities (`FS_Surjection`, `FS_Subset`, `FS_Product`) carry it to panels of any length.
- *Price limits*: the bounds of the ladder's bands are multiples of the ticks on both
  their sides, so that what is floored with the tick of its band stays in the band, and the
  limit is the greatest price of the grid that is not above thirty per cent over the close.
- *Atomic store*: `IInv == TypeOK /\ LockIsExclusive /\ CopyIsCurrent /\ NoUpdateLost`.
  A rename loses nothing because the copy being renamed was loaded under a lock that
  nobody else can have taken since, so it is the document, or the document with the
  change. Each step is then a step of `AtomicDocument` or changes none of its
  variables: `Replace` applies, `Finish` returns, `Writeback` persists.
- *Scheduler*: `IInv == TypeOK /\ WorkIsOfToday /\ DueIsUnfired /\ RunsAreMarked /\
  FiresOncePerDay`. `WorkIsOfToday` is what promptness gives: a tick or an operator's
  mark belongs to the day of the clock, so no mark replaces a later day.
  `DueIsUnfired`: between the mark and the spawn no run of that key and day exists.
  The other direction has an invariant of its own, `PaceInv`: a tick has fired the jobs of
  this minute that it passed, no mark of anybody takes one back, and a loop that has attended
  so far either sees all jobs of the minute fired or has had a failure for every poll of it.
- *Ledger*: `LedgerInv == LedgerTypeOK /\ RowsAreDistinct /\ LoneWriterIsCurrent /\
  CountIsNotUnderstated`. `RowsAreDistinct` is about the file and about what every
  writer has read: a write puts the rows it read back with one that is not among them, so
  they stay distinct whatever happened in between. `LoneWriterIsCurrent`: while no
  writers overlap, what the one that is at work has read is what the file held, so that what
  it writes back forgets nothing.
- *Strategies*: `StrategiesInv` says that rows are of the time at which they were loaded, and
  that what was said was said earlier, or now when no row is loaded any more. A row that is
  loaded is then later than every instant that was decided, and outside its view
  (`LaterRowIsNotSeen`, `ViewIsThatOfTheInstant`); what is answered depends on the view alone,
  whatever the generator draws. A repeated row is in the view next to itself, since a
  selection lists its places in ascending order (`RepeatedIs`), and two neighbours of one
  time are what the guard refuses (`RepeatIsNotUsable`).
- *Backtest*: `BacktestInv` says that a day reports once, in order, so that a session is one
  event (`MeanOfOne`). Repeated or split it is two, with twice the net together
  (`SpreadIsInTwo`, `MeanOfTwo`): every session keeps its mean (`MeansInTwo`), and the verdict
  is a function of the means. Without the best session the others keep theirs too (`RestIs`),
  and the sum of all is no more than the best for each (`SumIsBounded`).
- *Replay source*: `SourceInv == SourceTypeOK /\ NothingComesBack /\ CacheIsNotStale /\
  ServedWasInPlace`. A panel is kept under the key that was read before it, so that it
  is never older than its key; as no version comes back, a key that equals the file's
  now has a panel that is in place now.
- *Bar store*: `StoreInv == StoreTypeOK /\ LockIsHeld /\ StagedIsMerge /\ CountIsKept /\
  SyncedIsDurable /\ AppendedIsDurable`. Because only the holder of the lock renames, what
  it has staged is still the merge with the file (`StagedIsMerge`). The count is fixed
  when files are staged and the bars appear when they are renamed, so `CountIsKept`
  counts what was added (`grown`) with what the renames to come will add (`Pending`).
  That a power cut takes nothing back which was promised needs a directory that could be
  synced to hold, on disk and before the return, every bar of the batch that is in it
  (`SyncedIsDurable`).
- *Ops stream*: `CountedInv == StreamTypeOK /\ LossesAreCounted`. If a file has no line of two
  pieces after an append, the append began a line of its own, so the file before it had none
  either and what was stored in it still is (`AppendedFile`, `Extends`). A process that is killed
  takes its calls and its count with it; a call that the stream refuses raises the count by at
  least what it adds to the losses.

  For the reports, `ReportInv` says that each outcome that begins a line is that of a run that
  ended (`RecordsEnded`), that runs end and are lost at the instant they do, and the property of
  hidden losses. No append makes a line begin with anything but what it writes, nor a file
  readable that was not (`Grown`), so whatever is read as an outcome is in `ended`
  (`OutcomesEnded`), and an append can only hide a loss by what it stands for. The instant at
  which a loss is to be reported is the one at which `now` passes `at + Patience`: if the silence
  check says nothing then, it has read an outcome that is recent, and so one that came after the
  loss (`TickHidesNothing`).

  That a finding is in the list is a chain of lemmas about the operators: a finite set of places
  has an order (`PlacesInOrder`), a selection keeps its members (`SelectedIs`), a list that is
  joined from the groups of another has the length, the members and the order of a stable sort
  (`NextGroup`, `RankedIs`). The findings with and without triage differ in their status only,
  place by place (`AllFoundIs`), and so the two lists have the same findings (`TriageReorders`).

Each of these invariants was checked with TLC before it was proved. Every property of a
passing run but one is the statement of a theorem. What TLC checks and no theorem states:

- `StopEndsLoop`: liveness under fairness, and `ENABLED`, are out of this prover's reach.
- What a recursive definition or a fold computes is out of reach in general. Finite sums and
  the replay of the journal are covered, by arguments of a least counterexample over subsets or
  prefixes, which need no induction over an operator.

## Where code and documentation differ

Four sentences are refuted by a run, quoted under `findings`:

1. `journal_torn_intent`: the appender continues a torn line, so the first order
   accepted after a crash and a start is written into garbage, which the start after
   that skips as a torn final line. Its intent can be placed again.
2. `scheduler_two`: `is_due` reads the map outside the lock; firing is not
   cross-process safe.
3. `session_switch`: the exits of a session go through `submit`, which the switch
   refuses; the switch stops liquidation.
4. `ops_lost_run`: silence is the absence of any outcome for `silence_days`, so the
   next day's outcome hides a run that was killed or missed, and no alert is raised for it.

Others were met while modelling. They have no run of their own; the property named
holds, and its condition or wording marks where the promise ends:

- One more record after the lost one makes the torn line an inner one, and
  `read_all` raises on the file from then on; a record cut inside a multi-byte
  character raises `UnicodeDecodeError` (`TornTailCostsOneRecord` holds only while
  the file is `Intact`).
- After a refused write memory is ahead of the journal, the sell it covers is
  recorded, and after a restart its fill can leave a short position without a flag
  (`UnflaggedBookIsCovered` needs `refusals = 0`); a later fill may then also cover a
  discrepancy up (`DiscrepancyIsNotForgotten` needs it too).
- A record that continues a line without its newline takes that line's record out of the next
  replay, and with it a discrepancy that only this record showed (`DiscrepancyIsNotForgotten`
  asks for a file that is `Intact`).
- `apply_fill` checks the price of an execution for being positive only: one above the order's
  limit spends cash that other buys were accepted against (`CashCovered` allows for `Overpaid`).
- A duplicate report of a partial fill is a new fill to `apply_fill`, which is given no
  execution id.
- `append_bars` returns the same whether its directories could be synced or not, so a caller
  cannot know whether its bars survive a power cut (`AppendedIsDurable` is about those in synced
  directories).
- `AtomicJsonStore.save` does not sync the directory it renames in: a power cut can
  take back a mutation that returned (`NoUpdateLost` counts from the last power cut).
- `serve` begins by clearing the stop event, so that a stop before it is erased
  (`StopEndsLoop` says "while it serves").
- A flag set by `mark_state_unknown` is in no record of the journal, so a start forgets it.
- A torn record of a job's outcome takes the outcome after it along, and a torn log line
  a log line whose append returned (`LossesAreCounted` asks for a file that is `Intact`;
  `UnsuccessfulJobIsReported` holds without, and `HiddenLossHasItsCause` for a file that can
  be read).
- A session run again over its book raises a duplicate on the first instrument that
  both runs enter at the same step or with the same key, and does not know the positions of
  the first (`DuplicateMeansRestingEntry`, `ReportMatchesBook`).
- `_NullJournal` says that a backtest writes nothing durable
  (`run_backtest.py:36`), but each of its sessions appends its bars to the store.
- A symbol that is signalled again after an accepted entry that did not fill ends the
  session in an exception (`DuplicateMeansRestingEntry` says that this is the only
  way).
- An entry of a session's last step is executed on a bar of the next day and exited on
  the last bar of this one. Bars are stamped with their opening time, so the view of a
  signal holds the whole of the bar that opens at its instant, and the fill is at the
  opening at which that bar closes (`SoldAfterBought` excepts the instruments bought on the next
  day, and only these).
- A tenth of a thin bar's volume fills part of a share, which cannot be sold
  (`FractionIsStrandedWhole`).
- When a rename of a batch fails, the files renamed before it stay published, as the text
  of `append_bars` concedes and its `:raise` line ("with nothing published") does not
  (`MergesOnly` is per file; `CountIsExact` is about appends that returned).
- Two writers of the ledger that both read lose a row, and a writer killed between
  truncation and write leaves no ledger (`CountIsNotUnderstated` holds unless they
  overlapped, and of a ledger that can be read).
- `expected_bars_per_session` rounds down although a session counts both ends, so for
  an interval that does not divide it one missing bar a day is not reported
  (`CleanMeansWhole` asks for a divisor).
- "Any condition that cannot be evaluated counts against feasibility"
  (`fill_feasibility.py:53`), but `check_buy` passes over the order of signal and price
  when one of the times is unknown (`FeasibleLeavesATick` asks nothing of them then).

## Not modelled

- `beta_separation`, the corrected bar of `multiplicity` and `participation_rate`:
  regressions, inverse normals and quotients in floating point, with no state and no value
  that integers stand for. Rate limits are three pure functions without a caller, and a
  frozen rule is a value that nothing changes.
- Formatting, logging's wording, the command line and the parsing of frames are left out,
  as are average prices, float rounding and `_EPSILON`, file modes, line separators other
  than newline inside a record, and the directory entry of a new directory.
- `FileTradingMode` is one save and one load that nothing consults.
- `flock` held by a suspended process blocks its callers for good by definition.
- Two programs on one journal: `cmd_run` is the only command that submits orders to it; the
  others build a broker from it, or use throwaway journals. Two runs at once would each
  append to the journal without knowing the other's orders; `JournaledBroker` has one program.
- The scripts that generate sample data and figures are not part of the running program.

## Plan

Done, in this order: broker, journal, atomic store, scheduler, session, the stores, the
data, the ops stream with its alerts, the backtest, the price limits. Runs are few on
purpose: one per question, with the properties of a module in one instance. What is left:

1. `RunSession` over `JournaledBroker`: the second run of a session on the journal that
   a kill left, instead of on the book.
2. Two programs on one journal.
3. A session that fetches its symbols one by one from `ReplaySource` while the panel is
   replaced.
4. The lock of the bar store as a module of its own, which the atomic store shares, with its
   exclusion proved once.
