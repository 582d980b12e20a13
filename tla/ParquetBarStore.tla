--------------------------- MODULE ParquetBarStore ---------------------------
(***************************************************************************)
(* The bar store: one file per symbol and interval, and collectors that    *)
(* append batches to it.  append_bars takes the store's lock, writes the   *)
(* merged content of every file the batch touches to a temporary file,     *)
(* renames these into place one after the other and syncs the directories; *)
(* it returns also when a directory cannot be synced.                      *)
(*                                                                         *)
(* A file is a function from the minutes it may have a bar for to the bar, *)
(* or NoBar.  What a power cut would leave of it lags behind what readers  *)
(* see until its directory is written back or synced.                      *)
(*                                                                         *)
(* Definitions named <definition>_<error> are wrong forms of the one that  *)
(* follows: each shows that a property fails when the code has that error. *)
(***************************************************************************)
EXTENDS Integers, Sequences, FiniteSets, FiniteSetsExt

CONSTANTS
  FileOrder,  \* the files, in the order a batch is written in
  Directory,  \* the directory each of them is in
  Stamps,
  Bars,       \* what a bar of one minute may be
  NoBar,
  Batches,    \* what collectors append: sequences of bars with their file and minute
  Procs, Nobody, NoBatch

Files == {FileOrder[n] : n \in DOMAIN FileOrder}

ASSUME BarStoreConstants ==
  /\ FileOrder \in Seq(Files) /\ \A m, n \in DOMAIN FileOrder : FileOrder[m] = FileOrder[n] => m = n
  /\ IsFiniteSet(Stamps)
  /\ NoBar \notin Bars /\ Nobody \notin Procs /\ NoBatch \notin Batches
  /\ Batches \subseteq Seq([file : Files, at : Stamps, bar : Bars])

VARIABLES
  stored,    \* each file, as readers see it
  durable,   \* each file, as a power cut would leave it
  holder,    \* who holds the lock
  pc,        \* where each collector is in append_bars
  batch,     \* the batch it appends
  staged,    \* the content it has staged, of some files of the batch
  renamed,   \* those of them it has renamed
  added,     \* the count it will return
  synced,    \* the directories it has synced after its renames
  grown,     \* for the properties: where its renames put a bar that had none
  promised   \* and the file and minute of the bars of appends that returned, in directories they synced

vars == <<stored, durable, holder, pc, batch, staged, renamed, added, synced, grown, promised>>

Contents == [Stamps -> Bars \cup {NoBar}]

\* The minutes that have a bar in rows and none in old.
NewStamps(old, rows) == {t \in Stamps : rows[t] # NoBar /\ old[t] = NoBar}

Touched(b) == {b[n].file : n \in DOMAIN b}

\* Of some files, the one that is written first.
First(F) == FileOrder[Min({n \in DOMAIN FileOrder : FileOrder[n] \in F})]

\* Of several bars of one minute the last one counts.
Incoming(b, f) ==
  [t \in Stamps |->
     LET at == {n \in DOMAIN b : b[n].file = f /\ b[n].at = t}
     IN IF at = {} THEN NoBar ELSE b[Max(at)].bar]

Merged(old, rows) == [t \in Stamps |-> IF rows[t] # NoBar THEN rows[t] ELSE old[t]]

NewRows_All(old, rows) == Cardinality({t \in Stamps : rows[t] # NoBar})

NewRows(old, rows) == Cardinality(NewStamps(old, rows))

Begin_Unlocked(p, b) ==
  /\ pc[p] = "idle"
  /\ holder' = p
  /\ pc' = [pc EXCEPT ![p] = "staging"]
  /\ batch' = [batch EXCEPT ![p] = b]
  /\ staged' = [staged EXCEPT ![p] = <<>>]
  /\ renamed' = [renamed EXCEPT ![p] = {}]
  /\ added' = [added EXCEPT ![p] = 0]
  /\ grown' = [grown EXCEPT ![p] = {}]
  /\ UNCHANGED <<stored, durable, synced, promised>>

\* An append of a batch, or another attempt at one that failed.
Begin(p, b) ==
  /\ pc[p] = "idle"
  /\ holder = Nobody
  /\ holder' = p
  /\ pc' = [pc EXCEPT ![p] = "staging"]
  /\ batch' = [batch EXCEPT ![p] = b]
  /\ staged' = [staged EXCEPT ![p] = <<>>]
  /\ renamed' = [renamed EXCEPT ![p] = {}]
  /\ added' = [added EXCEPT ![p] = 0]
  /\ grown' = [grown EXCEPT ![p] = {}]
  /\ UNCHANGED <<stored, durable, synced, promised>>

\* The next file of the batch is read, merged, counted and written beside itself.
StageFile(p) ==
  LET left == Touched(batch[p]) \ DOMAIN staged[p]
      f == First(left)
      rows == Incoming(batch[p], f)
  IN /\ pc[p] = "staging" /\ left # {}
     /\ staged' = [staged EXCEPT ![p] =
          [g \in DOMAIN @ \cup {f} |-> IF g = f THEN Merged(stored[f], rows) ELSE @[g]]]
     /\ added' = [added EXCEPT ![p] = @ + NewRows(stored[f], rows)]
     /\ UNCHANGED <<stored, durable, holder, pc, batch, renamed, synced, grown, promised>>

AllStaged(p) == pc[p] = "staging" /\ DOMAIN staged[p] = Touched(batch[p])

Publish(p) ==
  LET left == Touched(batch[p]) \ renamed[p]
      f == First(left)
  IN /\ AllStaged(p) /\ left # {}
     /\ stored' = [stored EXCEPT ![f] = staged[p][f]]
     /\ renamed' = [renamed EXCEPT ![p] = @ \cup {f}]
     /\ grown' = [grown EXCEPT ![p] = @ \cup {f} \X NewStamps(stored[f], staged[p][f])]
     /\ UNCHANGED <<durable, holder, pc, batch, staged, added, synced, promised>>

AllRenamed(p) == AllStaged(p) /\ renamed[p] = Touched(batch[p])

SyncDirs_Omitted(p) ==
  /\ AllRenamed(p)
  /\ pc' = [pc EXCEPT ![p] = "synced"]
  /\ synced' = [synced EXCEPT ![p] = {Directory[f] : f \in Touched(batch[p])}]
  /\ UNCHANGED <<stored, durable, holder, batch, staged, renamed, added, grown, promised>>

\* Those of the directories that can be synced are; that one cannot be fails nothing.
SyncDirs(p) ==
  /\ AllRenamed(p)
  /\ pc' = [pc EXCEPT ![p] = "synced"]
  /\ \E D \in SUBSET {Directory[f] : f \in Touched(batch[p])} :
       /\ synced' = [synced EXCEPT ![p] = D]
       /\ durable' = [f \in Files |-> IF Directory[f] \in D THEN stored[f] ELSE durable[f]]
  /\ UNCHANGED <<stored, holder, batch, staged, renamed, added, grown, promised>>

Unlocked == holder' = Nobody

\* The local variables of a call go with it.
Ended(P) ==
  /\ batch' = [p \in Procs |-> IF p \in P THEN NoBatch ELSE batch[p]]
  /\ staged' = [p \in Procs |-> IF p \in P THEN <<>> ELSE staged[p]]
  /\ renamed' = [p \in Procs |-> IF p \in P THEN {} ELSE renamed[p]]
  /\ added' = [p \in Procs |-> IF p \in P THEN 0 ELSE added[p]]
  /\ synced' = [p \in Procs |-> IF p \in P THEN {} ELSE synced[p]]
  /\ grown' = [p \in Procs |-> IF p \in P THEN {} ELSE grown[p]]

Return(p) ==
  /\ pc[p] = "synced"
  /\ Unlocked
  /\ pc' = [pc EXCEPT ![p] = "idle"]
  /\ promised' = promised \cup
       {<<batch[p][n].file, batch[p][n].at>> :
          n \in {m \in DOMAIN batch[p] : Directory[batch[p][m].file] \in synced[p]}}
  /\ Ended({p})
  /\ UNCHANGED <<stored, durable>>

\* A file cannot be read, staged or renamed: what is staged is deleted, what is renamed
\* stays, and the caller gets StateUnavailable.
Fail(p) ==
  /\ pc[p] = "staging" /\ ~AllRenamed(p)
  /\ Unlocked
  /\ pc' = [pc EXCEPT ![p] = "idle"]
  /\ Ended({p})
  /\ UNCHANGED <<stored, durable, promised>>

\* The temporary files a killed collector leaves are in nobody's way (symbols).  Killed
\* between two directories, it has synced some of them.
Kill(p) ==
  /\ pc[p] # "idle"
  /\ holder' = IF holder = p THEN Nobody ELSE holder
  /\ pc' = [pc EXCEPT ![p] = "idle"]
  /\ Ended({p})
  /\ UNCHANGED <<stored, durable, promised>>

Writeback(f) ==
  /\ durable[f] # stored[f]
  /\ durable' = [durable EXCEPT ![f] = stored[f]]
  /\ UNCHANGED <<stored, holder, pc, batch, staged, renamed, added, synced, grown, promised>>

PowerCut ==
  /\ stored' = durable
  /\ holder' = Nobody
  /\ pc' = [p \in Procs |-> "idle"]
  /\ Ended(Procs)
  /\ UNCHANGED <<durable, promised>>

Empty == [f \in Files |-> [t \in Stamps |-> NoBar]]

Init ==
  /\ stored = Empty /\ durable = Empty
  /\ holder = Nobody
  /\ pc = [p \in Procs |-> "idle"]
  /\ batch = [p \in Procs |-> NoBatch]
  /\ staged = [p \in Procs |-> <<>>]
  /\ renamed = [p \in Procs |-> {}]
  /\ added = [p \in Procs |-> 0]
  /\ synced = [p \in Procs |-> {}]
  /\ grown = [p \in Procs |-> {}]
  /\ promised = {}

AppendBars(p) ==
  \/ \E b \in Batches : Begin(p, b)
  \/ StageFile(p) \/ Publish(p) \/ SyncDirs(p) \/ Return(p)
  \/ Fail(p) \/ Kill(p)

Next ==
  \/ \E p \in Procs : AppendBars(p)
  \/ \E f \in Files : Writeback(f)
  \/ PowerCut

Spec == Init /\ [][Next]_vars

(***************************************************************************)
(* Properties.                                                             *)
(***************************************************************************)
\* However collectors interleave, fail in the middle of a batch, are killed or lose
\* power, a file only ever changes by a batch merged into what it holds at that moment,
\* in one step, or back to what of it was on disk (append_bars).
Archive == INSTANCE BarArchive WITH archive <- stored, safe <- durable
MergesOnly == Archive!Spec

\* The count append_bars returns is the number of bars it added to the store, for a
\* batch with repeated minutes, for minutes stored before, after an attempt that failed
\* half-way and with other collectors appending.  It is of all its files: of an append
\* that failed when a rename did, those renamed before it stay in place.
CountIsExact == \A p \in Procs : pc[p] = "synced" => added[p] = Cardinality(grown[p])

\* A bar of a batch whose append returned, in a directory that could be synced, is
\* stored, and a power cut at any later moment, or a later append that overwrites it and
\* is cut short or cannot sync, leaves it stored.  Of a directory that cannot be synced
\* nothing is said: the append returns as if it were, and a power cut may take its bars
\* (append_bars, _fsync_dir).
AppendedIsDurable ==
  \A x \in promised : stored[x[1]][x[2]] # NoBar /\ durable[x[1]][x[2]] # NoBar
==============================================================================
