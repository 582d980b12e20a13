--------------------------- MODULE AtomicJsonStore ---------------------------
(***************************************************************************)
(* The JSON document that several processes change with mutate: load,      *)
(* change, write to a temporary file and os.replace it into place, all     *)
(* under an advisory lock that the kernel drops when its holder dies.      *)
(*                                                                         *)
(* A change adds to the document and a document is the set of the changes  *)
(* it has taken in, which is all that tells a lost update from a kept one. *)
(* The file is synced before it is renamed but its directory is not, so    *)
(* the version on disk lags behind the one processes see until the kernel  *)
(* writes the directory back.                                              *)
(*                                                                         *)
(* Definitions named <definition>_<error> are wrong forms of the one that  *)
(* follows: each shows that a property fails when the code has that error. *)
(***************************************************************************)
CONSTANTS
  Procs,
  Changes,
  Nobody, NoChange

ASSUME StoreConstants ==
  /\ Nobody \notin Procs
  /\ NoChange \notin Changes

VARIABLES
  document,  \* the version in place, as processes see it
  onDisk,    \* the version a power cut would leave
  holder,    \* who holds the lock
  pc,        \* where each process is in mutate
  change,    \* the change it makes
  copy,      \* the document it loaded, then the one it staged
  returned   \* the changes whose mutate returned, since the last power cut

vars == <<document, onDisk, holder, pc, change, copy, returned>>

Acquire_Unlocked(p, c) ==
  /\ pc[p] = "idle"
  /\ holder' = p
  /\ pc' = [pc EXCEPT ![p] = "locked"]
  /\ change' = [change EXCEPT ![p] = c]
  /\ UNCHANGED <<document, onDisk, copy, returned>>

Acquire(p, c) ==
  /\ pc[p] = "idle"
  /\ holder = Nobody
  /\ holder' = p
  /\ pc' = [pc EXCEPT ![p] = "locked"]
  /\ change' = [change EXCEPT ![p] = c]
  /\ UNCHANGED <<document, onDisk, copy, returned>>

Load(p) ==
  /\ pc[p] = "locked"
  /\ copy' = [copy EXCEPT ![p] = document]
  /\ pc' = [pc EXCEPT ![p] = "loaded"]
  /\ UNCHANGED <<document, onDisk, holder, change, returned>>

\* The changed document is in a temporary file, flushed and synced.
Stage(p) ==
  /\ pc[p] = "loaded"
  /\ copy' = [copy EXCEPT ![p] = @ \cup {change[p]}]
  /\ pc' = [pc EXCEPT ![p] = "staged"]
  /\ UNCHANGED <<document, onDisk, holder, change, returned>>

Replace_Skipped(p) ==
  /\ pc[p] = "staged"
  /\ pc' = [pc EXCEPT ![p] = "replaced"]
  /\ UNCHANGED <<document, onDisk, holder, change, copy, returned>>

Replace(p) ==
  /\ pc[p] = "staged"
  /\ document' = copy[p]
  /\ pc' = [pc EXCEPT ![p] = "replaced"]
  /\ UNCHANGED <<onDisk, holder, change, copy, returned>>

Unlocked(p) ==
  /\ holder' = IF holder = p THEN Nobody ELSE holder
  /\ pc' = [pc EXCEPT ![p] = "idle"]
  /\ change' = [change EXCEPT ![p] = NoChange]
  /\ UNCHANGED <<document, onDisk, copy>>

Finish(p) ==
  /\ pc[p] = "replaced"
  /\ returned' = returned \cup {change[p]}
  /\ Unlocked(p)

\* The load, the change or the save raises, or the process is killed.
Abandon(p) ==
  /\ pc[p] # "idle"
  /\ UNCHANGED returned
  /\ Unlocked(p)

Writeback ==
  /\ onDisk # document
  /\ onDisk' = document
  /\ UNCHANGED <<document, holder, pc, change, copy, returned>>

\* Every process is gone and the document is the one on disk.
PowerCut ==
  /\ document' = onDisk
  /\ returned' = {}
  /\ holder' = Nobody
  /\ pc' = [p \in Procs |-> "idle"]
  /\ change' = [p \in Procs |-> NoChange]
  /\ UNCHANGED <<onDisk, copy>>

Init ==
  /\ document = {} /\ onDisk = {} /\ returned = {}
  /\ holder = Nobody
  /\ pc = [p \in Procs |-> "idle"]
  /\ change = [p \in Procs |-> NoChange]
  /\ copy = [p \in Procs |-> {}]

Mutate(p) ==
  \/ \E c \in Changes : Acquire(p, c)
  \/ Load(p) \/ Stage(p) \/ Replace(p) \/ Finish(p)
  \/ Abandon(p)

Next == (\E p \in Procs : Mutate(p)) \/ Writeback \/ PowerCut

Spec == Init /\ [][Next]_vars

(***************************************************************************)
(* Properties.                                                             *)
(***************************************************************************)
\* The state of the store is of the expected shape.
TypeOK ==
  /\ document \in SUBSET Changes
  /\ onDisk \in SUBSET Changes
  /\ holder \in Procs \cup {Nobody}
  /\ pc \in [Procs -> {"idle", "locked", "loaded", "staged", "replaced"}]
  /\ change \in [Procs -> Changes \cup {NoChange}]
  /\ copy \in [Procs -> SUBSET Changes]
  /\ returned \in SUBSET Changes

\* However the processes interleave, fail and die, a mutation whose call returned is
\* in the document that every process reads from then on, until the machine loses power
\* (mutate; "two processes each doing load, mutate, save without this will silently lose
\* one").  A power cut may take it back although it returned: save does not sync the
\* directory it renamed in, where the bar store does.
NoUpdateLost == returned \subseteq document

\* mutate is atomic: it takes effect at the rename, and a power cut brings back a version
\* that was in place before, never a mixture or an empty document (save).
Promise == INSTANCE AtomicDocument WITH content <- document, safe <- onDisk, done <- returned
IsAtomic == Promise!Spec
==============================================================================
