---------------------------- MODULE ReplaySource ----------------------------
(***************************************************************************)
(* The replay source: a panel file that generators replace as a whole (or  *)
(* an operator removes or spoils) while readers fetch bars from it, each   *)
(* source with a cache of the panel keyed by the file's mtime and size.    *)
(* Versions of the file are numbered, and no two have the same mtime and   *)
(* size: mtime_ns tells them apart.                                        *)
(* Definitions named <definition>_<error> are wrong forms of the one that  *)
(* follows: each shows that a property fails when the code has that error. *)
(***************************************************************************)
EXTENDS Integers

CONSTANTS
  Sources,
  MaxVersions  \* bound of the model

ASSUME VersionBound == MaxVersions \in Nat

VARIABLES
  file,      \* the version in place, or None
  spoiled,   \* versions that are not a panel
  newest,    \* the last version that was written
  gone,      \* the last version that was replaced or removed
  phase,     \* where each source is in _panel
  key,       \* the version whose mtime and size its call has read
  cache,     \* the version it has cached, or None, and under which key
  call,      \* what its call began with: the last version gone by then
  answer     \* what its last call gave: a version, or None for MarketDataUnavailable

sourceVars == <<file, spoiled, newest, gone, phase, key, cache, call, answer>>

None == 0

Replaced(bad) ==
  /\ newest < MaxVersions
  /\ newest' = newest + 1 /\ file' = newest + 1
  /\ spoiled' = IF bad THEN spoiled \cup {newest + 1} ELSE spoiled
  /\ gone' = newest
  /\ UNCHANGED <<phase, key, cache, call, answer>>

Removed ==
  /\ file # None
  /\ file' = None /\ gone' = newest
  /\ UNCHANGED <<spoiled, newest, phase, key, cache, call, answer>>

Answer(s, v) ==
  /\ answer' = [answer EXCEPT ![s] = v]
  /\ phase' = [phase EXCEPT ![s] = "answered"]

Call(s) ==
  /\ phase[s] \in {"idle", "answered"}
  /\ phase' = [phase EXCEPT ![s] = "stat"]
  /\ call' = [call EXCEPT ![s] = gone]
  /\ UNCHANGED <<file, spoiled, newest, gone, key, cache, answer>>

\* The file's mtime and size are read, and the cache is good for them or is not.
Stat(s) ==
  /\ phase[s] = "stat"
  /\ key' = [key EXCEPT ![s] = file]
  /\ IF file = None THEN Answer(s, None)
     ELSE IF cache[s].key = file THEN Answer(s, cache[s].panel)
     ELSE phase' = [phase EXCEPT ![s] = "read"] /\ UNCHANGED answer
  /\ UNCHANGED <<file, spoiled, newest, gone, cache, call>>

Cached_UnderFileNow(s) == [key |-> file, panel |-> IF key[s] # file THEN key[s] ELSE file]

\* The panel that was read, under the key that was read before it.
Cached(s) == [key |-> key[s], panel |-> file]

Read(s) ==
  /\ phase[s] = "read"
  /\ IF file = None \/ file \in spoiled
     THEN Answer(s, None) /\ UNCHANGED cache
     ELSE Answer(s, file) /\ cache' = [cache EXCEPT ![s] = Cached(s)]
  /\ UNCHANGED <<file, spoiled, newest, gone, key, call>>

SourceInit ==
  /\ file = None /\ spoiled = {} /\ newest = 0 /\ gone = 0
  /\ phase = [s \in Sources |-> "idle"]
  /\ key = [s \in Sources |-> None]
  /\ cache = [s \in Sources |-> [key |-> -1, panel |-> None]]
  /\ call = [s \in Sources |-> 0]
  /\ answer = [s \in Sources |-> None]

SourceNext ==
  \/ \E bad \in BOOLEAN : Replaced(bad)
  \/ Removed
  \/ \E s \in Sources : Call(s) \/ Stat(s) \/ Read(s)

SourceSpec == SourceInit /\ [][SourceNext]_sourceVars

(***************************************************************************)
(* Properties.                                                             *)
(***************************************************************************)
\* A panel that is served was in place at some moment of the call that served it, though
\* the file is replaced between its stat and its read: "a process that regenerates the
\* sample mid-run serves the new bars instead of quietly replaying the ones it read at
\* startup" (_panel).
ServedWasInPlace ==
  \A s \in Sources : phase[s] = "answered" /\ answer[s] # None => answer[s] > call[s]
==============================================================================
