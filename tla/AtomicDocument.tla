--------------------------- MODULE AtomicDocument ---------------------------
(***************************************************************************)
(* What a shared document with a read-modify-write operation promises:     *)
(* each change takes effect at one instant between the call and its        *)
(* return, on top of every change before it, and none is undone as long as *)
(* the machine keeps its power.  A power cut goes back to the version that *)
(* was on disk, which lags behind.                                         *)
(***************************************************************************)
CONSTANT Changes

VARIABLES
  content,  \* the changes the document has taken in
  safe,     \* the version of it that a power cut would leave
  done      \* the changes whose call has returned since the last power cut

Apply(c) == content' = content \cup {c} /\ UNCHANGED <<safe, done>>

Return(c) == c \in content /\ done' = done \cup {c} /\ UNCHANGED <<content, safe>>

Persist == safe' = content /\ UNCHANGED <<content, done>>

GoBack == content' = safe /\ done' = {} /\ UNCHANGED safe

Init == content = {} /\ safe = {} /\ done = {}
Next == (\E c \in Changes : Apply(c) \/ Return(c)) \/ Persist \/ GoBack
Spec == Init /\ [][Next]_<<content, safe, done>>
=============================================================================
