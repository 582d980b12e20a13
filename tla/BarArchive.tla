----------------------------- MODULE BarArchive -----------------------------
(***************************************************************************)
(* What the bar store promises its readers: bars are only ever merged into *)
(* it, one file at a time, so that a bar that is stored gives way only to  *)
(* a newer bar of the same minute.  Merges reach the disk later, and a     *)
(* power cut takes back those that have not.                               *)
(***************************************************************************)
CONSTANTS Files, Stamps, NoBar, Batches, Incoming(_, _)

VARIABLES
  archive,   \* each file, as readers see it
  safe       \* each file, as a power cut would leave it

Merged(old, rows) == [t \in Stamps |-> IF rows[t] # NoBar THEN rows[t] ELSE old[t]]

Merge(b, f) == archive' = [archive EXCEPT ![f] = Merged(@, Incoming(b, f))] /\ UNCHANGED safe

Persist(F) ==
  /\ safe' = [f \in Files |-> IF f \in F THEN archive[f] ELSE safe[f]]
  /\ UNCHANGED archive

PowerCut == archive' = safe /\ UNCHANGED safe

Init == /\ archive = [f \in Files |-> [t \in Stamps |-> NoBar]]
        /\ safe = archive
Next ==
  \/ \E b \in Batches, f \in Files : Merge(b, f)
  \/ \E F \in SUBSET Files : Persist(F)
  \/ PowerCut
Spec == Init /\ [][Next]_<<archive, safe>>
=============================================================================
