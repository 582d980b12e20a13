----------------------------- MODULE MCOpsStream -----------------------------
(***************************************************************************)
(* A small instance of OpsStream: one job and days of one instant, after a *)
(* day that ended well or on a new stream; what else the alerts are given  *)
(* is a queue with an old item in it, positions that are due and overdue,  *)
(* and a stale build.                                                      *)
(***************************************************************************)
EXTENDS OpsStream

CONSTANTS p1, p2, job, item, other, share, fund

\* Processes are told apart by nothing.
Alike == Permutations({p1, p2})

Table == <<job>>
AtFirst == [k \in {job} |-> 0]
Half == <<1, 2>>

\* A new stream, and one on which the day before ended well.
MCEarlier ==
  {<<>>, <<[kind |-> "job_outcome", key |-> job, finished |-> -1, result |-> "OK"]>>}

Held(quantity, exit) == [quantity |-> quantity, exit |-> exit]

MCStates ==
  { [pending |-> (item :> -1) @@ (other :> 2), stale |-> TRUE,
     positions |-> (share :> Held(1, 1)) @@ (fund :> Held(2, 0))] }

MCAcks ==
  { (<<"job_silence", General>> :> "design") @@ (<<"overdue_position", share>> :> "design"),
    (<<"job_silence", job>> :> "open") @@ (<<"job_silence", General>> :> "fixed")
      @@ (<<"stale_build", General>> :> "fixed") @@ (<<"job_never_succeeds", General>> :> "design") }
==============================================================================
