---------------------------- MODULE MCDocuments ----------------------------
(***************************************************************************)
(* The two JSON documents of the program, one changed under a lock and     *)
(* replaced as a whole, the other read and written in place without: small *)
(* instances of AtomicJsonStore and HypothesisLedger.  They share nothing  *)
(* and are explored one at a time.                                         *)
(***************************************************************************)
EXTENDS AtomicJsonStore, HypothesisLedger

Untouched == ledger = Absent /\ \A w \in Writers : at[w] = "idle"

Unused == document = {} /\ onDisk = {} /\ \A p \in Procs : pc[p] = "idle" /\ copy[p] = {}

MCInit == Init /\ LedgerInit
MCNext ==
  \/ Next /\ Untouched /\ UNCHANGED ledgerVars
  \/ LedgerNext /\ Unused /\ UNCHANGED vars
MCSpec == MCInit /\ [][MCNext]_<<vars, ledgerVars>>
=============================================================================
