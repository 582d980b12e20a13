-------------------------- MODULE HypothesisLedger --------------------------
(***************************************************************************)
(* The hypothesis ledger: one JSON array in a file, which record reads,    *)
(* checks for the key, and writes anew in place, with no lock.  The file   *)
(* is absent, the sequence of rows it holds, or unreadable: emptied by a   *)
(* writer that has yet to write, or holding parts of a text.  The text of  *)
(* the rows is written in one call.                                        *)
(*                                                                         *)
(* Definitions named <definition>_<error> are wrong forms of the one that  *)
(* follows: each shows that a property fails when the code has that error. *)
(***************************************************************************)
EXTENDS Naturals, Sequences, SequencesExt

CONSTANTS
  Hypotheses,  \* keys of the hypotheses that are tested
  Writers,     \* processes that record verdicts
  Nothing,     \* no hypothesis
  Absent, Emptied, Garbled

ASSUME LedgerConstants ==
  /\ Nothing \notin Hypotheses
  /\ {Absent, Emptied, Garbled} \cap Seq(Hypotheses) = {}
  /\ Absent \notin {Emptied, Garbled}

VARIABLES
  ledger,
  at,       \* where each writer is in record
  testing,  \* the hypothesis it records
  rows,     \* the rows it has read, then the ones it writes
  recorded, \* the hypotheses whose record returned
  overlap   \* for the properties: whether two writers were ever inside at once

ledgerVars == <<ledger, at, testing, rows, recorded, overlap>>

Unreadable == ledger \in {Emptied, Garbled}
Whole == ledger # Absent /\ ~Unreadable

Read_EmptyWhenUnreadable(w, h) ==
  /\ at[w] = "idle"
  /\ testing' = [testing EXCEPT ![w] = h]
  /\ rows' = [rows EXCEPT ![w] = IF Whole THEN ledger ELSE <<>>]
  /\ at' = [at EXCEPT ![w] = "read"]
  /\ overlap' = (overlap \/ \E v \in Writers : at[v] # "idle")
  /\ UNCHANGED <<ledger, recorded>>

\* A ledger that is there and cannot be read ends record with LedgerUnavailable; one
\* that is not there is an empty one.
Read(w, h) ==
  /\ at[w] = "idle"
  /\ ~Unreadable
  /\ testing' = [testing EXCEPT ![w] = h]
  /\ rows' = [rows EXCEPT ![w] = IF Whole THEN ledger ELSE <<>>]
  /\ at' = [at EXCEPT ![w] = "read"]
  /\ overlap' = (overlap \/ \E v \in Writers : at[v] # "idle")
  /\ UNCHANGED <<ledger, recorded>>

Duplicate_Last(w) == rows[w] # <<>> /\ Last(rows[w]) = testing[w]

Duplicate(w) == Contains(rows[w], testing[w])

Leave(w) ==
  /\ at' = [at EXCEPT ![w] = "idle"]
  /\ testing' = [testing EXCEPT ![w] = Nothing]
  /\ rows' = [rows EXCEPT ![w] = <<>>]

Refuse(w) ==
  /\ at[w] = "read" /\ Duplicate(w)
  /\ Leave(w)
  /\ UNCHANGED <<ledger, recorded, overlap>>

\* write_text opens the ledger for writing, which empties it.
Truncate(w) ==
  /\ at[w] = "read" /\ ~Duplicate(w)
  /\ at' = [at EXCEPT ![w] = "write"]
  /\ rows' = [rows EXCEPT ![w] = Append(@, testing[w])]
  /\ ledger' = Emptied
  /\ UNCHANGED <<testing, recorded, overlap>>

\* The text goes to the start of the ledger, over what another writer put there since:
\* if that was longer, the end of it remains.
Overwritten(w) == IF ledger = Emptied THEN {rows[w]} ELSE {rows[w], Garbled}

Write(w) ==
  /\ at[w] = "write"
  /\ ledger' \in Overwritten(w)
  /\ recorded' = recorded \cup {testing[w]}
  /\ Leave(w)
  /\ UNCHANGED overlap

\* The writer is killed or the disk is full: any part of the text may have gone to
\* the ledger.
Die(w) ==
  /\ at[w] # "idle"
  /\ ledger' \in IF at[w] = "write" THEN {ledger, Garbled} \cup Overwritten(w) ELSE {ledger}
  /\ Leave(w)
  /\ UNCHANGED <<recorded, overlap>>

LedgerInit ==
  /\ ledger = Absent
  /\ at = [w \in Writers |-> "idle"]
  /\ testing = [w \in Writers |-> Nothing]
  /\ rows = [w \in Writers |-> <<>>]
  /\ recorded = {}
  /\ overlap = FALSE

Record(w) ==
  \/ \E h \in Hypotheses : Read(w, h)
  \/ Refuse(w) \/ Truncate(w) \/ Write(w)
  \/ Die(w)

LedgerNext == \E w \in Writers : Record(w)
LedgerSpec == LedgerInit /\ [][LedgerNext]_ledgerVars

(***************************************************************************)
(* Properties.                                                             *)
(***************************************************************************)
\* As long as no two writers overlap, a ledger that can be read holds every verdict that
\* was ever recorded, wherever a writer was killed: the count of tests that sets the
\* significance bar is right or unavailable, never understated (record, count_tests).
\* "It must count *every* test" (hypothesis_repository.py:46) says so without the
\* condition: of two writers that both read, the second to write drops the first's row.
CountIsNotUnderstated == Whole /\ ~overlap => \A h \in recorded : Contains(ledger, h)

\* However writers overlap and die, no hypothesis has two verdicts (DuplicateHypothesis).
OneVerdictEach == Whole => \A m, n \in DOMAIN ledger : ledger[m] = ledger[n] => m = n
=============================================================================
