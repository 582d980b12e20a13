-------------------------- MODULE JournaledBroker --------------------------
(***************************************************************************)
(* The simulated broker over its order journal, in a program that is       *)
(* killed and started again.  An operation changes memory first and then   *)
(* hands the journal one record per order transition and one per fill;     *)
(* the program may be killed, or a write refused, at each of them.  At     *)
(* start the journal is replayed and the records adopted (wiring.build).   *)
(***************************************************************************)
EXTENDS SimulatedBroker, JsonlLines, SequencesExt

CONSTANTS
  MaxFaults  \* bound of the model: kills and refused writes together

OrderRecord(i, o) == [kind |-> "order", id |-> i, order |-> o]
FillRecord(f) == [kind |-> "fill", fill |-> f]

JournalRecords ==
  [kind : {"order"}, id : OrderIds, order : OrderType] \cup [kind : {"fill"}, fill : Fills]

\* What is left of a cut record is no record: the front part of an object is not JSON.
ASSUME JournalConstants ==
  /\ MaxFaults \in Nat
  /\ Cut \notin JournalRecords /\ SplitChar \notin JournalRecords /\ Cut # SplitChar

VARIABLES
  file,       \* the journal
  unwritten,  \* records the running operation has yet to write
  up,         \* whether the program runs
  crashes, refusals,
  behind,     \* whether a refused write left memory ahead of the journal
  flagged,    \* whether a start ever found the journal discrepant
  placed      \* the orders callers were told were accepted, in any run

jvars == <<vars, file, unwritten, up, crashes, refusals, behind, flagged, placed>>

(***************************************************************************)
(* Recovery.                                                               *)
(***************************************************************************)
\* Definitions named <definition>_<error> are wrong forms of the one that follows.
\* What a replay has before the first record.
NothingReplayed == [orders |-> [i \in OrderIds |-> Unknown], queue |-> <<>>, fills |-> <<>>]

ReplayedRecord_KeepingFirst(b, r) ==
  IF r.kind = "fill" THEN [b EXCEPT !.fills = Append(@, r.fill)]
  ELSE IF b.orders[r.id] # Unknown THEN b
  ELSE [b EXCEPT !.orders[r.id] = r.order, !.queue = Append(@, r.id)]

\* The next record: one of an order supersedes what there is of it, in its place.
ReplayedRecord(b, r) ==
  IF r.kind = "fill" THEN [b EXCEPT !.fills = Append(@, r.fill)]
  ELSE [b EXCEPT !.orders[r.id] = r.order,
                 !.queue = IF b.orders[r.id] = Unknown THEN Append(@, r.id) ELSE @]

Replayed(rs) == FoldLeft(ReplayedRecord, NothingReplayed, rs)

\* The accepted order a key was last given to.
AdoptedKey(os, q, k) ==
  LET holders == {n \in DOMAIN q : os[q[n]].key = k /\ os[q[n]].state # "REJECTED"}
  IN IF holders = {} THEN NoOrder ELSE q[Max(holders)]

HeldAfter_LastFill(fs, s) ==
  LET here == {n \in DOMAIN fs : fs[n].symbol = s}
  IN IF here = {} THEN 0 ELSE Signed(fs[Max(here)])

HeldAfter(fs, s) ==
  LET here == {n \in DOMAIN fs : fs[n].symbol = s}
  IN SumFunction([n \in here |-> Signed(fs[n])])

FilledAfter(fs, i) ==
  LET own == {n \in DOMAIN fs : fs[n].order = i}
  IN SumFunction([n \in own |-> fs[n].quantity])

Discrepant_IgnoresSums(os, q, fs, book) ==
  \/ \E n \in DOMAIN fs : fs[n].order \notin ToSet(q)
  \/ \E s \in Symbols : book[s] < 0

Discrepant_WorkingOnly(os, q, fs, book) ==
  \E i \in ToSet(q) :
    os[i].state \in WorkingStates /\ FilledAfter(fs, i) # os[i].filled

Discrepant(os, q, fs, book) ==
  \/ \E n \in DOMAIN fs : fs[n].order \notin ToSet(q)
  \/ \E i \in ToSet(q) : FilledAfter(fs, i) # os[i].filled
  \/ \E s \in Symbols : book[s] < 0

\* The broker restore_from builds from the records of a journal.
Adopted(rs) ==
  LET b == Replayed(rs)
      book == [s \in Symbols |-> HeldAfter(b.fills, s)]
      spent == SumFunction([n \in DOMAIN b.fills |-> Signed(b.fills[n]) * b.fills[n].price])
  IN [orders |-> b.orders, queue |-> b.queue, fills |-> b.fills, held |-> book,
      cash |-> InitialCash - spent,
      keys |-> [k \in Keys |-> AdoptedKey(b.orders, b.queue, k)],
      problems |-> Discrepant(b.orders, b.queue, b.fills, book)]

(***************************************************************************)
(* Actions.                                                                *)
(***************************************************************************)
\* The records of a step of the broker: the order it changed, then its fill.
Recorded ==
  LET changed == {i \in OrderIds : orders'[i] # orders[i]}
      filled == Len(fills') > Len(fills)
  IN [n \in 1 .. Cardinality(changed) |->
        LET i == CHOOSE i \in changed : TRUE IN OrderRecord(i, orders'[i])]
     \o IF filled THEN <<FillRecord(Last(fills'))>> ELSE <<>>

Operation ==
  \/ Submit
  \/ \E i \in OrderIds : Cancel(i)
  \/ \E q \in Quotes : OnQuote(q)
  \/ Serve
  \/ MarkStateUnknown

BrokerStep ==
  /\ up
  /\ unwritten = <<>>
  /\ Operation
  /\ unwritten' = Recorded
  /\ UNCHANGED <<file, up, crashes, refusals, behind, flagged, placed>>

\* The acceptance of an order is known to its caller when its record is written
\* and submit returns.
Told(r) == IF r.kind = "order" /\ r.order.state = "OPEN" THEN {r.id} ELSE {}

WriteRecord ==
  /\ up
  /\ unwritten # <<>>
  /\ file' = Appended(file, Head(unwritten), TRUE)
  /\ unwritten' = Tail(unwritten)
  /\ placed' = placed \cup Told(Head(unwritten))
  /\ UNCHANGED <<vars, up, crashes, refusals, behind, flagged>>

\* What is in the file after a write that did not return.
Interrupted(r) ==
  \/ file' = file
  \/ file' = Appended(file, r, TRUE)
  \/ \E piece \in Torn(r) : file' = Appended(file, piece, FALSE)

\* StateUnavailable ends the operation where it is: memory keeps what it changed, the
\* rest of the records and of the quote are dropped.
RefuseWrite ==
  /\ up
  /\ unwritten # <<>>
  /\ crashes + refusals < MaxFaults
  /\ refusals' = refusals + 1
  /\ Interrupted(Head(unwritten))
  /\ unwritten' = <<>>
  /\ quote' = NoQuote
  /\ behind' = TRUE
  /\ UNCHANGED <<orders, queue, fills, held, cash, keys, problems, halted, up, crashes, flagged, placed>>

\* Everything in memory goes; the kill switch is a file.
Crash ==
  /\ up
  /\ crashes + refusals < MaxFaults
  /\ crashes' = crashes + 1
  /\ IF unwritten = <<>> THEN file' = file ELSE Interrupted(Head(unwritten))
  /\ up' = FALSE
  /\ unwritten' = <<>>
  /\ orders' = [i \in OrderIds |-> Unknown]
  /\ queue' = <<>>
  /\ fills' = <<>>
  /\ held' = [s \in Symbols |-> 0]
  /\ cash' = InitialCash
  /\ keys' = [k \in Keys |-> NoOrder]
  /\ problems' = FALSE
  /\ quote' = NoQuote
  /\ behind' = FALSE
  /\ UNCHANGED <<halted, refusals, flagged, placed>>

\* A journal that cannot be replayed keeps the program from starting.
Restart ==
  LET b == Adopted(ReadAll(file))
  IN /\ ~up
     /\ Readable(file)
     /\ up' = TRUE
     /\ orders' = b.orders
     /\ queue' = b.queue
     /\ fills' = b.fills
     /\ held' = b.held
     /\ cash' = b.cash
     /\ keys' = b.keys
     /\ problems' = b.problems
     /\ flagged' = (flagged \/ b.problems)
     /\ UNCHANGED <<halted, quote, file, unwritten, crashes, refusals, behind, placed>>

Switch == (Engage \/ Release)
          /\ UNCHANGED <<file, unwritten, up, crashes, refusals, behind, flagged, placed>>

JInit ==
  /\ Init
  /\ file = <<>>
  /\ unwritten = <<>>
  /\ up = TRUE
  /\ crashes = 0 /\ refusals = 0
  /\ behind = FALSE
  /\ flagged = FALSE
  /\ placed = {}

JNext == BrokerStep \/ WriteRecord \/ RefuseWrite \/ Crash \/ Restart \/ Switch
JSpec == JInit /\ [][JNext]_jvars

(***************************************************************************)
(* Properties.                                                             *)
(***************************************************************************)
Settled == up /\ unwritten = <<>>

\* Restarting loses nothing, if no record was ever appended to a torn one or cut inside a
\* character (Intact): whenever no record is outstanding and none was refused in this run, a
\* replay of the journal rebuilds the book in memory, with its keys, its queue order and its
\* cash, and flags it only if it is flagged already or short of shares (record_order,
\* record_fill, replay, adopt).  A record that was appended to a torn one is in memory and in
\* no replay: PlacedIsRemembered is refuted by it.
ReplayRebuildsBook ==
  Settled /\ ~behind /\ Intact(file) =>
    LET b == Adopted(ReadAll(file))
    IN /\ b.orders = orders /\ b.queue = queue /\ b.fills = fills
       /\ b.held = held /\ b.cash = cash /\ b.keys = keys
       /\ b.problems => problems \/ \E s \in Symbols : held[s] < 0

\* A book that is not flagged is right, however many kills, refused writes and torn lines
\* it went through: positions, cash and orders agree on what was filled, and no intent
\* is placed twice (adopt).
UnflaggedBookIsSound ==
  up /\ ~problems => StateMatchesFilled /\ OneOrderPerIntent /\ BooksAgree

\* Its shares and cash cover the orders it restored, as long as no write was refused and
\* no record was appended to a torn one or cut inside a character (Intact): adopt does not
\* check them again.  After a refused write they may not, and a working sell may come back
\* without the shares it was accepted for.
UnflaggedBookIsCovered ==
  up /\ ~problems /\ refusals = 0 /\ Intact(file) =>
    SharesCovered /\ (EnforceCash => cash >= CommittedCash)

\* A start that found the journal contradicting itself is followed by no start that finds it
\* sound, as long as no write was refused and no record was appended to a torn one, or to one
\* that had lost its newline only, or cut inside a character (Intact): no record of its own
\* line covers a discrepancy up (adopt).  Without Intact it is false: if the discrepancy is in
\* a last line without its newline, that of a fill whose execution a kill kept from the
\* journal, the next record continues the line, and the start after skips both and finds the
\* rest sound.
DiscrepancyIsNotForgotten ==
  up /\ flagged /\ refusals = 0 /\ Intact(file) => problems

AllPlacedKnown == \A i \in placed : Known(i) /\ orders[i].state # "REJECTED"

\* "Losing one record is survivable; losing the file because of it is not."
\* (tests/test_execution.py:507)  A torn record costs itself only, as long as it was not cut
\* inside a character and nothing is appended after it (Intact): the program can start, and
\* every order whose acceptance a caller was told of is there, in this run and every later one.
TornTailCostsOneRecord == Intact(file) => Readable(file) /\ (up => AllPlacedKnown)

\* An order whose acceptance a caller was told of is never forgotten, so that placing the
\* same intent again is refused after any restart.
\* "The composite key *is* the deduplication mechanism: a job that runs twice produces
\* the same key and the second submission is refused. ... which in turn is what makes a
\* restart safe." (order.py:98)  Does not hold: the first acceptance after a torn record
\* is written to the same line, which the next start skips.
PlacedIsRemembered == up => AllPlacedKnown
============================================================================
