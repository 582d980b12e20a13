-------------------------- MODULE Documents_proof --------------------------
(***************************************************************************)
(* Proofs about the two JSON documents of the program: the lock makes      *)
(* mutate of AtomicJsonStore atomic; what the ledger keeps without a lock, *)
(* and what only as long as writers do not overlap.                        *)
(***************************************************************************)
EXTENDS AtomicJsonStore, HypothesisLedger, TLAPS

(***************************************************************************)
(* AtomicJsonStore.                                                        *)
(***************************************************************************)
\* Only the holder of the lock is inside mutate.
LockIsExclusive == \A p \in Procs : pc[p] # "idle" => holder = p /\ change[p] \in Changes

\* So the document is still the one the holder loaded when it replaces it.
CopyIsCurrent ==
  \A p \in Procs :
    /\ pc[p] = "loaded" => copy[p] = document
    /\ pc[p] = "staged" => copy[p] = document \cup {change[p]}
    /\ pc[p] = "replaced" => change[p] \in document

IInv == TypeOK /\ LockIsExclusive /\ CopyIsCurrent /\ NoUpdateLost

\* The empty document, with no one inside mutate, satisfies the invariant.
THEOREM InitInvariant == ASSUME Init PROVE IInv
BY StoreConstants DEF Init, IInv, TypeOK, LockIsExclusive, CopyIsCurrent, NoUpdateLost

\* Each step of mutate, and each way to leave it, keeps the invariant.
LEMMA MutateInvariant ==
  ASSUME IInv, NEW p \in Procs, Mutate(p)
  PROVE  IInv'
<1> USE StoreConstants DEF IInv, TypeOK, LockIsExclusive, CopyIsCurrent, NoUpdateLost
<1>1. CASE \E c \in Changes : Acquire(p, c)
  BY <1>1 DEF Acquire
<1>2. CASE Load(p)
  BY <1>2 DEF Load
<1>3. CASE Stage(p)
  BY <1>3 DEF Stage
<1>4. CASE Replace(p)
  <2>1. document' = document \cup {change[p]} /\ change[p] \in Changes
    BY <1>4 DEF Replace
  <2>. QED BY <1>4, <2>1 DEF Replace
<1>5. CASE Finish(p)
  BY <1>5 DEF Finish, Unlocked
<1>6. CASE Abandon(p)
  BY <1>6 DEF Abandon, Unlocked
<1>. QED BY <1>1, <1>2, <1>3, <1>4, <1>5, <1>6 DEF Mutate

\* So does every step, with the kernel's and the power's among them.
LEMMA NextInvariant ==
  ASSUME IInv, [Next]_vars
  PROVE  IInv'
<1>1. CASE \E p \in Procs : Mutate(p)
  BY <1>1, MutateInvariant
<1>2. CASE Writeback
  BY <1>2 DEF Writeback, IInv, TypeOK, LockIsExclusive, CopyIsCurrent, NoUpdateLost
<1>3. CASE PowerCut
  BY <1>3, StoreConstants
     DEF PowerCut, IInv, TypeOK, LockIsExclusive, CopyIsCurrent, NoUpdateLost
<1>4. CASE UNCHANGED vars
  BY <1>4 DEF vars, IInv, TypeOK, LockIsExclusive, CopyIsCurrent, NoUpdateLost
<1>. QED BY <1>1, <1>2, <1>3, <1>4 DEF Next

\* The invariant holds throughout every behaviour of the store (AtomicJsonStore).
THEOREM Invariance == Spec => []IInv
<1>1. Init => IInv
  BY InitInvariant
<1>2. IInv /\ [Next]_vars => IInv'
  BY NextInvariant
<1>. QED BY <1>1, <1>2, PTL DEF Spec

\* For any number of processes and changes, whatever fails, dies or loses power: a
\* change whose mutate returned is in the document (AtomicJsonStore.mutate).
THEOREM ReturnedChangesAreKept == Spec => []NoUpdateLost
<1>1. IInv => NoUpdateLost
  BY DEF IInv
<1>. QED BY <1>1, Invariance, PTL

\* Every step is a step of the promise or changes nothing of it: the rename applies the
\* change, the return returns it.
LEMMA StepRefinement ==
  ASSUME IInv, [Next]_vars
  PROVE  [Promise!Next]_<<document, onDisk, returned>>
<1>1. ASSUME NEW p \in Procs, Mutate(p)
      PROVE  [Promise!Next]_<<document, onDisk, returned>>
  <2>. USE <1>1 DEF IInv
  <2>1. CASE (\E c \in Changes : Acquire(p, c)) \/ Load(p) \/ Stage(p) \/ Abandon(p)
    BY <2>1 DEF Acquire, Load, Stage, Abandon, Unlocked
  <2>2. CASE Replace(p)
    <3>1. document' = document \cup {change[p]} /\ change[p] \in Changes
      BY <2>2 DEF Replace, CopyIsCurrent, LockIsExclusive
    <3>. QED BY <2>2, <3>1 DEF Replace, Promise!Next, Promise!Apply
  <2>3. CASE Finish(p)
    <3>1. change[p] \in document /\ change[p] \in Changes
      BY <2>3 DEF Finish, CopyIsCurrent, LockIsExclusive
    <3>. QED BY <2>3, <3>1 DEF Finish, Unlocked, Promise!Next, Promise!Return
  <2>. QED BY <2>1, <2>2, <2>3 DEF Mutate
<1>2. CASE Writeback
  BY <1>2 DEF Writeback, Promise!Next, Promise!Persist
<1>3. CASE PowerCut
  BY <1>3 DEF PowerCut, Promise!Next, Promise!GoBack
<1>4. CASE UNCHANGED vars
  BY <1>4 DEF vars
<1>. QED BY <1>1, <1>2, <1>3, <1>4 DEF Next

\* For any number of processes and changes, through failures, kills and power cuts:
\* mutate implements an atomic document (AtomicJsonStore.mutate, save).
THEOREM MutateIsAtomic == Spec => IsAtomic
<1>1. Init => Promise!Init
  BY DEF Init, Promise!Init
<1>2. IInv /\ [Next]_vars => [Promise!Next]_<<document, onDisk, returned>>
  BY StepRefinement
<1>. QED BY <1>1, <1>2, Invariance, PTL DEF Spec, IsAtomic, Promise!Spec

(***************************************************************************)
(* HypothesisLedger.                                                       *)
(***************************************************************************)
LedgerTypeOK ==
  /\ ledger \in Seq(Hypotheses) \cup {Absent, Emptied, Garbled}
  /\ at \in [Writers -> {"idle", "read", "write"}]
  /\ testing \in [Writers -> Hypotheses \cup {Nothing}]
  /\ rows \in [Writers -> Seq(Hypotheses)]
  /\ recorded \in SUBSET Hypotheses
  /\ overlap \in BOOLEAN
  /\ \A w \in Writers : at[w] # "idle" => testing[w] \in Hypotheses

Distinct(s) == \A m, n \in DOMAIN s : s[m] = s[n] => m = n

\* Nobody has read, or is about to write, a hypothesis twice.
RowsAreDistinct ==
  /\ OneVerdictEach
  /\ \A w \in Writers : Distinct(rows[w])

Holds(s, hs) == \A h \in hs : Contains(s, h)

\* As long as no two writers overlapped, the one inside has read every verdict there is,
\* and the ledger stays empty while it writes.
LoneWriterIsCurrent ==
  ~overlap =>
    /\ \A v, w \in Writers : at[v] # "idle" /\ at[w] # "idle" => v = w
    /\ \A w \in Writers : at[w] # "idle" => Holds(rows[w], recorded)
    /\ \A w \in Writers : at[w] = "write" => ledger = Emptied /\ Contains(rows[w], testing[w])
    /\ ledger = Absent => recorded = {}

LedgerInv == LedgerTypeOK /\ RowsAreDistinct /\ LoneWriterIsCurrent /\ CountIsNotUnderstated

\* A key appended to distinct rows that do not contain it leaves them distinct, and is
\* then among them.
LEMMA AppendFresh ==
  ASSUME NEW s \in Seq(Hypotheses), NEW h \in Hypotheses, ~Contains(s, h), Distinct(s)
  PROVE  Distinct(Append(s, h)) /\ Contains(Append(s, h), h)
<1>1. /\ Len(Append(s, h)) = Len(s) + 1 /\ Append(s, h)[Len(s) + 1] = h
      /\ \A n \in 1 .. Len(s) : Append(s, h)[n] = s[n]
      /\ DOMAIN Append(s, h) = 1 .. Len(s) + 1 /\ DOMAIN s = 1 .. Len(s) /\ Len(s) \in Nat
  OBVIOUS
<1>2. \A n \in 1 .. Len(s) : s[n] # h
  BY DEF Contains
<1>. QED BY <1>1, <1>2 DEF Distinct, Contains

\* What is among the rows stays among them when one is appended.
LEMMA AppendKeeps ==
  ASSUME NEW s \in Seq(Hypotheses), NEW h \in Hypotheses, NEW g, Contains(s, g)
  PROVE  Contains(Append(s, h), g)
<1>1. PICK n \in 1 .. Len(s) : s[n] = g
  BY DEF Contains
<1>2. n \in 1 .. Len(Append(s, h)) /\ Append(s, h)[n] = g
  BY <1>1
<1>. QED BY <1>2 DEF Contains

\* The absent ledger, with nobody inside record, satisfies the invariant.
LEMMA LedgerInitInvariant == ASSUME LedgerInit PROVE LedgerInv
<1>1. LedgerTypeOK
  <2>1. rows \in [Writers -> Seq(Hypotheses)]
    BY DEF LedgerInit
  <2>. QED BY <2>1 DEF LedgerInit, LedgerTypeOK
<1>2. RowsAreDistinct
  BY DEF LedgerInit, RowsAreDistinct, OneVerdictEach, Distinct, Whole
<1>3. LoneWriterIsCurrent /\ CountIsNotUnderstated
  BY DEF LedgerInit, LoneWriterIsCurrent, CountIsNotUnderstated
<1>. QED BY <1>1, <1>2, <1>3 DEF LedgerInv

\* Reading keeps the invariant: the rows are those of a whole ledger, or none.
LEMMA ReadInvariant ==
  ASSUME LedgerInv, NEW w \in Writers, NEW h \in Hypotheses, Read(w, h)
  PROVE  LedgerInv'
<1>. USE LedgerConstants DEF LedgerInv, Read
<1>1. Whole => ledger \in Seq(Hypotheses)
  BY DEF LedgerTypeOK, Whole, Unreadable
<1>2. LedgerTypeOK'
  BY <1>1 DEF LedgerTypeOK
<1>3. RowsAreDistinct'
  <2>1. Distinct(<<>>)
    BY DEF Distinct
  <2>2. Whole => Distinct(ledger)
    BY DEF RowsAreDistinct, OneVerdictEach, Distinct
  <2>. QED BY <2>1, <2>2 DEF RowsAreDistinct, OneVerdictEach, LedgerTypeOK, Whole, Unreadable
<1>4. LoneWriterIsCurrent'
  <2>. SUFFICES ASSUME ~overlap' PROVE LoneWriterIsCurrent'
    BY DEF LoneWriterIsCurrent
  <2>1. ~overlap /\ \A v \in Writers : at[v] = "idle"
    BY DEF LedgerTypeOK
  <2>2. Holds(rows'[w], recorded)
    <3>1. CASE Whole
      BY <3>1, <2>1 DEF CountIsNotUnderstated, Holds, LedgerTypeOK
    <3>2. CASE ~Whole
      BY <3>2, <2>1 DEF Whole, LoneWriterIsCurrent, Holds, LedgerTypeOK
    <3>. QED BY <3>1, <3>2
  <2>. QED BY <2>1, <2>2 DEF LoneWriterIsCurrent, LedgerTypeOK, Holds
<1>5. CountIsNotUnderstated'
  BY DEF CountIsNotUnderstated, Whole, Unreadable, LedgerTypeOK
<1>. QED BY <1>2, <1>3, <1>4, <1>5

\* So does emptying the ledger, with the new row ready to be written.
LEMMA TruncateInvariant ==
  ASSUME LedgerInv, NEW w \in Writers, Truncate(w)
  PROVE  LedgerInv'
<1>. USE LedgerConstants DEF LedgerInv, Truncate, Duplicate
<1>1. /\ testing[w] \in Hypotheses /\ rows[w] \in Seq(Hypotheses)
      /\ rows'[w] = Append(rows[w], testing[w])
      /\ \A v \in Writers : v # w => rows'[v] = rows[v] /\ at'[v] = at[v]
      /\ at'[w] = "write" /\ ~Whole'
  BY DEF LedgerTypeOK, Whole, Unreadable
<1>2. LedgerTypeOK'
  BY <1>1 DEF LedgerTypeOK
<1>3. Distinct(rows'[w]) /\ Contains(rows'[w], testing[w])
  BY <1>1, AppendFresh DEF RowsAreDistinct
<1>4. RowsAreDistinct'
  BY <1>1, <1>3 DEF RowsAreDistinct, OneVerdictEach
<1>5. LoneWriterIsCurrent'
  <2>. SUFFICES ASSUME ~overlap PROVE LoneWriterIsCurrent'
    BY DEF LoneWriterIsCurrent
  <2>1. \A v \in Writers : at[v] # "idle" => v = w
    BY DEF LoneWriterIsCurrent
  <2>2. Holds(rows'[w], recorded)
    BY <1>1, AppendKeeps DEF Holds, LoneWriterIsCurrent
  <2>. QED BY <1>1, <1>3, <2>1, <2>2 DEF LoneWriterIsCurrent
<1>6. CountIsNotUnderstated'
  BY <1>1 DEF CountIsNotUnderstated
<1>. QED BY <1>2, <1>4, <1>5, <1>6

\* And leaving record, whatever of the text went to the ledger and whether or not the
\* verdict counts as recorded.
LEMMA LeaveInvariant ==
  ASSUME LedgerInv, NEW w \in Writers, Leave(w), at[w] # "idle",
         at[w] = "write" => ledger' \in {ledger, Garbled} \cup Overwritten(w),
         at[w] # "write" => ledger' = ledger,
         \/ recorded' = recorded
         \/ /\ recorded' = recorded \cup {testing[w]}
            /\ at[w] = "write" /\ ledger' \in Overwritten(w),
         overlap' = overlap
  PROVE  LedgerInv'
<1>. USE LedgerConstants DEF LedgerInv, Leave
<1>1. /\ testing[w] \in Hypotheses /\ rows[w] \in Seq(Hypotheses)
      /\ rows'[w] = <<>> /\ at'[w] = "idle"
      /\ \A v \in Writers : v # w => rows'[v] = rows[v] /\ at'[v] = at[v] /\ testing'[v] = testing[v]
  BY DEF LedgerTypeOK
<1>2. ledger' \in {ledger, Garbled} \/ (ledger' = rows[w] /\ at[w] = "write")
  BY DEF Overwritten, LedgerTypeOK
<1>3. LedgerTypeOK'
  BY <1>1, <1>2 DEF LedgerTypeOK
<1>4. RowsAreDistinct'
  <2>1. Distinct(<<>>)
    BY DEF Distinct
  <2>2. OneVerdictEach'
    BY <1>2 DEF RowsAreDistinct, OneVerdictEach, Distinct, Whole, Unreadable
  <2>. QED BY <1>1, <2>1, <2>2 DEF RowsAreDistinct
<1>5. ~overlap => LoneWriterIsCurrent' /\ CountIsNotUnderstated'
  <2>. SUFFICES ASSUME ~overlap PROVE LoneWriterIsCurrent' /\ CountIsNotUnderstated'
    OBVIOUS
  <2>1. \A v \in Writers : at'[v] = "idle"
    BY <1>1 DEF LoneWriterIsCurrent
  <2>2. CASE recorded' = recorded /\ ledger' \in {ledger, Garbled}
    BY <2>1, <2>2 DEF LoneWriterIsCurrent, CountIsNotUnderstated, Whole, Unreadable
  <2>3. CASE recorded' = recorded /\ ledger' = rows[w] /\ at[w] = "write"
    BY <2>1, <2>3, <1>1 DEF LoneWriterIsCurrent, CountIsNotUnderstated, Holds
  <2>4. CASE recorded' = recorded \cup {testing[w]} /\ at[w] = "write" /\ ledger' \in Overwritten(w)
    <3>1. ledger' = rows[w] /\ Contains(rows[w], testing[w]) /\ Holds(rows[w], recorded)
      BY <2>4 DEF LoneWriterIsCurrent, Overwritten
    <3>. QED BY <2>1, <2>4, <3>1, <1>1 DEF LoneWriterIsCurrent, CountIsNotUnderstated, Holds
  <2>. QED BY <1>2, <2>2, <2>3, <2>4
<1>. QED BY <1>3, <1>4, <1>5 DEF LoneWriterIsCurrent, CountIsNotUnderstated

\* So every step of every writer keeps the invariant.
LEMMA LedgerNextInvariant ==
  ASSUME LedgerInv, [LedgerNext]_ledgerVars
  PROVE  LedgerInv'
<1>1. ASSUME NEW w \in Writers, Record(w)
      PROVE  LedgerInv'
  <2>1. CASE \E h \in Hypotheses : Read(w, h)
    BY <2>1, ReadInvariant
  <2>2. CASE Refuse(w)
    BY <2>2, LeaveInvariant DEF Refuse
  <2>3. CASE Truncate(w)
    BY <2>3, TruncateInvariant
  <2>4. CASE Write(w)
    BY <2>4, LeaveInvariant DEF Write
  <2>5. CASE Die(w)
    BY <2>5, LeaveInvariant DEF Die
  <2>. QED BY <1>1, <2>1, <2>2, <2>3, <2>4, <2>5 DEF Record
<1>2. CASE UNCHANGED ledgerVars
  BY <1>2 DEF ledgerVars, LedgerInv, LedgerTypeOK, RowsAreDistinct, OneVerdictEach, Distinct,
              LoneWriterIsCurrent, CountIsNotUnderstated, Holds, Whole, Unreadable
<1>. QED BY <1>1, <1>2 DEF LedgerNext

\* The invariant holds throughout every behaviour of the ledger.
LEMMA LedgerInvariance == LedgerSpec => []LedgerInv
<1>1. LedgerInit => LedgerInv
  BY LedgerInitInvariant
<1>2. LedgerInv /\ [LedgerNext]_ledgerVars => LedgerInv'
  BY LedgerNextInvariant
<1>. QED BY <1>1, <1>2, PTL DEF LedgerSpec

\* However many writers overlap and die, no hypothesis has two verdicts
\* (JsonHypothesisRepository.record).
THEOREM VerdictsAreUnique == LedgerSpec => []OneVerdictEach
<1>1. LedgerInv => OneVerdictEach
  BY DEF LedgerInv, RowsAreDistinct
<1>. QED BY <1>1, LedgerInvariance, PTL

\* Without an overlap, a ledger that can be read holds every verdict recorded, wherever
\* writers were killed (record, count_tests).
THEOREM LedgerCountsEveryTest == LedgerSpec => []CountIsNotUnderstated
<1>1. LedgerInv => CountIsNotUnderstated
  BY DEF LedgerInv
<1>. QED BY <1>1, LedgerInvariance, PTL
=============================================================================
