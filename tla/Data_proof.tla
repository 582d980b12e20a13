----------------------------- MODULE Data_proof -----------------------------
(***************************************************************************)
(* The bars and what is computed from them: replays of an instant repeat   *)
(* what was said, no stale panel is served, a clean report is a whole      *)
(* panel, a feasible buy leaves a tick to the daily limit, appends are     *)
(* merges, counted exactly and kept, and a verdict counts sessions.        *)
(* Proofs about CrossSection, ReplaySource, BarQuality, PriceLimits,       *)
(* ParquetBarStore and Backtest.                                           *)
(***************************************************************************)
EXTENDS CrossSection, Backtest, ReplaySource, BarQuality, PriceLimits, ParquetBarStore,
        Collections_proof

(***************************************************************************)
(* The strategies.                                                         *)
(***************************************************************************)
\* What is loaded.
LoadedRows == [at : Nat, value : Turnovers]

\* Rows are of the time at which they were loaded or before.
RowsAreOfTheirTime ==
  \A s \in Symbols : \A n \in DOMAIN bars[s] : bars[s][n].at <= now

\* What was said was said before, or at this instant, for which no row is loaded any more.
SaidInThePast ==
  \A n \in DOMAIN said :
    said[n].at \in Nat /\ said[n].at <= now /\ (said[n].at = now => stage = "decided")

\* Rows come to a panel at their own time, so that nothing said before depends on them.
StrategiesInv ==
  /\ bars \in [Symbols -> Seq(LoadedRows)]
  /\ now \in Nat
  /\ said \in Seq({said[n] : n \in DOMAIN said})
  /\ RowsAreOfTheirTime
  /\ SaidInThePast
  /\ ReplayRepeats

\* What is selected from a list, at places that another list has the same members at, is
\* the same.
LEMMA SelectedAgree ==
  ASSUME NEW S \in SUBSET Nat, IsFiniteSet(S), NEW list, NEW other,
         \A n \in S : other[n] = list[n]
  PROVE  Selected(other, S) = Selected(list, S)
<1>1. PICK order : order = Ascending(S)
  OBVIOUS
<1>2. PICK n \in Nat : n = Cardinality(S)
  BY FS_CardinalityType
<1>3. order \in [1 .. n -> S]
  BY <1>1, <1>2, PlacesInOrder
<1>4. /\ Selected(other, S) = [i \in 1 .. n |-> other[order[i]]]
      /\ Selected(list, S) = [i \in 1 .. n |-> list[order[i]]]
  BY <1>1, <1>3 DEF Selected
<1>5. \A i \in 1 .. n : other[order[i]] = list[order[i]]
  BY <1>3
<1>6. QED
  BY <1>4, <1>5

\* A later row is not in the view of an instant.
LEMMA LaterRowIsNotSeen ==
  ASSUME NEW rows, rows \in Seq(LoadedRows), NEW row, row \in LoadedRows,
         NEW t, t \in Nat, t < row.at
  PROVE  Seen(Append(rows, row), t) = Seen(rows, t)
<1>1. PICK more : more = Append(rows, row)
  OBVIOUS
<1>2. /\ Len(rows) \in Nat /\ DOMAIN rows = 1 .. Len(rows) /\ DOMAIN more = 1 .. Len(rows) + 1
      /\ more[Len(rows) + 1] = row /\ \A n \in DOMAIN rows : more[n] = rows[n]
  BY <1>1
<1>3. ~(row.at <= t)
  BY DEF LoadedRows
<1>4. {n \in DOMAIN more : more[n].at <= t} = {n \in DOMAIN rows : rows[n].at <= t}
  BY <1>2, <1>3
<1>5. PICK S : S = {n \in DOMAIN rows : rows[n].at <= t}
  OBVIOUS
<1>6. S \in SUBSET Nat /\ IsFiniteSet(S)
  <2>1. IsFiniteSet(1 .. Len(rows))
    <3>1. 1 \in Int /\ Len(rows) \in Int
      BY ONLY <1>2
    <3>2. QED
      BY ONLY <3>1, FS_Interval
  <2>2. S \subseteq 1 .. Len(rows)
    BY <1>2, <1>5
  <2>3. IsFiniteSet(S)
    BY ONLY <2>1, <2>2, FS_Subset
  <2>4. QED
    BY ONLY <1>2, <2>2, <2>3
<1>7. \A n \in S : more[n] = rows[n]
  BY <1>2, <1>5
<1>8. Selected(more, S) = Selected(rows, S)
  BY <1>6, <1>7, SelectedAgree
<1>9. QED
  BY <1>1, <1>4, <1>5, <1>8 DEF Seen

\* The panel with one more row of an instrument.
WithRow(loaded, s, row) == [loaded EXCEPT ![s] = Append(loaded[s], row)]

\* So neither strategy sees it.
LEMMA ViewIsThatOfTheInstant ==
  ASSUME NEW loaded, loaded \in [Symbols -> Seq(LoadedRows)], NEW s, s \in Symbols,
         NEW row, row \in LoadedRows, NEW t, t \in Nat, t < row.at
  PROVE  View(WithRow(loaded, s, row), t) = View(loaded, t)
<1>0. PICK later : later = WithRow(loaded, s, row)
  OBVIOUS
<1>1. /\ DOMAIN later = Symbols /\ DOMAIN loaded = Symbols
      /\ \A q \in Symbols : later[q] = IF q = s THEN Append(loaded[q], row) ELSE loaded[q]
  BY <1>0 DEF WithRow
<1>2. ASSUME NEW q \in Symbols
      PROVE  Seen(later[q], t) = Seen(loaded[q], t)
  <2>1. CASE q # s
    BY <1>1, <2>1
  <2>2. CASE q = s
    <3>1. later[q] = Append(loaded[q], row) /\ loaded[q] \in Seq(LoadedRows)
      BY <1>1, <2>2
    <3>2. QED
      BY ONLY <3>1, row \in LoadedRows, t \in Nat, t < row.at, LaterRowIsNotSeen
  <2>3. QED
    BY <2>1, <2>2
<1>3. QED
  BY <1>0, <1>1, <1>2 DEF View

\* A loaded row changes nothing that was said at an earlier instant.
LEMMA LoadInvariant ==
  ASSUME StrategiesInv, NEW s \in Symbols, NEW v \in Turnovers, Load(s, v)
  PROVE  StrategiesInv'
<1>1. PICK row : row = [at |-> now, value |-> v]
  OBVIOUS
<1>2. /\ stage = "load" /\ UNCHANGED <<now, stage, said>>
      /\ bars' = [bars EXCEPT ![s] = Append(bars[s], row)]
  BY <1>1 DEF Load
<1>3. row \in LoadedRows /\ row.at = now /\ now \in Nat /\ bars \in [Symbols -> Seq(LoadedRows)]
  BY <1>1 DEF StrategiesInv, LoadedRows
<1>4. bars' \in [Symbols -> Seq(LoadedRows)]
  <2>1. Append(bars[s], row) \in Seq(LoadedRows)
    BY <1>3
  <2>2. QED
    BY <1>2, <1>3, <2>1
<1>5. RowsAreOfTheirTime'
  <2> SUFFICES ASSUME NEW q \in Symbols, NEW n \in DOMAIN bars'[q] PROVE bars'[q][n].at <= now
    BY <1>2 DEF RowsAreOfTheirTime
  <2>1. CASE q # s
    BY <1>2, <1>3, <2>1 DEF StrategiesInv, RowsAreOfTheirTime
  <2>2. CASE q = s
    <3>1. bars'[q] = Append(bars[q], row) /\ bars[q] \in Seq(LoadedRows)
      BY <1>2, <1>3, <2>2
    <3>2. CASE n \in DOMAIN bars[q]
      <4>1. bars'[q][n] = bars[q][n]
        BY <3>1, <3>2
      <4>2. QED
        BY <3>2, <4>1 DEF StrategiesInv, RowsAreOfTheirTime
    <3>3. CASE n \notin DOMAIN bars[q]
      <4>1. bars'[q][n] = row
        BY <3>1, <3>3
      <4>2. QED
        BY <1>3, <4>1
    <3>4. QED
      BY <3>2, <3>3
  <2>3. QED
    BY <2>1, <2>2
<1>6. SaidInThePast'
  BY <1>2 DEF StrategiesInv, SaidInThePast
<1>7. ASSUME NEW n \in DOMAIN said
      PROVE  Answers(bars', said[n].at) = said[n].answers
  <2>1. said[n].at \in Nat /\ said[n].at < row.at
    BY <1>2, <1>3 DEF StrategiesInv, SaidInThePast
  <2>2. PICK t \in Nat : t = said[n].at
    BY <2>1
  <2>3. View(bars', t) = View(bars, t)
    <3>1. bars' = WithRow(bars, s, row)
      BY <1>2 DEF WithRow
    <3>2. View(WithRow(bars, s, row), t) = View(bars, t)
      BY <1>3, <2>1, <2>2, ViewIsThatOfTheInstant
    <3>3. QED
      BY <3>1, <3>2
  <2>4. Answers(bars', t) = Answers(bars, t)
    BY <2>3 DEF Answers
  <2>5. QED
    BY <2>2, <2>4 DEF StrategiesInv, ReplayRepeats
<1>8. ReplayRepeats'
  BY <1>2, <1>7 DEF ReplayRepeats
<1>9. (said \in Seq({said[n] : n \in DOMAIN said}))'
  BY <1>2 DEF StrategiesInv
<1>10. QED
  BY <1>2, <1>3, <1>4, <1>5, <1>6, <1>8, <1>9 DEF StrategiesInv

\* A decision is what the strategies answer to the panel that is there.
LEMMA DecideInvariant ==
  ASSUME StrategiesInv, Decide
  PROVE  StrategiesInv'
<1>1. PICK x : x = [at |-> now, answers |-> Answers(bars, now)]
  OBVIOUS
<1>2. stage' = "decided" /\ said' = Append(said, x) /\ UNCHANGED <<bars, now>>
  BY <1>1 DEF Decide
<1>3. PICK F : F = {said[n] : n \in DOMAIN said} \cup {x}
  OBVIOUS
<1>4. said \in Seq(F) /\ x \in F /\ now \in Nat
  BY <1>3 DEF StrategiesInv
<1>5. /\ said' \in Seq(F) /\ DOMAIN said' = 1 .. Len(said) + 1 /\ Len(said) \in Nat
      /\ DOMAIN said = 1 .. Len(said)
      /\ said'[Len(said) + 1] = x /\ \A n \in DOMAIN said : said'[n] = said[n]
  BY <1>2, <1>4
<1>6. \A n \in DOMAIN said' : n \in DOMAIN said \/ said'[n] = x
  BY <1>5
<1>7. said' \in Seq({said'[n] : n \in DOMAIN said'})
  <2>1. \A n \in DOMAIN said' : said'[n] \in {said'[m] : m \in DOMAIN said'}
    OBVIOUS
  <2>2. said' = [n \in 1 .. Len(said) + 1 |-> said'[n]]
    BY <1>5
  <2>3. QED
    BY ONLY <1>5, <2>1, <2>2
<1>8. SaidInThePast'
  <2>1. x.at = now
    BY <1>1
  <2>2. QED
    BY <1>2, <1>4, <1>5, <1>6, <2>1 DEF StrategiesInv, SaidInThePast
<1>9. ReplayRepeats'
  <2>1. Answers(bars, x.at) = x.answers
    BY <1>1
  <2>2. \A n \in DOMAIN said' : Answers(bars, said'[n].at) = said'[n].answers
    BY <1>5, <1>6, <2>1 DEF StrategiesInv, ReplayRepeats
  <2>3. QED
    BY <1>2, <2>2 DEF ReplayRepeats
<1>10. RowsAreOfTheirTime'
  BY <1>2 DEF StrategiesInv, RowsAreOfTheirTime
<1>11. QED
  BY <1>2, <1>4, <1>7, <1>8, <1>9, <1>10 DEF StrategiesInv

\* Every step keeps what was said.
LEMMA StrategiesStep ==
  ASSUME StrategiesInv, [StrategiesNext]_strategiesVars
  PROVE  StrategiesInv'
<1>1. CASE \E s \in Symbols, v \in Turnovers : Load(s, v)
  BY <1>1, LoadInvariant
<1>2. CASE Decide
  BY <1>2, DecideInvariant
<1>3. CASE Tick
  <2>1. stage = "decided" /\ now' = now + 1 /\ UNCHANGED <<bars, said>> /\ now \in Nat
    BY <1>3 DEF Tick, StrategiesInv
  <2>2. RowsAreOfTheirTime'
    <3> SUFFICES ASSUME NEW s \in Symbols, NEW n \in DOMAIN bars[s] PROVE bars[s][n].at <= now + 1
      BY <2>1 DEF RowsAreOfTheirTime
    <3>1. bars[s][n] \in LoadedRows /\ bars[s][n].at <= now
      BY DEF StrategiesInv, RowsAreOfTheirTime
    <3>2. QED
      BY <2>1, <3>1 DEF LoadedRows
  <2>3. SaidInThePast'
    <3> SUFFICES ASSUME NEW n \in DOMAIN said
        PROVE said[n].at \in Nat /\ said[n].at < now + 1
      BY <2>1 DEF SaidInThePast
    <3>1. QED
      BY <2>1 DEF StrategiesInv, SaidInThePast
  <2>4. ReplayRepeats'
    BY <2>1 DEF StrategiesInv, ReplayRepeats
  <2>5. QED
    BY <2>1, <2>2, <2>3, <2>4 DEF StrategiesInv
<1>4. CASE UNCHANGED strategiesVars
  BY <1>4 DEF strategiesVars, StrategiesInv, RowsAreOfTheirTime, SaidInThePast, ReplayRepeats
<1>5. QED
  BY <1>1, <1>2, <1>3, <1>4 DEF StrategiesNext

\* At first there is nothing.
LEMMA StrategiesStart == ASSUME StrategiesInit PROVE StrategiesInv
<1>1. bars = [s \in Symbols |-> <<>>] /\ now = 1 /\ said = <<>>
  BY DEF StrategiesInit
<1>2. <<>> \in Seq(LoadedRows) /\ DOMAIN <<>> = {}
  OBVIOUS
<1>3. bars \in [Symbols -> Seq(LoadedRows)] /\ \A s \in Symbols : DOMAIN bars[s] = {}
  BY <1>1, <1>2
<1>4. DOMAIN said = {} /\ said \in Seq({said[n] : n \in DOMAIN said})
  BY <1>1, <1>2
<1>5. QED
  BY <1>1, <1>3, <1>4 DEF StrategiesInv, RowsAreOfTheirTime, SaidInThePast, ReplayRepeats

\* A list with one more member, at a place of the list.
LEMMA InsertedIs ==
  ASSUME NEW F, NEW rows, rows \in Seq(F), NEW n, n \in DOMAIN rows, NEW e, e \in F,
         NEW more, more = InsertAt(rows, n, e)
  PROVE  /\ Len(rows) \in Nat /\ n \in 1 .. Len(rows) /\ DOMAIN more = 1 .. Len(rows) + 1
         /\ \A i \in 1 .. n - 1 : more[i] = rows[i]
         /\ more[n] = e
         /\ \A i \in n .. Len(rows) : more[i + 1] = rows[i]
<1>1. Len(rows) \in Nat /\ DOMAIN rows = 1 .. Len(rows) /\ n \in 1 .. Len(rows)
  OBVIOUS
<1>2. PICK head, tail : head = SubSeq(rows, 1, n - 1) /\ tail = SubSeq(rows, n, Len(rows))
  OBVIOUS
<1>3. /\ head \in Seq(F) /\ Len(head) = n - 1
      /\ \A i \in 1 .. n - 1 : head[i] = rows[i]
  BY <1>1, <1>2
<1>4. /\ tail \in Seq(F) /\ Len(tail) = Len(rows) - n + 1
      /\ \A i \in 1 .. Len(rows) - n + 1 : tail[i] = rows[n + i - 1]
  BY <1>1, <1>2
<1>5. PICK front : front = head \o <<e>>
  OBVIOUS
<1>6. /\ front \in Seq(F) /\ Len(front) = n /\ front[n] = e
      /\ \A i \in 1 .. n - 1 : front[i] = rows[i]
  <2>1. PICK m \in Nat : m = n - 1
    BY ONLY <1>1
  <2>2. head \in Seq(F) /\ Len(head) = m
    BY ONLY <1>3, <2>1
  <2>3. front \in Seq(F) /\ Len(front) = m + 1
    BY ONLY <1>5, <2>2, e \in F
  <2>4. front[m + 1] = e
    BY ONLY <1>5, <2>2, e \in F
  <2>5. \A i \in 1 .. m : front[i] = head[i]
    BY ONLY <1>5, <2>2, e \in F
  <2>6. m + 1 = n
    BY ONLY <1>1, <2>1
  <2>7. QED
    BY ONLY <1>3, <2>1, <2>3, <2>4, <2>5, <2>6
<1>7. more = front \o tail
  BY <1>2, <1>5 DEF InsertAt
<1>8. /\ Len(more) = Len(rows) + 1 /\ more \in Seq(F)
      /\ \A i \in 1 .. n : more[i] = front[i]
      /\ \A i \in n + 1 .. Len(rows) + 1 : more[i] = tail[i - n]
  <2>1. front \in Seq(F) /\ tail \in Seq(F) /\ more = front \o tail
    BY ONLY <1>4, <1>6, <1>7
  <2>2. more \in Seq(F) /\ Len(more) = Len(front) + Len(tail) /\ Len(front) \in Nat /\ Len(tail) \in Nat
    BY ONLY <2>1
  <2>3. \A i \in 1 .. Len(front) : more[i] = front[i]
    BY ONLY <2>1, <2>2
  <2>4. \A i \in Len(front) + 1 .. Len(front) + Len(tail) : more[i] = tail[i - Len(front)]
    BY ONLY <2>1, <2>2
  <2>5. Len(front) + Len(tail) = Len(rows) + 1
    BY ONLY <1>1, <1>4, <1>6
  <2>6. QED
    BY ONLY <1>6, <2>2, <2>3, <2>4, <2>5
<1>9. DOMAIN more = 1 .. Len(rows) + 1
  BY <1>8
<1>10. more[n] = e
  BY <1>1, <1>6, <1>8
<1>11. \A i \in 1 .. n - 1 : more[i] = rows[i]
  <2>1. \A i \in 1 .. n - 1 : i \in 1 .. n
    BY ONLY <1>1
  <2>2. QED
    BY ONLY <1>6, <1>8, <2>1
<1>12. ASSUME NEW i \in n .. Len(rows)
       PROVE  more[i + 1] = rows[i]
  <2>1. PICK k : k = i + 1
    OBVIOUS
  <2>2. PICK m : m = i + 1 - n
    OBVIOUS
  <2>3. k \in n + 1 .. Len(rows) + 1 /\ k - n = m /\ m \in 1 .. Len(rows) - n + 1 /\ n + m - 1 = i
    BY ONLY <1>1, <2>1, <2>2, i \in n .. Len(rows)
  <2>4. more[k] = tail[m]
    BY ONLY <1>8, <2>3
  <2>5. tail[m] = rows[i]
    BY ONLY <1>4, <2>3
  <2>6. QED
    BY ONLY <2>1, <2>4, <2>5
<1>13. QED
  BY ONLY <1>1, <1>9, <1>10, <1>11, <1>12

\* A list with a member twice over, one after the other.
LEMMA RepeatedIs ==
  ASSUME NEW F, NEW rows, rows \in Seq(F), NEW n, n \in DOMAIN rows,
         NEW twice, twice = InsertAt(rows, n, rows[n])
  PROVE  /\ Len(rows) \in Nat /\ DOMAIN twice = 1 .. Len(rows) + 1
         /\ n \in Nat /\ n \in DOMAIN twice /\ n + 1 \in DOMAIN twice
         /\ twice[n] = rows[n] /\ twice[n + 1] = rows[n]
         /\ \A i \in DOMAIN twice : \E j \in DOMAIN rows : twice[i] = rows[j]
<1>1. PICK e \in F : e = rows[n]
  OBVIOUS
<1>2. /\ Len(rows) \in Nat /\ n \in 1 .. Len(rows) /\ DOMAIN twice = 1 .. Len(rows) + 1
      /\ \A i \in 1 .. n - 1 : twice[i] = rows[i]
      /\ twice[n] = e
      /\ \A i \in n .. Len(rows) : twice[i + 1] = rows[i]
  <2>1. twice = InsertAt(rows, n, e)
    BY ONLY <1>1, twice = InsertAt(rows, n, rows[n])
  <2>2. QED
    BY ONLY <2>1, e \in F, rows \in Seq(F), n \in DOMAIN rows, InsertedIs
<1>3. twice[n + 1] = rows[n]
  BY ONLY <1>2
<1>4. DOMAIN rows = 1 .. Len(rows)
  OBVIOUS
<1>5. ASSUME NEW i \in 1 .. Len(rows) + 1
      PROVE  \E j \in DOMAIN rows : twice[i] = rows[j]
  <2>1. CASE i <= n - 1
    BY ONLY <1>2, <1>4, <2>1, i \in 1 .. Len(rows) + 1
  <2>2. CASE i = n
    BY ONLY <1>1, <1>2, <1>4, <2>2
  <2>3. CASE i > n
    <3>1. PICK j : j = i - 1
      OBVIOUS
    <3>2. j \in n .. Len(rows) /\ j + 1 = i /\ j \in 1 .. Len(rows)
      BY ONLY <1>2, <2>3, <3>1, i \in 1 .. Len(rows) + 1
    <3>3. twice[j + 1] = rows[j]
      BY ONLY <1>2, <3>2
    <3>4. QED
      BY ONLY <1>4, <3>2, <3>3
  <2>4. QED
    BY ONLY <1>2, <2>1, <2>2, <2>3, i \in 1 .. Len(rows) + 1
<1>6. QED
  BY <1>1, <1>2, <1>3, <1>5

\* Rows of which two that follow each other are of one time, and none is of a later one
\* than the instant, make a cross-section that no strategy is ready to use.
LEMMA RepeatIsNotUsable ==
  ASSUME NEW loaded, NEW s \in Symbols, DOMAIN loaded = Symbols, NEW t, NEW len \in Nat,
         DOMAIN loaded[s] = 1 .. len, \A i \in 1 .. len : loaded[s][i].at <= t /\ loaded[s][i].at \in Nat,
         NEW n \in Nat, n \in 1 .. len, n + 1 \in 1 .. len, loaded[s][n].at = loaded[s][n + 1].at
  PROVE  ~Usable(View(loaded, t), t)
<1>1. PICK rows : rows = loaded[s]
  OBVIOUS
<1>2. View(loaded, t)[s] = Selected(rows, 1 .. len)
  <2>1. {i \in DOMAIN rows : rows[i].at <= t} = 1 .. len
    BY <1>1
  <2>2. QED
    BY <1>1, <2>1 DEF View, Seen
<1>3. IsFiniteSet(1 .. len) /\ 1 .. len \in SUBSET Nat
  BY FS_Interval
<1>4. PICK order : order = Ascending(1 .. len)
  OBVIOUS
<1>5. PICK c \in Nat : c = Cardinality(1 .. len)
  BY <1>3, FS_CardinalityType
<1>6. /\ order \in [1 .. c -> 1 .. len]
      /\ \A x \in 1 .. len : \E i \in 1 .. c : order[i] = x
      /\ \A i, j \in 1 .. c : i < j => order[i] < order[j]
  <2>1. PICK S : S = 1 .. len
    OBVIOUS
  <2>2. S \in SUBSET Nat /\ IsFiniteSet(S) /\ order = Ascending(S) /\ c = Cardinality(S)
    BY ONLY <1>3, <1>4, <1>5, <2>1
  <2>3. /\ order \in [1 .. c -> S]
        /\ \A x \in S : \E i \in 1 .. c : order[i] = x
        /\ \A i, j \in 1 .. c : i < j => order[i] < order[j]
    BY ONLY <2>2, PlacesInOrder
  <2>4. QED
    BY ONLY <2>1, <2>3
<1>7. PICK seen : seen = Selected(rows, 1 .. len)
  OBVIOUS
<1>8. seen = [i \in 1 .. c |-> rows[order[i]]]
  BY <1>4, <1>6, <1>7 DEF Selected
<1>9. Len(seen) = c
  <2>1. PICK G : G = {rows[k] : k \in 1 .. len}
    OBVIOUS
  <2>2. \A k \in 1 .. c : rows[order[k]] \in G
    BY <1>6, <2>1
  <2>3. seen \in Seq(G)
    BY ONLY <1>8, <2>2, c \in Nat
  <2>4. QED
    BY ONLY <1>8, <2>3, c \in Nat
<1>10. PICK i \in 1 .. c, j \in 1 .. c : order[i] = n /\ order[j] = n + 1
  BY <1>6
<1>11. i < j
  <2>1. j < i => order[j] < order[i]
    BY <1>6
  <2>2. QED
    BY <1>10, <2>1
<1>12. j = i + 1
  <2>1. CASE i + 1 < j
    <3>1. PICK k \in 1 .. c : i < k /\ k < j
      BY <2>1
    <3>2. order[i] < order[k] /\ order[k] < order[j] /\ order[k] \in 1 .. len
      BY ONLY <1>6, <3>1, i \in 1 .. c, j \in 1 .. c, k \in 1 .. c
    <3>3. QED
      BY <1>10, <3>2
  <2>2. QED
    BY <1>11, <2>1
<1>13. i \in 1 .. Len(seen) - 1 /\ seen[i] = rows[n] /\ seen[i + 1] = rows[n + 1]
  BY <1>8, <1>9, <1>10, <1>12
<1>14. ~(seen[i].at < seen[i + 1].at)
  BY <1>1, <1>13
<1>15. ~Usable(View(loaded, t), t)
  BY <1>2, <1>7, <1>13, <1>14 DEF Usable
<1>16. QED
  BY <1>15

\* With a repeated row the rule raises.
LEMMA RepeatsAreNoticed == ASSUME StrategiesInv PROVE RepeatedRowIsNoticed
<1> SUFFICES ASSUME NEW s \in Symbols, NEW n \in DOMAIN bars[s]
    PROVE Answers(Repeated(bars, s, n), now).rule = StrategyError
  BY DEF RepeatedRowIsNoticed
<1>1. PICK rows \in Seq(LoadedRows) : rows = bars[s]
  BY DEF StrategiesInv
<1>2. PICK twice : twice = InsertAt(rows, n, rows[n])
  OBVIOUS
<1>3. PICK loaded : loaded = Repeated(bars, s, n)
  OBVIOUS
<1>4. DOMAIN loaded = Symbols /\ loaded[s] = twice
  BY <1>1, <1>2, <1>3 DEF Repeated, StrategiesInv
<1>5. /\ Len(rows) \in Nat /\ DOMAIN twice = 1 .. Len(rows) + 1
      /\ n \in Nat /\ n \in DOMAIN twice /\ n + 1 \in DOMAIN twice
      /\ twice[n] = rows[n] /\ twice[n + 1] = rows[n]
      /\ \A i \in DOMAIN twice : \E j \in DOMAIN rows : twice[i] = rows[j]
  <2>1. n \in DOMAIN rows /\ rows \in Seq(LoadedRows)
    BY <1>1
  <2>2. QED
    BY ONLY <1>2, <2>1, RepeatedIs
<1>6. \A j \in DOMAIN rows : rows[j].at \in Nat /\ rows[j].at <= now
  <2>1. \A j \in DOMAIN rows : rows[j] \in LoadedRows
    BY <1>1
  <2>2. QED
    BY <1>1, <2>1 DEF StrategiesInv, RowsAreOfTheirTime, LoadedRows
<1>7. PICK len \in Nat : len = Len(rows) + 1
  BY <1>5
<1>8. \A i \in 1 .. len : loaded[s][i].at <= now /\ loaded[s][i].at \in Nat
  BY <1>4, <1>5, <1>6, <1>7
<1>9. ~Usable(View(loaded, now), now)
  BY <1>4, <1>5, <1>7, <1>8, RepeatIsNotUsable
<1>10. Answers(loaded, now).rule = StrategyError
  BY <1>9 DEF Answers, HourRule
<1>11. QED
  BY <1>3, <1>10

\* For panels of any length and any instruments: what the strategies answered at an instant
\* they answer again over the panel that has grown since (run_session, _rng_for).
THEOREM ReplaysRepeat == StrategiesSpec => []ReplayRepeats
<1>1. StrategiesInit => StrategiesInv
  BY StrategiesStart
<1>2. StrategiesInv /\ [StrategiesNext]_strategiesVars => StrategiesInv'
  BY StrategiesStep
<1>3. StrategiesInv => ReplayRepeats
  BY DEF StrategiesInv
<1>4. QED
  BY <1>1, <1>2, <1>3, PTL DEF StrategiesSpec

\* For any panel of loaded rows: no repeated row changes a ranking unnoticed, wherever it is
\* (assert_usable_cross_section).
THEOREM RepeatedRowsAreNoticed == StrategiesSpec => []RepeatedRowIsNoticed
<1>1. StrategiesInit => StrategiesInv
  BY StrategiesStart
<1>2. StrategiesInv /\ [StrategiesNext]_strategiesVars => StrategiesInv'
  BY StrategiesStep
<1>3. StrategiesInv => RepeatedRowIsNoticed
  BY RepeatsAreNoticed
<1>4. QED
  BY <1>1, <1>2, <1>3, PTL DEF StrategiesSpec

(***************************************************************************)
(* The replay source.                                                      *)
(***************************************************************************)
Versions == 0 .. MaxVersions

SourceTypeOK ==
  /\ newest \in Versions /\ gone \in Versions /\ file \in Versions
  /\ spoiled \in SUBSET Versions
  /\ phase \in [Sources -> {"idle", "stat", "read", "answered"}]
  /\ key \in [Sources -> Versions]
  /\ cache \in [Sources -> [key : Versions \cup {-1}, panel : Versions]]
  /\ call \in [Sources -> Versions]
  /\ answer \in [Sources -> Versions]

\* What is in place is newer than what is gone, and nothing comes back.
NothingComesBack == gone <= newest /\ (file # None => file = newest /\ file > gone)

\* A panel is cached under the key that was read before it, so that it is never older
\* than its key says; and the key a call goes on with is not older than the call.
CacheIsNotStale ==
  \A s \in Sources :
    /\ cache[s].key <= newest /\ cache[s].panel <= newest
    /\ cache[s].key # -1 => cache[s].key <= cache[s].panel
    /\ call[s] <= gone
    /\ key[s] <= newest

SourceInv == SourceTypeOK /\ NothingComesBack /\ CacheIsNotStale /\ ServedWasInPlace

\* No file, and sources that have not read.
LEMMA SourceInitInvariant == ASSUME SourceInit PROVE SourceInv
BY VersionBound
   DEF SourceInit, SourceInv, SourceTypeOK, NothingComesBack, CacheIsNotStale,
       ServedWasInPlace, Versions, None

\* Generators and operators change what is in place, sources what they know of it.
LEMMA SourceNextInvariant ==
  ASSUME SourceInv, [SourceNext]_sourceVars
  PROVE  SourceInv'
<1>. USE VersionBound DEF SourceInv, SourceTypeOK, NothingComesBack, CacheIsNotStale,
                          ServedWasInPlace, Versions, None
<1>1. ASSUME NEW bad \in BOOLEAN, Replaced(bad)
      PROVE  SourceInv'
  BY <1>1 DEF Replaced
<1>2. CASE Removed
  BY <1>2 DEF Removed
<1>3. ASSUME NEW s \in Sources, Call(s)
      PROVE  SourceInv'
  BY <1>3 DEF Call
<1>4. ASSUME NEW s \in Sources, Stat(s)
      PROVE  SourceInv'
  <2>1. CASE file = None
    BY <1>4, <2>1 DEF Stat, Answer
  <2>2. CASE file # None /\ cache[s].key = file
    <3>1. cache[s].panel \in Versions /\ cache[s].panel >= file /\ file > call[s]
      BY <1>4, <2>2
    <3>2. /\ answer' = [answer EXCEPT ![s] = cache[s].panel]
          /\ phase' = [phase EXCEPT ![s] = "answered"]
          /\ key' = [key EXCEPT ![s] = file]
          /\ UNCHANGED <<file, spoiled, newest, gone, cache, call>>
      BY <1>4, <2>2 DEF Stat, Answer
    <3>3. SourceTypeOK' /\ NothingComesBack'
      BY <1>4, <3>1, <3>2
    <3>4. CacheIsNotStale'
      BY <1>4, <3>2
    <3>5. ServedWasInPlace'
      BY <1>4, <3>1, <3>2
    <3>. QED BY <3>3, <3>4, <3>5
  <2>3. CASE file # None /\ cache[s].key # file
    BY <1>4, <2>3 DEF Stat
  <2>. QED BY <2>1, <2>2, <2>3
<1>5. ASSUME NEW s \in Sources, Read(s)
      PROVE  SourceInv'
  <2>1. CASE file = None \/ file \in spoiled
    BY <1>5, <2>1 DEF Read, Answer
  <2>2. CASE ~(file = None \/ file \in spoiled)
    <3>1. file \in Versions /\ file > call[s] /\ key[s] <= file
      BY <1>5, <2>2
    <3>2. /\ answer' = [answer EXCEPT ![s] = file]
          /\ phase' = [phase EXCEPT ![s] = "answered"]
          /\ cache' = [cache EXCEPT ![s] = [key |-> key[s], panel |-> file]]
          /\ UNCHANGED <<file, spoiled, newest, gone, key, call>>
      BY <1>5, <2>2 DEF Read, Answer, Cached
    <3>3. SourceTypeOK' /\ NothingComesBack'
      BY <1>5, <3>1, <3>2
    <3>4. CacheIsNotStale'
      BY <1>5, <3>1, <3>2
    <3>5. ServedWasInPlace'
      BY <1>5, <3>1, <3>2
    <3>. QED BY <3>3, <3>4, <3>5
  <2>. QED BY <2>1, <2>2
<1>6. CASE UNCHANGED sourceVars
  BY <1>6 DEF sourceVars
<1>. QED BY <1>1, <1>2, <1>3, <1>4, <1>5, <1>6 DEF SourceNext

\* For any number of sources and versions: a panel that is served was in place at some
\* moment of the call (ReplayBarSource._panel).
THEOREM NoStalePanelIsServed == SourceSpec => []ServedWasInPlace
<1>1. SourceInit => SourceInv
  BY SourceInitInvariant
<1>2. SourceInv /\ [SourceNext]_sourceVars => SourceInv'
  BY SourceNextInvariant
<1>3. SourceInv => ServedWasInPlace
  BY DEF SourceInv
<1>. QED BY <1>1, <1>2, <1>3, PTL DEF SourceSpec

(***************************************************************************)
(* The quality report: what is counted, and what the counts are of.        *)
(***************************************************************************)
\* A panel is a sequence of rows.
PanelOK == panel \in Seq(Rows)

\* Dividing by a number, and the remainder.
LEMMA Division ==
  ASSUME NEW i \in Nat \ {0}, NEW m \in Nat
  PROVE  /\ m \div i \in Nat /\ m % i \in Nat /\ m = (m \div i) * i + (m % i)
         /\ \A k \in Nat : (k * i) % i = 0 /\ (k * i) \div i = k
OBVIOUS

\* A product is the larger, the larger its factors are.
LEMMA ProductIsMonotonic ==
  ASSUME NEW i \in Nat \ {0}, NEW j \in Nat, NEW k \in Nat
  PROVE  j < k <=> j * i < k * i
<1>1. \A m \in Nat : m * i >= 0
  OBVIOUS
<1>2. \A a \in Int, b \in Int : (a - b) * i = a * i - b * i
  OBVIOUS
<1>3. QED
  OBVIOUS

\* Of the minutes below N the multiples of i, which divides N, are N \div i.
Multiples(N, i) == {m \in 0 .. N - 1 : m % i = 0}

\* They are the products of i with the numbers below N \div i.
LEMMA CountOfMultiples ==
  ASSUME NEW i \in Nat \ {0}, NEW N \in Nat \ {0}, N % i = 0
  PROVE  IsFiniteSet(Multiples(N, i)) /\ Cardinality(Multiples(N, i)) = N \div i
<1> DEFINE q == N \div i
           S == 0 .. q - 1
           f == [k \in S |-> k * i]
<1>1. q \in Nat /\ N = q * i
  BY Division
<1>2. IsFiniteSet(S) /\ Cardinality(S) = q
  <2> HIDE DEF q
  <2>1. QED
    BY <1>1, FS_Interval
<1>3. f \in Bijection(S, Multiples(N, i))
  <2> HIDE DEF q
  <2>1. ASSUME NEW k \in S PROVE k * i \in Multiples(N, i)
    <3>1. k \in Nat /\ k < q
      BY <1>1
    <3>2. k * i \in Nat /\ k * i < q * i
      BY <1>1, <3>1, ProductIsMonotonic
    <3>3. (k * i) % i = 0
      BY <3>1, Division
    <3>4. QED
      BY <1>1, <3>2, <3>3 DEF Multiples
  <2>2. ASSUME NEW j \in S, NEW k \in S, j * i = k * i PROVE j = k
    <3>1. j \in Nat /\ k \in Nat
      BY <1>1
    <3>2. QED
      BY <2>2, <3>1, Division
  <2>3. ASSUME NEW m \in Multiples(N, i) PROVE \E k \in S : k * i = m
    <3>1. m \in Nat /\ m < N /\ m % i = 0
      BY DEF Multiples
    <3>2. m \div i \in Nat /\ m = (m \div i) * i
      BY <3>1, Division
    <3>3. m \div i < q
      BY <1>1, <3>1, <3>2, ProductIsMonotonic
    <3>4. m \div i \in S
      BY <1>1, <3>2, <3>3
    <3>5. QED
      BY <3>2, <3>4
  <2>4. f \in [S -> Multiples(N, i)]
    BY <2>1
  <2> HIDE DEF S
  <2>5. \A k \in S : f[k] = k * i
    OBVIOUS
  <2> HIDE DEF f
  <2>6. QED
    BY ONLY <2>2, <2>3, <2>4, <2>5 DEF Bijection, Injection, Surjection, IsInjective
<1>4. QED
  <2>1. ExistsBijection(S, Multiples(N, i))
    BY <1>3 DEF ExistsBijection
  <2> HIDE DEF S, q
  <2>2. QED
    BY ONLY <1>2, <2>1, FS_Bijection DEF q

\* The rows are counted by their places.
LEMMA PlacesAreCounted ==
  ASSUME PanelOK
  PROVE  /\ IsFiniteSet(DOMAIN panel) /\ Cardinality(DOMAIN panel) = Len(panel)
         /\ Len(panel) \in Nat /\ DOMAIN panel = 1 .. Len(panel)
<1>1. Len(panel) \in Nat /\ DOMAIN panel = 1 .. Len(panel)
  BY DEF PanelOK
<1>2. IsFiniteSet(1 .. Len(panel)) /\ Cardinality(1 .. Len(panel)) = Len(panel)
  <2>1. \A k \in Nat : IsFiniteSet(1 .. k) /\ Cardinality(1 .. k) = k
    BY FS_Interval
  <2>2. QED
    BY ONLY <1>1, <2>1
<1>3. QED
  BY <1>1, <1>2

\* No row is of another moment of its own if and only if none is counted as a duplicate.
LEMMA DuplicatesAreRepeats ==
  ASSUME PanelOK
  PROVE  /\ IsFiniteSet(Moments) /\ Duplicates \in Nat
         /\ Duplicates = 0
              <=> \A m, n \in DOMAIN panel : Moment(panel[m]) = Moment(panel[n]) => m = n
<1> DEFINE D == DOMAIN panel
           f == [n \in D |-> Moment(panel[n])]
<1>1. f \in Surjection(D, Moments)
  BY DEF Surjection, Moments
<1>2. IsFiniteSet(D) /\ Cardinality(D) = Len(panel) /\ Len(panel) \in Nat
  BY PlacesAreCounted
<1>3. f \in Injection(D, Moments)
        <=> \A m, n \in DOMAIN panel : Moment(panel[m]) = Moment(panel[n]) => m = n
  BY <1>1 DEF Surjection, Injection, IsInjective
<1> HIDE DEF f, D
<1>4. /\ IsFiniteSet(Moments) /\ Cardinality(Moments) <= Cardinality(D)
      /\ Cardinality(Moments) = Cardinality(D) <=> f \in Injection(D, Moments)
  BY ONLY <1>1, <1>2, FS_Surjection
<1>5. Cardinality(Moments) \in Nat
  BY <1>4, FS_CardinalityType
<1>6. QED
  BY <1>2, <1>3, <1>4, <1>5 DEF Duplicates

\* A sum of naturals is none, and zero if and only if all of them are.
LEMMA SumOfNaturals ==
  ASSUME NEW S, IsFiniteSet(S), NEW f, \A x \in S : f[x] \in Nat
  PROVE  SumFunctionOnSet(f, S) \in Nat /\ (SumFunctionOnSet(f, S) = 0 <=> \A x \in S : f[x] = 0)
<1> DEFINE zero == [x \in S |-> 0]
<1>1. ASSUME NEW T \in SUBSET S
      PROVE  SumFunctionOnSet(f, T) \in Nat
  <2>1. IsFiniteSet(T) /\ \A x \in T : zero[x] \in Int /\ f[x] \in Int /\ zero[x] <= f[x]
    BY FS_Subset
  <2>2. \A x \in T : zero[x] = 0
    OBVIOUS
  <2> HIDE DEF zero
  <2>3. SumFunctionOnSet(zero, T) <= SumFunctionOnSet(f, T)
    BY ONLY <2>1, SumIsMonotonic
  <2>4. SumFunctionOnSet(zero, T) = 0
    BY ONLY <2>1, <2>2, SumOfZeros
  <2>5. SumFunctionOnSet(f, T) \in Int
    BY ONLY <2>1, SumIsInt
  <2>6. QED
    BY <2>3, <2>4, <2>5
<1>2. ASSUME NEW x \in S, SumFunctionOnSet(f, S) = 0
      PROVE  f[x] = 0
  <2>1. \A y \in S : f[y] \in Int
    OBVIOUS
  <2>2. SumFunctionOnSet(f, S) = f[x] + SumFunctionOnSet(f, S \ {x})
    BY ONLY <2>1, x \in S, IsFiniteSet(S), SumRemove
  <2>3. SumFunctionOnSet(f, S \ {x}) \in Nat /\ f[x] \in Nat
    BY <1>1
  <2>4. QED
    BY <1>2, <2>2, <2>3
<1>3. QED
  BY <1>1, <1>2, SumOfZeros

\* Bars are missing if and only if some day that has a row has too few moments.
LEMMA MissingIsShort ==
  ASSUME PanelOK, Resolution \in Nat \ {0}
  PROVE  /\ MissingMinutes \in Nat
         /\ MissingMinutes = 0
              <=> \A x \in Moments : SeenOn(x[1]) >= ExpectedBarsPerSession(Resolution)
<1> DEFINE D == {x[1] : x \in Moments}
           E == ExpectedBarsPerSession(Resolution)
           g == [d \in D |-> ShortOn(d)]
<1>1. IsFiniteSet(Moments)
  BY DuplicatesAreRepeats
<1>2. IsFiniteSet(D)
  <2> DEFINE f == [x \in Moments |-> x[1]]
  <2>1. f \in Surjection(Moments, D)
    BY DEF Surjection
  <2> HIDE DEF f, D
  <2>2. QED
    BY ONLY <1>1, <2>1, FS_Surjection
<1>3. E \in Nat
  <2>1. SessionMinutes \div Resolution \in Nat
    BY QualityConstants, Division
  <2>2. QED
    BY <2>1 DEF ExpectedBarsPerSession, Largest
<1>4. ASSUME NEW d
      PROVE  ShortOn(d) \in Nat /\ (ShortOn(d) = 0 <=> SeenOn(d) >= E)
  <2>1. IsFiniteSet({x \in Moments : x[1] = d})
    BY <1>1, FS_Subset
  <2>2. SeenOn(d) \in Nat
    BY <2>1, FS_CardinalityType DEF SeenOn
  <2>3. ShortOn(d) = Largest(0, E - SeenOn(d))
    BY DEF ShortOn
  <2> HIDE DEF E
  <2>4. QED
    BY <1>3, <2>2, <2>3 DEF Largest
<1>5. MissingMinutes = SumFunctionOnSet(g, D)
  BY DEF MissingMinutes, SumFunction
<1>6. \A d \in D : g[d] \in Nat /\ (g[d] = 0 <=> SeenOn(d) >= E)
  BY <1>4
<1>7. (\A d \in D : SeenOn(d) >= E) <=> \A x \in Moments : SeenOn(x[1]) >= E
  OBVIOUS
<1> HIDE DEF g, D
<1>8. \A d \in D : g[d] \in Nat
  BY <1>6
<1>9. SumFunctionOnSet(g, D) \in Nat /\ (SumFunctionOnSet(g, D) = 0 <=> \A d \in D : g[d] = 0)
  BY ONLY <1>2, <1>8, SumOfNaturals
<1>10. (\A d \in D : g[d] = 0) <=> \A d \in D : SeenOn(d) >= E
  BY ONLY <1>6
<1>11. QED
  BY ONLY <1>5, <1>7, <1>9, <1>10

\* How many resolutions a panel has; with one, it is that of the panel.
LEMMA ResolutionsAreCounted ==
  ASSUME PanelOK, panel # <<>>
  PROVE  /\ Cardinality(Resolutions) \in Nat \ {0}
         /\ Cardinality(Resolutions) = 1
              <=> \A n \in DOMAIN panel : panel[n].interval = Resolution
<1> DEFINE D == DOMAIN panel
           f == [n \in D |-> panel[n].interval]
<1>1. f \in Surjection(D, Resolutions)
  BY DEF Surjection, Resolutions
<1>2. IsFiniteSet(D) /\ D = 1 .. Len(panel) /\ Len(panel) \in Nat
  BY PlacesAreCounted
<1>3. IsFiniteSet(Resolutions)
  <2> HIDE DEF f, D
  <2>1. QED
    BY ONLY <1>1, <1>2, FS_Surjection
<1>4. 1 \in D
  BY <1>2 DEF PanelOK
<1>5. Resolutions # {}
  BY <1>4 DEF Resolutions
<1>6. Cardinality(Resolutions) \in Nat \ {0}
  BY <1>3, <1>5, FS_CardinalityType, FS_EmptySet
<1>7. ASSUME NEW i, \A n \in D : panel[n].interval = i
      PROVE  Resolution = i
  <2> DEFINE top == {j \in Resolutions : \A k \in Resolutions : Carrying(j) >= Carrying(k)}
  <2>1. Resolutions = {i}
    BY <1>4, <1>7 DEF Resolutions
  <2>2. Carrying(i) \in Nat
    <3>1. IsFiniteSet({n \in D : panel[n].interval = i})
      BY <1>2, FS_Subset
    <3>2. QED
      BY <3>1, FS_CardinalityType DEF Carrying
  <2>3. top = {i}
    BY <2>1, <2>2
  <2>4. {n \in D : panel[n].interval \in top} = D
    BY <1>7, <2>3
  <2>5. Resolution = panel[Min(D)].interval
    BY <2>4 DEF Resolution
  <2>6. Min(D) \in D
    <3>1. \E x \in D : \A y \in D : x <= y
      BY <1>2, <1>4
    <3>2. QED
      BY <3>1 DEF Min
  <2>7. QED
    BY <1>7, <2>5, <2>6
<1>8. ASSUME Cardinality(Resolutions) = 1
      PROVE  \A n \in D : panel[n].interval = Resolution
  <2>1. PICK i : Resolutions = {i}
    BY <1>3, <1>8, FS_Singleton
  <2>2. \A n \in D : panel[n].interval = i
    BY <2>1 DEF Resolutions
  <2>3. QED
    BY <1>7, <2>2
<1>9. ASSUME \A n \in D : panel[n].interval = Resolution
      PROVE  Cardinality(Resolutions) = 1
  <2>1. Resolutions = {Resolution}
    BY <1>4, <1>9 DEF Resolutions
  <2>2. QED
    BY <2>1, FS_Singleton
<1>10. QED
  BY <1>6, <1>8, <1>9

\* Rows of one resolution, which divides the session, on bars of the session.
OnBars ==
  /\ panel # <<>> /\ \A n \in DOMAIN panel : panel[n].interval = Resolution
  /\ Resolution \in Nat \ {0} /\ SessionMinutes % Resolution = 0
  /\ \A n \in DOMAIN panel : panel[n].minute \in SessionBars

\* Of such rows as many moments of a day as a session has bars are its bars.
LEMMA FullDay ==
  ASSUME PanelOK, OnBars, NEW d
  PROVE  SeenOn(d) >= ExpectedBarsPerSession(Resolution) <=> \A m \in SessionBars : <<d, m>> \in Moments
<1> DEFINE B == SessionBars
           T == {d} \X B
           M == {x \in Moments : x[1] = d}
           E == ExpectedBarsPerSession(Resolution)
<1>1. IsFiniteSet(B) /\ Cardinality(B) = E /\ E \in Nat
  <2>1. B = Multiples(SessionMinutes, Resolution)
    BY DEF SessionBars, Multiples
  <2>2. SessionMinutes \in Nat \ {0} /\ Resolution \in Nat \ {0} /\ SessionMinutes % Resolution = 0
    BY QualityConstants DEF OnBars
  <2>3. /\ SessionMinutes \div Resolution \in Nat
        /\ SessionMinutes = (SessionMinutes \div Resolution) * Resolution
    BY <2>2, Division
  <2>4. SessionMinutes \div Resolution >= 1
    <3>1. SessionMinutes \div Resolution = 0 => (SessionMinutes \div Resolution) * Resolution = 0
      BY <2>2
    <3>2. QED
      BY <2>2, <2>3, <3>1
  <2>5. E = SessionMinutes \div Resolution
    BY <2>3, <2>4 DEF ExpectedBarsPerSession, Largest
  <2> HIDE DEF B, E
  <2>6. QED
    BY ONLY <2>1, <2>2, <2>3, <2>5, CountOfMultiples
<1>2. IsFiniteSet(T) /\ Cardinality(T) = E
  <2>1. IsFiniteSet({d}) /\ Cardinality({d}) = 1
    BY FS_Singleton
  <2> HIDE DEF B, E
  <2>2. IsFiniteSet(T) /\ Cardinality(T) = 1 * Cardinality(B)
    BY ONLY <1>1, <2>1, FS_Product
  <2>3. QED
    BY <1>1, <2>2
<1>3. M \in SUBSET T
  <2> SUFFICES ASSUME NEW x \in Moments, x[1] = d
               PROVE  x \in T
    OBVIOUS
  <2>1. PICK n \in DOMAIN panel : x = <<panel[n].day, panel[n].minute>>
    BY DEF Moments, Moment
  <2>2. QED
    BY <2>1 DEF OnBars
<1>4. SeenOn(d) = Cardinality(M)
  BY DEF SeenOn
<1>5. T = M <=> \A m \in B : <<d, m>> \in Moments
  BY <1>3
<1>6. /\ IsFiniteSet(M) /\ Cardinality(M) <= Cardinality(T)
      /\ Cardinality(T) = Cardinality(M) => T = M
  <2> HIDE DEF M, T, E
  <2>1. QED
    BY ONLY <1>2, <1>3, FS_Subset
<1>7. Cardinality(M) \in Nat
  <2> HIDE DEF M
  <2>1. QED
    BY ONLY <1>6, FS_CardinalityType
<1> HIDE DEF M, T, E, B
<1>8. Cardinality(M) >= E <=> T = M
  BY ONLY <1>1, <1>2, <1>6, <1>7
<1>9. QED
  BY ONLY <1>4, <1>5, <1>8 DEF E, B

\* Whether a row is counted as foreign or as out of the session.
LEMMA StraysAreCounted ==
  ASSUME PanelOK
  PROVE  /\ Foreign \in Nat /\ (Foreign = 0 <=> \A n \in DOMAIN panel : panel[n].symbol = Own)
         /\ OutOfSession \in Nat
         /\ OutOfSession = 0 <=> \A n \in DOMAIN panel : InSession(panel[n].minute)
<1> DEFINE F == {n \in DOMAIN panel : panel[n].symbol # Own}
           S == {n \in DOMAIN panel : ~InSession(panel[n].minute)}
<1>1. IsFiniteSet(F) /\ IsFiniteSet(S)
  BY PlacesAreCounted, FS_Subset
<1>2. Foreign = Cardinality(F) /\ OutOfSession = Cardinality(S)
  BY DEF Foreign, OutOfSession
<1>3. /\ F = {} <=> \A n \in DOMAIN panel : panel[n].symbol = Own
      /\ S = {} <=> \A n \in DOMAIN panel : InSession(panel[n].minute)
  OBVIOUS
<1> HIDE DEF F, S
<1>4. /\ Cardinality(F) \in Nat /\ (Cardinality(F) = 0 <=> F = {})
      /\ Cardinality(S) \in Nat /\ (Cardinality(S) = 0 <=> S = {})
  BY ONLY <1>1, FS_EmptySet, FS_CardinalityType
<1>5. QED
  BY ONLY <1>2, <1>3, <1>4

\* What is asked of the rows.
Aligned ==
  /\ \A n \in DOMAIN panel : panel[n].minute % panel[n].interval = 0
  /\ \A n \in DOMAIN panel : SessionMinutes % panel[n].interval = 0

\* A clean report is one that counts nothing.
LEMMA CleanCountsNothing ==
  ASSUME PanelOK, panel # <<>>
  PROVE  IsClean <=> /\ Foreign = 0 /\ Duplicates = 0 /\ OutOfSession = 0
                     /\ Cardinality(Resolutions) = 1 /\ ~ (MissingMinutes > 0)
<1>1. Foreign \in Nat /\ Duplicates \in Nat /\ OutOfSession \in Nat /\ Cardinality(Resolutions) \in Nat \ {0}
  BY StraysAreCounted, DuplicatesAreRepeats, ResolutionsAreCounted
<1>2. QED
  BY <1>1 DEF IsClean, Warned

\* A panel of which nothing is counted is whole, and of a whole one nothing is.
LEMMA CleanIsWhole ==
  ASSUME PanelOK, panel # <<>>, Aligned
  PROVE  IsClean <=> IsWhole
<1> DEFINE D == DOMAIN panel
           At(x, m) == {n \in D : Moment(panel[n]) = <<x[1], m>>}
<1>1. \A n \in D : panel[n] \in Rows /\ Moment(panel[n]) \in Moments
  BY DEF PanelOK, Moments
<1>2. Cardinality(Resolutions) = 1 <=> \A n \in D : panel[n].interval = Resolution
  BY ResolutionsAreCounted
<1>3. 1 \in D
  BY PlacesAreCounted DEF PanelOK
<1>4. ASSUME Cardinality(Resolutions) = 1
      PROVE  Resolution \in Nat \ {0} /\ SessionMinutes % Resolution = 0
  <2>1. panel[1].interval = Resolution
    BY <1>2, <1>3, <1>4
  <2>2. QED
    BY <1>1, <1>3, <2>1, QualityConstants DEF Rows, Aligned
<1>5. \A n \in D : panel[n].minute \in Int
  BY <1>1, QualityConstants DEF Rows
<1>6. ASSUME IsClean
      PROVE  IsWhole
  <2>1. /\ Foreign = 0 /\ Duplicates = 0 /\ OutOfSession = 0
        /\ Cardinality(Resolutions) = 1 /\ ~ (MissingMinutes > 0)
    BY <1>6, CleanCountsNothing
  <2>2. \A n \in D : panel[n].symbol = Own /\ panel[n].minute \in SessionBars
    <3>1. ASSUME NEW n \in D
          PROVE  panel[n].symbol = Own /\ panel[n].minute \in SessionBars
      <4>1. panel[n].symbol = Own /\ InSession(panel[n].minute)
        BY <2>1, StraysAreCounted
      <4>2. panel[n].minute % Resolution = 0
        BY <1>2, <2>1 DEF Aligned
      <4>3. QED
        BY <1>5, <4>1, <4>2, QualityConstants DEF InSession, SessionBars
    <3>2. QED
      BY <3>1
  <2>3. OnBars
    BY <1>2, <1>4, <2>1, <2>2 DEF OnBars
  <2>4. \A x \in Moments : SeenOn(x[1]) >= ExpectedBarsPerSession(Resolution)
    BY <1>4, <2>1, MissingIsShort
  <2>5. ASSUME NEW x \in Moments, NEW m \in SessionBars
        PROVE  Cardinality(At(x, m)) = 1
    <3>1. <<x[1], m>> \in Moments
      BY <2>3, <2>4, FullDay
    <3>2. PICK n \in D : Moment(panel[n]) = <<x[1], m>>
      BY <3>1 DEF Moments
    <3>3. At(x, m) = {n}
      BY <2>1, <3>2, DuplicatesAreRepeats
    <3>4. QED
      BY <3>3, FS_Singleton
  <2>6. QED
    BY <2>1, <2>2, <2>5 DEF IsWhole
<1>7. ASSUME IsWhole
      PROVE  IsClean
  <2>1. /\ Cardinality(Resolutions) = 1
        /\ \A n \in D : panel[n].symbol = Own /\ panel[n].minute \in SessionBars
        /\ \A x \in Moments : \A m \in SessionBars : Cardinality(At(x, m)) = 1
    BY <1>7 DEF IsWhole
  <2>2. OnBars
    BY <1>2, <1>4, <2>1 DEF OnBars
  <2>3. ASSUME NEW x \in Moments, NEW m \in SessionBars
        PROVE  \E n \in D : At(x, m) = {n}
    <3>1. IsFiniteSet(At(x, m))
      BY PlacesAreCounted, FS_Subset
    <3>2. Cardinality(At(x, m)) = 1
      BY <2>1
    <3> DEFINE A == At(x, m)
    <3>3. A \subseteq D
      OBVIOUS
    <3> HIDE DEF A
    <3>4. \E n : A = {n}
      BY <3>1, <3>2, FS_Singleton DEF A
    <3>5. QED
      BY <3>3, <3>4 DEF A
  <2>4. Foreign = 0 /\ OutOfSession = 0
    <3>1. \A n \in D : panel[n].symbol = Own /\ InSession(panel[n].minute)
      BY <2>1, QualityConstants DEF SessionBars, InSession
    <3>2. QED
      BY <3>1, StraysAreCounted
  <2>5. Duplicates = 0
    <3>1. ASSUME NEW j \in D, NEW k \in D, Moment(panel[j]) = Moment(panel[k])
          PROVE  j = k
      <4>1. PICK n \in D : At(Moment(panel[k]), panel[k].minute) = {n}
        BY <1>1, <2>1, <2>3
      <4>2. Moment(panel[k]) = <<Moment(panel[k])[1], panel[k].minute>>
        BY DEF Moment
      <4>3. {j, k} \subseteq At(Moment(panel[k]), panel[k].minute)
        BY <3>1, <4>2
      <4>4. QED
        BY <4>1, <4>3
    <3>2. QED
      BY <3>1, DuplicatesAreRepeats
  <2>6. MissingMinutes = 0
    <3>1. ASSUME NEW x \in Moments, NEW m \in SessionBars
          PROVE  <<x[1], m>> \in Moments
      <4>1. PICK n \in D : At(x, m) = {n}
        BY <2>3
      <4>2. Moment(panel[n]) = <<x[1], m>>
        BY <4>1
      <4>3. QED
        BY <1>1, <4>2
    <3>2. \A x \in Moments : SeenOn(x[1]) >= ExpectedBarsPerSession(Resolution)
      BY <2>2, <3>1, FullDay
    <3>3. QED
      BY <1>4, <2>1, <3>2, MissingIsShort
  <2>7. QED
    BY <2>1, <2>4, <2>5, <2>6, CleanCountsNothing
<1>8. QED
  BY <1>6, <1>7

\* For panels of any length: where rows are on the bars of a resolution that divides the
\* session, the report is clean if and only if every day that has a row has every bar
\* exactly once and nothing else is there (analyze_bars).
THEOREM CleanReportsAreWhole == PanelSpec => []CleanMeansWhole
<1>1. PanelInit => PanelOK
  BY DEF PanelInit, PanelOK
<1>2. PanelOK /\ [PanelNext]_panel => PanelOK'
  BY DEF PanelOK, PanelNext, LoadRow
<1>3. PanelOK => CleanMeansWhole
  <2>1. CASE panel = <<>>
    BY <2>1 DEF CleanMeansWhole, IsClean, Warned, IsWhole
  <2>2. CASE panel # <<>>
    BY <2>2, CleanIsWhole DEF CleanMeansWhole, Aligned
  <2>3. QED
    BY <2>1, <2>2
<1>4. QED
  BY <1>1, <1>2, <1>3, PTL DEF PanelSpec

(***************************************************************************)
(* The tick ladder and the daily limit.                                    *)
(***************************************************************************)
\* The tick at m / 10 is that of the lowest band above it.
LEMMA TickOfBand ==
  ASSUME NEW m \in Nat, NEW band \in Ladder, m < band[1] * 10,
         \A other \in Ladder : m < other[1] * 10 => band[1] <= other[1]
  PROVE  TickSize(m) = band[2]
<1> DEFINE above == {b \in Ladder : m < b[1] * 10}
           lowest == CHOOSE b \in above : \A other \in above : b[1] <= other[1]
<1>1. band \in above /\ \A other \in above : band[1] <= other[1]
  OBVIOUS
<1>2. lowest \in above /\ \A other \in above : lowest[1] <= other[1]
  BY <1>1, Zenon
<1>3. lowest[1] <= band[1] /\ band[1] <= lowest[1]
  BY <1>1, <1>2
<1>4. lowest = band
  <2> HIDE DEF lowest
  <2>1. lowest \in Ladder
    BY <1>2
  <2>2. QED
    BY <1>3, <2>1 DEF Ladder
<1>5. TickSize(m) = lowest[2]
  <2>1. above # {}
    BY <1>1
  <2>2. QED
    BY <2>1, Zenon DEF TickSize
<1>6. QED
  BY <1>4, <1>5

\* Above all bands it is 1000.
LEMMA TickAbove ==
  ASSUME NEW m \in Nat, m >= 5000000
  PROVE  TickSize(m) = 1000
<1>1. {b \in Ladder : m < b[1] * 10} = {}
  BY SMT DEF Ladder
<1>2. QED
  BY ONLY <1>1, Zenon DEF TickSize

\* The tick of all prices from one bound to the next.
Band(lo, hi, tick) == \A m \in Nat : lo * 10 <= m /\ m < hi * 10 => TickSize(m) = tick

\* A band begins where the one below it ends.
LEMMA BandOfLadder ==
  ASSUME NEW lo \in Nat, NEW hi \in Nat, NEW tick, <<hi, tick>> \in Ladder,
         \A other \in Ladder : other[1] <= lo \/ hi <= other[1]
  PROVE  Band(lo, hi, tick)
<1> SUFFICES ASSUME NEW m \in Nat, lo * 10 <= m, m < hi * 10
             PROVE  TickSize(m) = tick
  BY DEF Band
<1> DEFINE band == <<hi, tick>>
<1>1. band \in Ladder /\ band[1] = hi /\ band[2] = tick
  OBVIOUS
<1>2. \A other \in Ladder : m < other[1] * 10 => hi <= other[1]
  BY DEF Ladder
<1> HIDE DEF band
<1>3. QED
  BY <1>1, <1>2, TickOfBand

\* The bands of the ladder.
LEMMA Bands ==
  /\ Band(0, 2000, 1) /\ Band(2000, 5000, 5) /\ Band(5000, 20000, 10)
  /\ Band(20000, 50000, 50) /\ Band(50000, 200000, 100) /\ Band(200000, 500000, 500)
<1>1. Band(0, 2000, 1)
  <2>1. <<2000, 1>> \in Ladder /\ \A other \in Ladder : other[1] <= 0 \/ 2000 <= other[1]
    BY DEF Ladder
  <2>2. QED
    BY ONLY <2>1, BandOfLadder
<1>2. Band(2000, 5000, 5)
  <2>1. <<5000, 5>> \in Ladder /\ \A other \in Ladder : other[1] <= 2000 \/ 5000 <= other[1]
    BY DEF Ladder
  <2>2. QED
    BY ONLY <2>1, BandOfLadder
<1>3. Band(5000, 20000, 10)
  <2>1. <<20000, 10>> \in Ladder /\ \A other \in Ladder : other[1] <= 5000 \/ 20000 <= other[1]
    BY DEF Ladder
  <2>2. QED
    BY ONLY <2>1, BandOfLadder
<1>4. Band(20000, 50000, 50)
  <2>1. <<50000, 50>> \in Ladder /\ \A other \in Ladder : other[1] <= 20000 \/ 50000 <= other[1]
    BY DEF Ladder
  <2>2. QED
    BY ONLY <2>1, BandOfLadder
<1>5. Band(50000, 200000, 100)
  <2>1. <<200000, 100>> \in Ladder /\ \A other \in Ladder : other[1] <= 50000 \/ 200000 <= other[1]
    BY DEF Ladder
  <2>2. QED
    BY ONLY <2>1, BandOfLadder
<1>6. Band(200000, 500000, 500)
  <2>1. <<500000, 500>> \in Ladder /\ \A other \in Ladder : other[1] <= 200000 \/ 500000 <= other[1]
    BY DEF Ladder
  <2>2. QED
    BY ONLY <2>1, BandOfLadder
<1>7. QED
  BY <1>1, <1>2, <1>3, <1>4, <1>5, <1>6

\* m / 10, floored on tick, is a price of the grid, and no price of the grid is between.
Floored(m, tick) == (m \div (tick * 10)) * tick
Floors(m, tick) ==
  LET limit == Floored(m, tick)
  IN /\ limit \in Nat /\ limit * 10 <= m /\ OnGrid(limit)
     /\ \A p \in Nat : limit < p /\ p * 10 <= m => ~OnGrid(p)

Ticks == {1, 5, 10, 50, 100, 500, 1000}

\* m / 10 is in a band that begins at lo, a multiple of its tick.
InBand(m, lo, tick) ==
  /\ lo * 10 <= m /\ lo % tick = 0
  /\ \A k \in Nat : lo * 10 <= k /\ k <= m => TickSize(k) = tick

\* In a band that is so: what is floored stays in the band.
LEMMA FloorsInBand ==
  ASSUME NEW lo \in Nat, NEW tick \in Ticks, NEW m \in Nat, InBand(m, lo, tick)
  PROVE  Floors(m, tick)
<1> DEFINE limit == Floored(m, tick)
<1>1. /\ limit \in Nat /\ limit * 10 <= m /\ lo <= limit /\ limit % tick = 0
      /\ \A p \in Nat : limit < p /\ p * 10 <= m => p % tick # 0
  <2>1. CASE tick = 1
    BY <2>1 DEF Floored, InBand
  <2>2. CASE tick = 5
    BY <2>2 DEF Floored, InBand
  <2>3. CASE tick = 10
    BY <2>3 DEF Floored, InBand
  <2>4. CASE tick = 50
    BY <2>4 DEF Floored, InBand
  <2>5. CASE tick = 100
    BY <2>5 DEF Floored, InBand
  <2>6. CASE tick = 500
    BY <2>6 DEF Floored, InBand
  <2>7. CASE tick = 1000
    BY <2>7 DEF Floored, InBand
  <2>8. QED
    BY <2>1, <2>2, <2>3, <2>4, <2>5, <2>6, <2>7 DEF Ticks
<1> HIDE DEF limit
<1>2. OnGrid(limit)
  <2>1. TickSize(limit * 10) = tick
    BY <1>1 DEF InBand
  <2>2. QED
    BY <1>1, <2>1 DEF OnGrid
<1>3. ASSUME NEW p \in Nat, limit < p, p * 10 <= m
      PROVE  ~OnGrid(p)
  <2>1. TickSize(p * 10) = tick
    BY <1>1, <1>3 DEF InBand
  <2>2. QED
    BY <1>1, <1>3, <2>1 DEF OnGrid
<1>4. QED
  BY <1>1, <1>2, <1>3 DEF Floors, limit

\* Every price is in a band.
LEMMA EveryPriceInBand ==
  ASSUME NEW m \in Nat
  PROVE  \E lo \in Nat, tick \in Ticks : InBand(m, lo, tick)
<1>1. CASE 0 <= m /\ m < 20000
  <2>1. InBand(m, 0, 1)
    BY <1>1, Bands, SMT DEF Band, InBand
  <2>2. QED
    BY <2>1, SMT DEF Ticks
<1>2. CASE 20000 <= m /\ m < 50000
  <2>1. InBand(m, 2000, 5)
    BY <1>2, Bands, SMT DEF Band, InBand
  <2>2. QED
    BY <2>1, SMT DEF Ticks
<1>3. CASE 50000 <= m /\ m < 200000
  <2>1. InBand(m, 5000, 10)
    BY <1>3, Bands, SMT DEF Band, InBand
  <2>2. QED
    BY <2>1, SMT DEF Ticks
<1>4. CASE 200000 <= m /\ m < 500000
  <2>1. InBand(m, 20000, 50)
    BY <1>4, Bands, SMT DEF Band, InBand
  <2>2. QED
    BY <2>1, SMT DEF Ticks
<1>5. CASE 500000 <= m /\ m < 2000000
  <2>1. InBand(m, 50000, 100)
    BY <1>5, Bands, SMT DEF Band, InBand
  <2>2. QED
    BY <2>1, SMT DEF Ticks
<1>6. CASE 2000000 <= m /\ m < 5000000
  <2>1. InBand(m, 200000, 500)
    BY <1>6, Bands, SMT DEF Band, InBand
  <2>2. QED
    BY <2>1, SMT DEF Ticks
<1>7. CASE m >= 5000000
  <2>1. InBand(m, 500000, 1000)
    BY <1>7, TickAbove, SMT DEF InBand
  <2>2. QED
    BY <2>1, SMT DEF Ticks
<1>8. QED
  BY ONLY m \in Nat, <1>1, <1>2, <1>3, <1>4, <1>5, <1>6, <1>7, SMT

\* What limit_up_price does with the tick of 1.3 times the close is right in every band.
LEMMA FloorsOnLadder ==
  ASSUME NEW m \in Nat
  PROVE  TickSize(m) \in Ticks /\ Floors(m, TickSize(m))
<1>1. PICK lo \in Nat, tick \in Ticks : InBand(m, lo, tick)
  BY EveryPriceInBand
<1>2. TickSize(m) = tick
  BY <1>1 DEF InBand
<1>3. QED
  BY <1>1, <1>2, FloorsInBand

\* A price leaves a tick below the daily limit if and only if it is below LimitUpPrice.
LEMMA LimitLeavesNoTick ==
  ASSUME NEW c \in Nat, NEW price \in Nat
  PROVE  price < LimitUpPrice(c) <=> \E p \in price + 1 .. (c * 13) \div 10 : OnGrid(p)
<1> DEFINE m == c * 13
           limit == Floored(m, TickSize(m))
<1>1. m \in Nat /\ Floors(m, TickSize(m))
  BY FloorsOnLadder
<1>2. /\ limit \in Nat /\ limit * 10 <= m /\ OnGrid(limit)
      /\ \A p \in Nat : limit < p /\ p * 10 <= m => ~OnGrid(p)
  BY <1>1 DEF Floors
<1>3. LimitUpPrice(c) = limit
  BY DEF LimitUpPrice, Floored
<1> HIDE DEF m, limit
<1>4. \A p \in Int : p <= m \div 10 <=> p * 10 <= m
  BY <1>1
<1>5. ASSUME price < limit
      PROVE  \E p \in price + 1 .. m \div 10 : OnGrid(p)
  <2>1. limit \in price + 1 .. m \div 10
    BY <1>1, <1>2, <1>4, <1>5
  <2>2. QED
    BY <1>2, <2>1
<1>6. ASSUME NEW p \in price + 1 .. m \div 10, OnGrid(p)
      PROVE  price < limit
  <2>1. p \in Nat /\ p * 10 <= m /\ price < p
    BY <1>1, <1>4
  <2>2. ~ (limit < p)
    BY <1>2, <1>6, <2>1
  <2>3. QED
    BY <1>2, <2>1, <2>2
<1>7. QED
  BY <1>3, <1>5, <1>6 DEF m

\* What check_buy was asked, and its answer to that.
LimitInv ==
  found # NoAnswer =>
    /\ asked.close \in Nat /\ asked.price \in Nat
    /\ asked.size \in {Unknown, 0, 1}
    /\ asked.signal \in {Unknown, 1} /\ asked.made \in {Unknown, 1, 2}
    /\ found = Obstruction(asked)

\* A question keeps to what check_buy may be asked.
LEMMA CheckBuyStep ==
  ASSUME NEW c \in Closes, CheckBuy(c)
  PROVE  LimitInv'
<1>1. PICK q \in [close : {c}, price : Near(c), size : {Unknown, 0, 1},
                  signal : {Unknown, 1}, made : {Unknown, 1, 2}] :
        asked' = q
  BY DEF CheckBuy
<1>2. c \in Nat
  BY LimitConstants
<1>3. Near(c) \subseteq Nat
  <2>1. c * 13 \in Nat
    BY <1>2
  <2>2. TickSize(c * 13) \in Nat \ {0}
    BY <2>1, FloorsOnLadder DEF Ticks
  <2>3. \A limit \in Int, tick \in Nat \ {0}, k \in -2 .. 2 : limit - (limit % tick) + k * tick \in Int
    OBVIOUS
  <2>4. (c * 13) \div 10 \in Int
    BY <2>1
  <2> SUFFICES ASSUME NEW p \in Near(c)
               PROVE  p \in Nat
    OBVIOUS
  <2>5. PICK k \in -2 .. 2 :
          p = ((c * 13) \div 10) - (((c * 13) \div 10) % TickSize(c * 13)) + k * TickSize(c * 13)
    BY Zenon DEF Near
  <2>6. p > 0
    BY Zenon DEF Near
  <2>7. p \in Int
    BY ONLY <2>2, <2>3, <2>4, <2>5
  <2>8. QED
    BY ONLY <2>6, <2>7
<1>4. QED
  BY <1>1, <1>2, <1>3 DEF CheckBuy, LimitInv

\* For every close: what check_buy calls feasible leaves a tick to the daily limit and is
\* offered after the signal, and nothing else is refused (check_buy, limit_up_price).
THEOREM FeasibleBuysLeaveATick == LimitSpec => []FeasibleLeavesATick
<1>1. LimitInit => LimitInv
  BY DEF LimitInit, LimitInv
<1>2. LimitInv /\ [LimitNext]_limitVars => LimitInv'
  <2>1. CASE LimitNext
    BY <2>1, CheckBuyStep DEF LimitNext
  <2>2. CASE UNCHANGED limitVars
    BY <2>2 DEF limitVars, LimitInv
  <2>3. QED
    BY <2>1, <2>2
<1>3. LimitInv => FeasibleLeavesATick
  <2> SUFFICES ASSUME LimitInv, found # NoAnswer
               PROVE  found = "feasible" <=>
                        /\ \E p \in asked.price + 1 .. (asked.close * 13) \div 10 : OnGrid(p)
                        /\ asked.size \notin {Unknown, 0}
                        /\ Unknown \notin {asked.signal, asked.made} => asked.signal < asked.made
    BY DEF FeasibleLeavesATick
  <2>1. /\ asked.close \in Nat /\ asked.price \in Nat
        /\ asked.size \in {Unknown, 0, 1}
        /\ asked.signal \in {Unknown, 1} /\ asked.made \in {Unknown, 1, 2}
        /\ found = Obstruction(asked)
    BY DEF LimitInv
  <2>2. asked.price < LimitUpPrice(asked.close)
          <=> \E p \in asked.price + 1 .. (asked.close * 13) \div 10 : OnGrid(p)
    BY ONLY <2>1, LimitLeavesNoTick
  <2>3. LimitUpPrice(asked.close) \in Int
    <3>1. asked.close * 13 \in Nat
      BY <2>1
    <3>2. QED
      BY <3>1, FloorsOnLadder DEF Floors, Floored, LimitUpPrice
  <2>4. found = "feasible" <=>
          /\ asked.price < LimitUpPrice(asked.close)
          /\ asked.size \notin {Unknown, 0}
          /\ Unknown \notin {asked.signal, asked.made} => asked.signal < asked.made
    BY <2>1, <2>3, LimitConstants DEF Obstruction
  <2>5. QED
    BY ONLY <2>2, <2>4
<1>4. QED
  BY <1>1, <1>2, <1>3, PTL DEF LimitSpec

(***************************************************************************)
(* The bar store: lemmas about its operators.                              *)
(***************************************************************************)
\* Min of a set of naturals is one of them and none is less.
LEMMA MinIsLeast ==
  ASSUME NEW S \in SUBSET Nat, S # {}
  PROVE  Min(S) \in S /\ \A y \in S : Min(S) <= y
<1>. DEFINE R == OpToRel(<, Nat)
<1>1. IsWellFoundedOn(R, Nat)
  BY ONLY NatLessThanWellFounded
<1>2. \A x, y \in Nat : y < x => <<y, x>> \in R
  BY DEF OpToRel
<1>3. \E x \in S : \A y \in S : ~ (<<y, x>> \in R)
  <2>. HIDE DEF R
  <2>. QED BY <1>1, WFMin
<1>4. \E x \in S : \A y \in S : x <= y
  <2>1. PICK x \in S : \A y \in S : ~ (<<y, x>> \in R)
    BY <1>3
  <2>2. ASSUME NEW y \in S PROVE x <= y
    <3>1. x \in Nat /\ y \in Nat /\ ~ (y < x)
      BY <1>2, <2>1
    <3>. QED BY <3>1
  <2>. QED BY <2>2
<1>. QED BY <1>4 DEF Min

\* Max of some of the first N positive naturals is one of them and none is greater.
LEMMA MaxIsGreatest ==
  ASSUME NEW N \in Nat, NEW S \in SUBSET (1 .. N), S # {}
  PROVE  Max(S) \in S /\ \A y \in S : y <= Max(S)
<1>. DEFINE T == {n \in 0 .. N : N - n \in S}
<1>1. T \in SUBSET Nat /\ T # {}
  <2>1. PICK x \in S : TRUE
    OBVIOUS
  <2>2. N - x \in T
    BY <2>1
  <2>3. \A n \in T : n \in Nat
    OBVIOUS
  <2>. HIDE DEF T
  <2>. QED BY <2>2, <2>3
<1>2. PICK m \in T : \A k \in T : m <= k
  <2>1. Min(T) \in T /\ \A k \in T : Min(T) <= k
    <3>. HIDE DEF T
    <3>. QED BY <1>1, MinIsLeast
  <2>. QED BY <2>1
<1>3. N - m \in S /\ m \in 0 .. N
  BY <1>2
<1>4. \A y \in S : y <= N - m
  <2>. SUFFICES ASSUME NEW y \in S PROVE y <= N - m
    OBVIOUS
  <2>1. N - y \in T /\ y \in 1 .. N
    OBVIOUS
  <2>. QED BY <1>2, <1>3, <2>1
<1>. QED BY <1>3, <1>4 DEF Max

RowType == [file : Files, at : Stamps, bar : Bars]

\* The file that is written first of some files is one of them.
LEMMA FirstIsOne ==
  ASSUME NEW F \in SUBSET Files, F # {}
  PROVE  First(F) \in F
<1>. DEFINE places == {n \in DOMAIN FileOrder : FileOrder[n] \in F}
<1>1. FileOrder \in Seq(Files)
  BY BarStoreConstants
<1>2. places \in SUBSET Nat /\ places # {}
  BY <1>1 DEF Files
<1>3. Min(places) \in places
  <2>. HIDE DEF places
  <2>. QED BY <1>2, MinIsLeast
<1>. QED BY <1>3 DEF First

\* A batch brings each file a bar, or none, for each minute: one where it has a row.
LEMMA IncomingRows ==
  ASSUME NEW b \in Batches, NEW f \in Files
  PROVE  /\ Incoming(b, f) \in Contents
         /\ \A n \in DOMAIN b : b[n].file = f => Incoming(b, f)[b[n].at] # NoBar
<1>1. b \in Seq(RowType) /\ NoBar \notin Bars
  BY BarStoreConstants DEF RowType
<1>2. /\ Len(b) \in Nat /\ DOMAIN b = 1 .. Len(b)
      /\ \A n \in DOMAIN b : b[n].at \in Stamps /\ b[n].bar \in Bars
  <2>1. \A n \in DOMAIN b : b[n] \in RowType
    BY <1>1
  <2>. QED BY <1>1, <2>1 DEF RowType
<1>. DEFINE rows(t) == {n \in DOMAIN b : b[n].file = f /\ b[n].at = t}
            bar(t) == IF rows(t) = {} THEN NoBar ELSE b[Max(rows(t))].bar
<1>3. ASSUME NEW t \in Stamps, rows(t) # {}
      PROVE  bar(t) \in Bars
  <2>1. rows(t) \in SUBSET (1 .. Len(b))
    BY <1>2
  <2>2. Max(rows(t)) \in rows(t)
    <3>. HIDE DEF rows
    <3>. QED BY <2>1, <1>2, <1>3, MaxIsGreatest
  <2>. QED BY <1>2, <1>3, <2>2
<1>4. Incoming(b, f) = [t \in Stamps |-> bar(t)]
  BY DEF Incoming
<1>5. \A t \in Stamps : bar(t) \in Bars \cup {NoBar}
  BY <1>3
<1>6. ASSUME NEW n \in DOMAIN b, b[n].file = f
      PROVE  bar(b[n].at) # NoBar
  <2>1. n \in rows(b[n].at) /\ b[n].at \in Stamps
    BY <1>2, <1>6
  <2>. QED BY <2>1, <1>3, <1>1
<1>. HIDE DEF bar
<1>. QED BY <1>2, <1>4, <1>5, <1>6 DEF Contents

\* Merging gives a content, in which what was stored and what comes in both have a bar,
\* and which has new bars where the rows have.
LEMMA MergedContent ==
  ASSUME NEW old \in Contents, NEW rows \in Contents
  PROVE  /\ Merged(old, rows) \in Contents
         /\ \A t \in Stamps : old[t] # NoBar \/ rows[t] # NoBar => Merged(old, rows)[t] # NoBar
         /\ NewStamps(old, Merged(old, rows)) = NewStamps(old, rows)
BY DEF Merged, Contents, NewStamps

(***************************************************************************)
(* The invariant.                                                          *)
(***************************************************************************)
Staging == UNION {[F -> Contents] : F \in SUBSET Files}

StoreTypeOK ==
  /\ stored \in [Files -> Contents] /\ durable \in [Files -> Contents]
  /\ holder \in Procs \cup {Nobody}
  /\ pc \in [Procs -> {"idle", "staging", "synced"}]
  /\ batch \in [Procs -> Batches \cup {NoBatch}]
  /\ staged \in [Procs -> Staging]
  /\ renamed \in [Procs -> SUBSET Files]
  /\ added \in [Procs -> Nat]
  /\ synced \in [Procs -> SUBSET {Directory[f] : f \in Files}]
  /\ grown \in [Procs -> SUBSET (Files \X Stamps)]
  /\ promised \in SUBSET (Files \X Stamps)

\* Only the holder of the lock stages, renames and syncs, each for the batch it has.
LockIsHeld ==
  \A p \in Procs : pc[p] \in {"staging", "synced"} => holder = p /\ batch[p] \in Batches

\* So what it has staged and not renamed is still the merge of its batch with the file,
\* and the files it has renamed have the bars of the batch.
StagedIsMerge ==
  \A p \in Procs : pc[p] = "staging" =>
    /\ DOMAIN staged[p] \subseteq Touched(batch[p])
    /\ renamed[p] \subseteq DOMAIN staged[p]
    /\ renamed[p] # {} => DOMAIN staged[p] = Touched(batch[p])
    /\ \A f \in DOMAIN staged[p] \ renamed[p] :
         staged[p][f] = Merged(stored[f], Incoming(batch[p], f))
    /\ \A f \in renamed[p], t \in Stamps :
         Incoming(batch[p], f)[t] # NoBar => stored[f][t] # NoBar

\* Where bars are to be added by the renames that are still to come.
Pending(p) ==
  {x \in Files \X Stamps : /\ x[1] \in DOMAIN staged[p] \ renamed[p]
                           /\ x[2] \in NewStamps(stored[x[1]], staged[p][x[1]])}

CountIsKept ==
  \A p \in Procs :
    /\ pc[p] = "staging" =>
         /\ \A x \in grown[p] : x[1] \in renamed[p]
         /\ IsFiniteSet(grown[p] \cup Pending(p))
         /\ added[p] = Cardinality(grown[p] \cup Pending(p))
    /\ pc[p] = "synced" => added[p] = Cardinality(grown[p])

\* What was renamed is stored, and on disk where its directory was synced.
SyncedIsDurable ==
  \A p \in Procs : pc[p] = "synced" =>
    \A n \in DOMAIN batch[p] :
      /\ stored[batch[p][n].file][batch[p][n].at] # NoBar
      /\ Directory[batch[p][n].file] \in synced[p] => durable[batch[p][n].file][batch[p][n].at] # NoBar

StoreInv ==
  StoreTypeOK /\ LockIsHeld /\ StagedIsMerge /\ CountIsKept /\ SyncedIsDurable /\ AppendedIsDurable

\* The files a batch touches are files, and its rows have minutes.
LEMMA TouchedFiles ==
  ASSUME NEW b \in Batches
  PROVE  /\ Touched(b) \in SUBSET Files
         /\ \A n \in DOMAIN b : b[n].file \in Files /\ b[n].at \in Stamps /\ b[n].file \in Touched(b)
<1>1. b \in Seq(RowType)
  BY BarStoreConstants DEF RowType
<1>2. \A n \in DOMAIN b : b[n] \in RowType
  BY <1>1
<1>. QED BY <1>2 DEF Touched, RowType

\* What is staged are contents of files.
LEMMA StagedContents ==
  ASSUME NEW s \in Staging
  PROVE  /\ DOMAIN s \in SUBSET Files
         /\ \A f \in DOMAIN s : s[f] \in Contents
BY DEF Staging

(***************************************************************************)
(* Every step keeps it.                                                    *)
(***************************************************************************)
\* An empty store that nobody appends to.
LEMMA StoreInitInvariant == ASSUME Init PROVE StoreInv
<1>. USE BarStoreConstants DEF Init
<1>1. <<>> \in Staging
  <2>1. <<>> \in [{} -> Contents]
    OBVIOUS
  <2>. QED BY <2>1 DEF Staging
<1>2. Empty \in [Files -> Contents]
  BY DEF Empty, Contents
<1>3. StoreTypeOK
  BY <1>1, <1>2 DEF StoreTypeOK
<1>4. LockIsHeld /\ StagedIsMerge /\ CountIsKept /\ SyncedIsDurable /\ AppendedIsDurable
  BY DEF LockIsHeld, StagedIsMerge, CountIsKept, SyncedIsDurable, AppendedIsDurable
<1>. QED BY <1>3, <1>4 DEF StoreInv

\* An append begins with nothing staged.
LEMMA BeginInvariant ==
  ASSUME StoreInv, NEW p \in Procs, NEW b \in Batches, Begin(p, b)
  PROVE  StoreInv'
<1>. USE BarStoreConstants DEF StoreInv, Begin
<1>0. <<>> \in Staging /\ DOMAIN <<>> = {}
  <2>1. <<>> \in [{} -> Contents] /\ DOMAIN <<>> = {}
    OBVIOUS
  <2>. QED BY <2>1 DEF Staging
<1>1. StoreTypeOK'
  BY <1>0 DEF StoreTypeOK
<1>2. LockIsHeld'
  BY DEF LockIsHeld, StoreTypeOK
<1>3. /\ \A q \in Procs : q # p => pc'[q] \notin {"staging", "synced"}
      /\ pc'[p] = "staging" /\ batch'[p] = b /\ staged'[p] = <<>> /\ renamed'[p] = {}
      /\ added'[p] = 0 /\ grown'[p] = {}
  BY DEF LockIsHeld, StoreTypeOK
<1>4. StagedIsMerge'
  BY <1>0, <1>3 DEF StagedIsMerge
<1>5. CountIsKept'
  <2>1. Pending(p)' = {}
    BY <1>0, <1>3 DEF Pending
  <2>. QED BY <1>3, <2>1, FS_EmptySet DEF CountIsKept
<1>6. SyncedIsDurable' /\ AppendedIsDurable'
  BY <1>3 DEF SyncedIsDurable, AppendedIsDurable
<1>. QED BY <1>1, <1>2, <1>4, <1>5, <1>6

\* Staging a file adds its new bars to those that are pending, and they were not there.
LEMMA StageInvariant ==
  ASSUME StoreInv, NEW p \in Procs, StageFile(p)
  PROVE  StoreInv'
<1>. DEFINE b == batch[p]
            f == First(Touched(b) \ DOMAIN staged[p])
            rows == Incoming(b, f)
            new == NewStamps(stored[f], rows)
<1>. USE BarStoreConstants DEF StoreInv
<1>1. /\ pc[p] = "staging" /\ holder = p /\ b \in Batches
      /\ f \in Touched(b) \ DOMAIN staged[p] /\ f \in Files
  <2>1. pc[p] = "staging" /\ Touched(b) \ DOMAIN staged[p] # {}
    BY DEF StageFile
  <2>2. holder = p /\ b \in Batches
    BY <2>1 DEF LockIsHeld
  <2>3. Touched(b) \in SUBSET Files
    BY ONLY <2>2, TouchedFiles
  <2>4. f \in Touched(b) \ DOMAIN staged[p]
    BY ONLY <2>1, <2>3, FirstIsOne
  <2>. QED BY ONLY <2>1, <2>2, <2>3, <2>4
<1>2. /\ rows \in Contents /\ stored[f] \in Contents
      /\ Merged(stored[f], rows) \in Contents
      /\ NewStamps(stored[f], Merged(stored[f], rows)) = new
  BY <1>1, IncomingRows, MergedContent DEF StoreTypeOK
<1>3. /\ DOMAIN staged[p] \in SUBSET Files
      /\ \A g \in DOMAIN staged[p] : staged[p][g] \in Contents
  BY StagedContents DEF StoreTypeOK
<1>4. IsFiniteSet(new) /\ Cardinality(new) \in Nat
  <2>1. new \in SUBSET Stamps
    BY DEF NewStamps
  <2>. QED BY <2>1, FS_Subset, FS_CardinalityType
<1>. DEFINE s == [g \in DOMAIN staged[p] \cup {f} |->
                    IF g = f THEN Merged(stored[f], rows) ELSE staged[p][g]]
<1>5. s \in Staging
  <2>1. s \in [DOMAIN staged[p] \cup {f} -> Contents]
    BY <1>2, <1>3
  <2>2. DOMAIN staged[p] \cup {f} \in SUBSET Files
    BY <1>1, <1>3
  <2>. HIDE DEF s
  <2>. QED BY <2>1, <2>2 DEF Staging
<1>6. /\ staged' = [staged EXCEPT ![p] = s]
      /\ added' = [added EXCEPT ![p] = @ + Cardinality(new)]
      /\ UNCHANGED <<stored, durable, holder, pc, batch, renamed, synced, grown, promised>>
  BY DEF StageFile, NewRows, StoreTypeOK
<1>7. /\ DOMAIN s = DOMAIN staged[p] \cup {f}
      /\ s[f] = Merged(stored[f], rows)
      /\ \A g \in DOMAIN staged[p] : s[g] = staged[p][g]
  BY <1>1
<1>. HIDE DEF s
<1>8. StoreTypeOK'
  BY <1>4, <1>5, <1>6 DEF StoreTypeOK
<1>9. LockIsHeld' /\ SyncedIsDurable' /\ AppendedIsDurable'
  BY <1>6 DEF LockIsHeld, SyncedIsDurable, AppendedIsDurable
<1>10. /\ staged'[p] = s /\ renamed[p] \subseteq DOMAIN staged[p] /\ f \notin renamed[p]
       /\ \A q \in Procs : q # p => pc'[q] \notin {"staging", "synced"}
       /\ added[p] \in Nat /\ added'[p] = added[p] + Cardinality(new)
  BY <1>1, <1>6 DEF StoreTypeOK, StagedIsMerge, LockIsHeld
<1>11. StagedIsMerge'
  <2>1. /\ renamed'[p] = {} /\ batch'[p] = b /\ stored' = stored
        /\ DOMAIN staged[p] \subseteq Touched(b)
        /\ \A g \in DOMAIN staged[p] : staged[p][g] = Merged(stored[g], Incoming(b, g))
    BY <1>1, <1>6 DEF StagedIsMerge
  <2>2. DOMAIN s \subseteq Touched(b)
    BY <1>1, <1>7, <2>1
  <2>3. \A g \in DOMAIN s : s[g] = Merged(stored[g], Incoming(b, g))
    BY <1>7, <2>1
  <2>. HIDE DEF b, f, rows, new
  <2>. QED BY <1>10, <2>1, <2>2, <2>3 DEF StagedIsMerge
<1>12. CountIsKept'
  <2>. DEFINE old == grown[p] \cup Pending(p)
              more == {f} \X new
  <2>1. Pending(p)' = Pending(p) \cup more
    <3>1. \A g \in DOMAIN staged'[p] \ renamed'[p] :
             \/ g = f /\ NewStamps(stored'[g], staged'[p][g]) = new
             \/ /\ g # f /\ g \in DOMAIN staged[p] \ renamed[p]
                /\ NewStamps(stored'[g], staged'[p][g]) = NewStamps(stored[g], staged[p][g])
      BY <1>1, <1>2, <1>6, <1>7, <1>10
    <3>2. f \in DOMAIN staged'[p] \ renamed'[p] /\ new \subseteq Stamps
          /\ DOMAIN staged[p] \ renamed[p] \subseteq DOMAIN staged'[p] \ renamed'[p]
      BY <1>6, <1>7, <1>10 DEF NewStamps
    <3>. HIDE DEF new, f
    <3>. QED BY <1>1, <3>1, <3>2 DEF Pending
  <2>2. old \cap more = {}
    <3>1. \A x \in old : x[1] # f
      <4>. HIDE DEF new, f
      <4>. QED BY <1>1, <1>10 DEF Pending, CountIsKept
    <3>2. \A x \in more : x[1] = f
      OBVIOUS
    <3>. HIDE DEF old, more
    <3>. QED BY <3>1, <3>2
  <2>3. IsFiniteSet(old) /\ added[p] = Cardinality(old)
    BY <1>1 DEF CountIsKept
  <2>4. IsFiniteSet(more) /\ Cardinality(more) = Cardinality(new)
    <3>1. IsFiniteSet({f}) /\ Cardinality({f}) = 1
      BY FS_Singleton
    <3>2. IsFiniteSet(more) /\ Cardinality(more) = 1 * Cardinality(new)
      <4>. HIDE DEF new, f
      <4>. QED BY <1>4, <3>1, FS_Product
    <3>. QED BY <1>4, <3>2
  <2>5. IsFiniteSet(old \cup more) /\ Cardinality(old \cup more) = Cardinality(old) + Cardinality(more)
    <3>1. Cardinality({}) = 0
      BY FS_EmptySet
    <3>2. /\ IsFiniteSet(old \cup more)
          /\ Cardinality(old \cup more) = Cardinality(old) + Cardinality(more) - Cardinality(old \cap more)
      <4>. HIDE DEF old, more
      <4>. QED BY <2>3, <2>4, FS_Union
    <3>3. Cardinality(old) \in Nat /\ Cardinality(more) \in Nat /\ Cardinality(old \cap more) = 0
      <4>. HIDE DEF old, more
      <4>. QED BY <2>2, <2>3, <2>4, <3>1, FS_CardinalityType
    <3>. HIDE DEF old, more
    <3>. QED BY <3>2, <3>3
  <2>6. (grown[p] \cup Pending(p))' = old \cup more
    BY <1>6, <2>1
  <2>7. \A x \in grown'[p] : x[1] \in renamed'[p]
    BY <1>1, <1>6 DEF CountIsKept
  <2>. HIDE DEF old, more, new
  <2>. QED BY <1>10, <1>1, <1>6, <2>3, <2>4, <2>5, <2>6, <2>7 DEF CountIsKept
<1>. QED BY <1>8, <1>9, <1>11, <1>12

\* Renaming a file puts the merge of the batch in its place, so that what was stored
\* stays, and what was pending of the file is done.
LEMMA PublishInvariant ==
  ASSUME StoreInv, NEW p \in Procs, Publish(p)
  PROVE  StoreInv'
<1>. DEFINE b == batch[p]
            f == First(Touched(b) \ renamed[p])
            new == NewStamps(stored[f], staged[p][f])
<1>. USE DEF StoreInv
<1>1. /\ pc[p] = "staging" /\ holder = p /\ b \in Batches
      /\ DOMAIN staged[p] = Touched(b)
      /\ f \in Touched(b) \ renamed[p] /\ f \in Files
  BY FirstIsOne, TouchedFiles DEF Publish, AllStaged, LockIsHeld
<1>2. /\ stored[f] \in Contents /\ Incoming(b, f) \in Contents
      /\ staged[p][f] = Merged(stored[f], Incoming(b, f))
  BY <1>1, IncomingRows DEF StoreTypeOK, StagedIsMerge
<1>3. /\ staged[p][f] \in Contents
      /\ \A t \in Stamps : stored[f][t] # NoBar \/ Incoming(b, f)[t] # NoBar => staged[p][f][t] # NoBar
  <2>. HIDE DEF b, f
  <2>. QED BY <1>2, MergedContent
<1>4. /\ stored' = [stored EXCEPT ![f] = staged[p][f]]
      /\ renamed' = [renamed EXCEPT ![p] = @ \cup {f}]
      /\ grown' = [grown EXCEPT ![p] = @ \cup {f} \X new]
      /\ UNCHANGED <<durable, holder, pc, batch, staged, added, synced, promised>>
  BY DEF Publish
<1>. HIDE DEF f
<1>5. /\ stored'[f] = staged[p][f] /\ \A g \in Files : g # f => stored'[g] = stored[g]
      /\ renamed'[p] = renamed[p] \cup {f}
      /\ grown'[p] = grown[p] \cup {f} \X new
      /\ \A q \in Procs : q # p => pc'[q] \notin {"staging", "synced"}
      /\ pc'[p] = "staging"
  BY <1>1, <1>4 DEF StoreTypeOK, LockIsHeld
<1>6. \A g \in Files, t \in Stamps : stored[g][t] # NoBar => stored'[g][t] # NoBar
  BY <1>3, <1>5
<1>7. StoreTypeOK'
  <2>1. {f} \X new \subseteq Files \X Stamps
    BY <1>1 DEF NewStamps
  <2>. HIDE DEF new
  <2>. QED BY <1>1, <1>3, <1>4, <2>1 DEF StoreTypeOK
<1>8. LockIsHeld'
  BY <1>4 DEF LockIsHeld
<1>9. StagedIsMerge'
  <2>1. /\ DOMAIN staged[p] \subseteq Files /\ renamed[p] \subseteq DOMAIN staged[p]
        /\ \A g \in DOMAIN staged[p] \ renamed[p] : staged[p][g] = Merged(stored[g], Incoming(b, g))
        /\ \A g \in renamed[p], t \in Stamps : Incoming(b, g)[t] # NoBar => stored[g][t] # NoBar
    BY <1>1, TouchedFiles DEF StagedIsMerge
  <2>2. \A g \in DOMAIN staged[p] \ renamed'[p] : staged[p][g] = Merged(stored'[g], Incoming(b, g))
    BY <1>5, <2>1
  <2>3. \A g \in renamed'[p], t \in Stamps : Incoming(b, g)[t] # NoBar => stored'[g][t] # NoBar
    BY <1>3, <1>5, <1>6, <2>1
  <2>4. /\ staged'[p] = staged[p] /\ batch'[p] = b
        /\ renamed'[p] \subseteq DOMAIN staged[p]
    BY <1>1, <1>4, <1>5, <2>1
  <2>. HIDE DEF b
  <2>. QED BY <1>1, <1>5, <2>2, <2>3, <2>4 DEF StagedIsMerge
<1>10. CountIsKept'
  <2>1. /\ \A x \in grown[p] : x[1] \in renamed[p]
        /\ IsFiniteSet(grown[p] \cup Pending(p))
        /\ added[p] = Cardinality(grown[p] \cup Pending(p))
    BY <1>1 DEF CountIsKept
  <2>2. Pending(p) = Pending(p)' \cup {f} \X new
    <3>1. DOMAIN staged[p] \subseteq Files /\ staged'[p] = staged[p]
      BY <1>1, <1>4, TouchedFiles
    <3>2. DOMAIN staged'[p] \ renamed'[p] = (DOMAIN staged[p] \ renamed[p]) \ {f}
      BY <1>5, <3>1
    <3>3. \A g \in (DOMAIN staged[p] \ renamed[p]) \ {f} :
             NewStamps(stored'[g], staged'[p][g]) = NewStamps(stored[g], staged[p][g])
      BY <1>5, <3>1
    <3>4. f \in DOMAIN staged[p] \ renamed[p] /\ new = NewStamps(stored[f], staged[p][f])
          /\ new \subseteq Stamps
      BY <1>1 DEF NewStamps
    <3>5. \A x \in Files \X Stamps :
             x \in Pending(p) <=> x \in Pending(p)' \/ (x[1] = f /\ x[2] \in new)
      <4>. HIDE DEF new
      <4>. QED BY <3>2, <3>3, <3>4 DEF Pending
    <3>6. Pending(p) \subseteq Files \X Stamps /\ Pending(p)' \subseteq Files \X Stamps
          /\ {f} \X new \subseteq Files \X Stamps
      <4>. HIDE DEF new
      <4>. QED BY <1>1, <3>4 DEF Pending
    <3>7. \A x \in Files \X Stamps : x \in {f} \X new <=> x[1] = f /\ x[2] \in new
      <4>. HIDE DEF new
      <4>. QED OBVIOUS
    <3>. HIDE DEF new, Pending
    <3>. QED BY <3>5, <3>6, <3>7
  <2>3. (grown[p] \cup Pending(p))' = grown[p] \cup Pending(p)
    <3>. HIDE DEF new
    <3>. QED BY <1>5, <2>2
  <2>4. \A x \in grown'[p] : x[1] \in renamed'[p]
    <3>. HIDE DEF new
    <3>. QED BY <1>5, <2>1
  <2>5. added'[p] = added[p]
    BY <1>4
  <2>. QED BY <1>5, <2>1, <2>3, <2>4, <2>5 DEF CountIsKept
<1>11. SyncedIsDurable'
  BY <1>5 DEF SyncedIsDurable
<1>12. AppendedIsDurable'
  BY <1>4, <1>6 DEF AppendedIsDurable, StoreTypeOK
<1>. QED BY <1>7, <1>8, <1>9, <1>10, <1>11, <1>12

\* The sync comes when every file is renamed: all bars of the batch are stored then, and
\* what it syncs is what is stored.
LEMMA SyncInvariant ==
  ASSUME StoreInv, NEW p \in Procs, SyncDirs(p)
  PROVE  StoreInv'
<1>. DEFINE b == batch[p]
<1>. USE DEF StoreInv
<1>1. /\ pc[p] = "staging" /\ holder = p /\ b \in Batches
      /\ DOMAIN staged[p] = Touched(b) /\ renamed[p] = Touched(b)
      /\ Touched(b) \subseteq Files
  BY TouchedFiles DEF SyncDirs, AllRenamed, AllStaged, LockIsHeld
<1>2. PICK D \in SUBSET {Directory[f] : f \in Touched(b)} :
        /\ synced' = [synced EXCEPT ![p] = D]
        /\ durable' = [f \in Files |-> IF Directory[f] \in D THEN stored[f] ELSE durable[f]]
  BY DEF SyncDirs
<1>3. /\ pc' = [pc EXCEPT ![p] = "synced"]
      /\ UNCHANGED <<stored, holder, batch, staged, renamed, added, grown, promised>>
  BY DEF SyncDirs
<1>4. /\ \A f \in Files : Directory[f] \in D => durable'[f] = stored[f]
      /\ \A f \in Files : durable'[f] \in {stored[f], durable[f]}
      /\ synced'[p] = D
      /\ pc'[p] = "synced" /\ \A q \in Procs : q # p => pc'[q] \notin {"staging", "synced"}
  BY <1>2, <1>1, <1>3 DEF StoreTypeOK, LockIsHeld
<1>5. StoreTypeOK'
  <2>1. D \in SUBSET {Directory[f] : f \in Files}
    BY <1>1
  <2>2. durable' \in [Files -> Contents]
    BY <1>2 DEF StoreTypeOK
  <2>. QED BY <1>2, <1>3, <2>1, <2>2 DEF StoreTypeOK
<1>6. LockIsHeld' /\ StagedIsMerge'
  BY <1>1, <1>3, <1>4 DEF LockIsHeld, StagedIsMerge
<1>7. CountIsKept'
  <2>1. Pending(p) = {}
    BY <1>1 DEF Pending
  <2>2. added[p] = Cardinality(grown[p])
    BY <1>1, <2>1 DEF CountIsKept
  <2>. QED BY <1>3, <1>4, <2>2 DEF CountIsKept
<1>8. SyncedIsDurable'
  <2>1. ASSUME NEW n \in DOMAIN b
        PROVE  /\ stored[b[n].file][b[n].at] # NoBar
               /\ Directory[b[n].file] \in D => durable'[b[n].file][b[n].at] # NoBar
    <3>1. b[n].file \in Touched(b) /\ b[n].file \in Files /\ b[n].at \in Stamps
      BY <1>1, TouchedFiles
    <3>2. Incoming(b, b[n].file)[b[n].at] # NoBar
      BY <1>1, <3>1, IncomingRows
    <3>3. stored[b[n].file][b[n].at] # NoBar
      BY <1>1, <3>1, <3>2 DEF StagedIsMerge
    <3>. QED BY <1>4, <3>1, <3>3
  <2>2. batch'[p] = b /\ stored' = stored
    BY <1>3
  <2>. HIDE DEF b
  <2>. QED BY <1>4, <2>1, <2>2 DEF SyncedIsDurable
<1>9. AppendedIsDurable'
  <2>1. ASSUME NEW x \in promised
        PROVE  stored[x[1]][x[2]] # NoBar /\ durable'[x[1]][x[2]] # NoBar
    <3>1. x[1] \in Files
      BY <2>1 DEF StoreTypeOK
    <3>. QED BY <1>4, <2>1, <3>1 DEF AppendedIsDurable
  <2>. QED BY <1>3, <2>1 DEF AppendedIsDurable
<1>. QED BY <1>5, <1>6, <1>7, <1>8, <1>9

\* What calls that end had is gone; what the others have is as it was.
LEMMA EndedCalls ==
  ASSUME StoreTypeOK, NEW P \in SUBSET Procs, Ended(P)
  PROVE  /\ batch' \in [Procs -> Batches \cup {NoBatch}]
         /\ staged' \in [Procs -> Staging]
         /\ renamed' \in [Procs -> SUBSET Files]
         /\ added' \in [Procs -> Nat]
         /\ synced' \in [Procs -> SUBSET {Directory[f] : f \in Files}]
         /\ grown' \in [Procs -> SUBSET (Files \X Stamps)]
         /\ \A q \in Procs \ P :
              /\ batch'[q] = batch[q] /\ staged'[q] = staged[q] /\ renamed'[q] = renamed[q]
              /\ added'[q] = added[q] /\ synced'[q] = synced[q] /\ grown'[q] = grown[q]
<1>1. <<>> \in Staging
  <2>1. <<>> \in [{} -> Contents]
    OBVIOUS
  <2>. QED BY <2>1 DEF Staging
<1>. QED BY <1>1 DEF StoreTypeOK, Ended

\* What an append that returns promises was stored and on disk before.
LEMMA ReturnInvariant ==
  ASSUME StoreInv, NEW p \in Procs, Return(p)
  PROVE  StoreInv'
<1>. DEFINE b == batch[p]
            kept == {m \in DOMAIN b : Directory[b[m].file] \in synced[p]}
            held == {<<b[n].file, b[n].at>> : n \in kept}
<1>. USE BarStoreConstants DEF StoreInv
<1>1. /\ pc[p] = "synced" /\ holder = p /\ b \in Batches
      /\ holder' = Nobody /\ pc' = [pc EXCEPT ![p] = "idle"]
      /\ promised' = promised \cup held
      /\ UNCHANGED <<stored, durable>>
  BY DEF Return, Unlocked, LockIsHeld
<1>2. \A q \in Procs : pc'[q] \notin {"staging", "synced"}
  BY <1>1 DEF StoreTypeOK, LockIsHeld
<1>3. \A x \in held : /\ x \in Files \X Stamps
                      /\ stored[x[1]][x[2]] # NoBar /\ durable[x[1]][x[2]] # NoBar
  <2>1. \A n \in kept : b[n].file \in Files /\ b[n].at \in Stamps
    BY <1>1, TouchedFiles
  <2>2. \A n \in kept : /\ stored[b[n].file][b[n].at] # NoBar
                        /\ durable[b[n].file][b[n].at] # NoBar
    BY <1>1 DEF SyncedIsDurable
  <2>3. \A x \in held : \E n \in kept : x = <<b[n].file, b[n].at>>
    OBVIOUS
  <2>. HIDE DEF b, kept, held
  <2>. QED BY <2>1, <2>2, <2>3
<1>. HIDE DEF b, kept, held
<1>4. StoreTypeOK'
  <2>1. Ended({p})
    BY DEF Return
  <2>. QED BY <1>1, <1>3, <2>1, EndedCalls DEF StoreTypeOK
<1>5. LockIsHeld' /\ StagedIsMerge' /\ CountIsKept' /\ SyncedIsDurable'
  BY <1>2 DEF LockIsHeld, StagedIsMerge, CountIsKept, SyncedIsDurable
<1>6. AppendedIsDurable'
  BY <1>1, <1>3 DEF AppendedIsDurable
<1>. QED BY <1>4, <1>5, <1>6

\* An append that fails leaves nobody who stages or syncs.
LEMMA FailInvariant ==
  ASSUME StoreInv, NEW p \in Procs, Fail(p)
  PROVE  StoreInv'
<1>. USE BarStoreConstants DEF StoreInv
<1>1. /\ holder' = Nobody /\ pc' = [pc EXCEPT ![p] = "idle"] /\ Ended({p})
      /\ UNCHANGED <<stored, durable, promised>>
  BY DEF Fail, Unlocked
<1>2. \A q \in Procs : pc'[q] \notin {"staging", "synced"}
  BY DEF Fail, StoreTypeOK, LockIsHeld
<1>3. StoreTypeOK'
  BY <1>1, EndedCalls DEF StoreTypeOK
<1>4. LockIsHeld' /\ StagedIsMerge' /\ CountIsKept' /\ SyncedIsDurable'
  BY <1>2 DEF LockIsHeld, StagedIsMerge, CountIsKept, SyncedIsDurable
<1>5. AppendedIsDurable'
  BY <1>1 DEF AppendedIsDurable
<1>. QED BY <1>3, <1>4, <1>5

\* A collector that dies leaves what the others do as it is.
LEMMA KillInvariant ==
  ASSUME StoreInv, NEW p \in Procs, Kill(p)
  PROVE  StoreInv'
<1>. USE BarStoreConstants DEF StoreInv
<1>1. /\ pc' = [pc EXCEPT ![p] = "idle"] /\ Ended({p})
      /\ holder' = (IF holder = p THEN Nobody ELSE holder)
      /\ UNCHANGED <<stored, durable, promised>>
  BY DEF Kill
<1>2. \A q \in Procs : pc'[q] \in {"staging", "synced"} => q # p /\ pc'[q] = pc[q]
  BY <1>1 DEF StoreTypeOK
<1>3. \A q \in Procs : q # p =>
        /\ batch'[q] = batch[q] /\ staged'[q] = staged[q] /\ renamed'[q] = renamed[q]
        /\ added'[q] = added[q] /\ synced'[q] = synced[q] /\ grown'[q] = grown[q]
  BY <1>1, EndedCalls
<1>4. StoreTypeOK'
  BY <1>1, EndedCalls DEF StoreTypeOK
<1>5. LockIsHeld'
  BY <1>1, <1>2, <1>3 DEF LockIsHeld
<1>6. StagedIsMerge'
  BY <1>1, <1>2, <1>3 DEF StagedIsMerge
<1>7. CountIsKept'
  <2>1. \A q \in Procs : q # p => Pending(q)' = Pending(q)
    BY <1>1, <1>3 DEF Pending
  <2>2. \A q \in Procs : pc'[q] \in {"staging", "synced"} =>
          /\ pc'[q] = pc[q] /\ added'[q] = added[q] /\ grown'[q] = grown[q]
          /\ renamed'[q] = renamed[q] /\ Pending(q)' = Pending(q)
    BY <1>2, <1>3, <2>1
  <2>3. CountIsKept
    OBVIOUS
  <2>. QED BY ONLY <2>2, <2>3 DEF CountIsKept
<1>8. SyncedIsDurable' /\ AppendedIsDurable'
  BY <1>1, <1>2, <1>3 DEF SyncedIsDurable, AppendedIsDurable
<1>. QED BY <1>4, <1>5, <1>6, <1>7, <1>8

\* Writing a file back puts on disk what readers see.
LEMMA WritebackInvariant ==
  ASSUME StoreInv, NEW f \in Files, Writeback(f)
  PROVE  StoreInv'
<1>. USE DEF StoreInv
<1>1. /\ durable' = [durable EXCEPT ![f] = stored[f]]
      /\ UNCHANGED <<stored, holder, pc, batch, staged, renamed, added, synced, grown, promised>>
  BY DEF Writeback
<1>2. \A g \in Files : durable'[g] \in {durable[g], stored[g]}
  BY <1>1 DEF StoreTypeOK
<1>3. StoreTypeOK'
  BY <1>1 DEF StoreTypeOK
<1>4. LockIsHeld' /\ StagedIsMerge' /\ CountIsKept'
  BY <1>1 DEF LockIsHeld, StagedIsMerge, CountIsKept, Pending
<1>5. SyncedIsDurable'
  <2>. SUFFICES ASSUME NEW q \in Procs, pc'[q] = "synced", NEW n \in DOMAIN batch'[q]
                PROVE  /\ stored'[batch'[q][n].file][batch'[q][n].at] # NoBar
                       /\ Directory[batch'[q][n].file] \in synced'[q] =>
                            durable'[batch'[q][n].file][batch'[q][n].at] # NoBar
    BY DEF SyncedIsDurable
  <2>1. batch[q][n].file \in Files
    BY <1>1, TouchedFiles DEF LockIsHeld
  <2>. QED BY <1>1, <1>2, <2>1 DEF SyncedIsDurable
<1>6. AppendedIsDurable'
  BY <1>1, <1>2 DEF AppendedIsDurable, StoreTypeOK
<1>. QED BY <1>3, <1>4, <1>5, <1>6

\* A power cut ends every append; what was promised is on disk.
LEMMA PowerCutInvariant ==
  ASSUME StoreInv, PowerCut
  PROVE  StoreInv'
<1>. USE BarStoreConstants DEF StoreInv
<1>1. /\ stored' = durable /\ holder' = Nobody /\ pc' = [q \in Procs |-> "idle"] /\ Ended(Procs)
      /\ UNCHANGED <<durable, promised>>
  BY DEF PowerCut
<1>2. StoreTypeOK'
  BY <1>1, EndedCalls DEF StoreTypeOK
<1>3. LockIsHeld' /\ StagedIsMerge' /\ CountIsKept' /\ SyncedIsDurable'
  BY <1>1 DEF LockIsHeld, StagedIsMerge, CountIsKept, SyncedIsDurable
<1>4. AppendedIsDurable'
  BY <1>1 DEF AppendedIsDurable
<1>. QED BY <1>2, <1>3, <1>4

\* The invariant holds in every state.
LEMMA StoreInvariant == Spec => []StoreInv
<1>1. Init => StoreInv
  BY StoreInitInvariant
<1>2. StoreInv /\ [Next]_vars => StoreInv'
  <2>. SUFFICES ASSUME StoreInv, [Next]_vars PROVE StoreInv'
    OBVIOUS
  <2>1. ASSUME NEW p \in Procs, AppendBars(p) PROVE StoreInv'
    BY <2>1, BeginInvariant, StageInvariant, PublishInvariant, SyncInvariant, ReturnInvariant,
       FailInvariant, KillInvariant DEF AppendBars
  <2>2. ASSUME NEW f \in Files, Writeback(f) PROVE StoreInv'
    BY <2>2, WritebackInvariant
  <2>3. CASE PowerCut
    BY <2>3, PowerCutInvariant
  <2>4. CASE UNCHANGED vars
    <3>1. UNCHANGED <<stored, durable, holder, pc, batch, staged, renamed, added, synced, grown, promised>>
      BY <2>4 DEF vars
    <3>2. StoreTypeOK' /\ LockIsHeld'
      BY <3>1 DEF StoreInv, StoreTypeOK, LockIsHeld
    <3>3. StagedIsMerge'
      BY <3>1 DEF StoreInv, StagedIsMerge
    <3>4. CountIsKept'
      <4>1. \A q \in Procs : Pending(q)' = Pending(q)
        BY <3>1 DEF Pending
      <4>. QED BY <3>1, <4>1 DEF StoreInv, CountIsKept
    <3>5. SyncedIsDurable' /\ AppendedIsDurable'
      BY <3>1 DEF StoreInv, SyncedIsDurable, AppendedIsDurable
    <3>. QED BY <3>2, <3>3, <3>4, <3>5 DEF StoreInv
  <2>. QED BY <2>1, <2>2, <2>3, <2>4 DEF Next
<1>. QED BY <1>1, <1>2, PTL DEF Spec

(***************************************************************************)
(* What it gives.                                                          *)
(***************************************************************************)
\* The count append_bars returns is the number of bars it added to the store, whatever
\* the batch, the other collectors and the attempts that failed before.
THEOREM AppendsAreCounted == Spec => []CountIsExact
<1>1. StoreInv => CountIsExact
  BY DEF StoreInv, CountIsKept, CountIsExact
<1>. QED BY <1>1, StoreInvariant, PTL

\* A bar whose append returned, in a directory that could be synced, is stored, and every
\* power cut leaves it stored.
THEOREM AppendedBarsStay == Spec => []AppendedIsDurable
<1>1. StoreInv => AppendedIsDurable
  BY DEF StoreInv
<1>. QED BY <1>1, StoreInvariant, PTL

\* The store implements the archive its readers rely on: its renames are merges with
\* what is stored at that moment, and nothing else but a power cut changes a file.
THEOREM AppendsOnlyMerge == Spec => MergesOnly
<1>1. Init => Archive!Init
  BY DEF Init, Empty, Archive!Init
<1>2. StoreInv /\ [Next]_vars => [Archive!Next]_<<stored, durable>>
  <2>. SUFFICES ASSUME StoreInv, [Next]_vars PROVE [Archive!Next]_<<stored, durable>>
    OBVIOUS
  <2>. USE DEF StoreInv
  <2>1. ASSUME NEW p \in Procs, Publish(p) PROVE Archive!Next
    <3>. DEFINE f == First(Touched(batch[p]) \ renamed[p])
    <3>1. f \in Files /\ batch[p] \in Batches /\ pc[p] = "staging"
          /\ f \in DOMAIN staged[p] \ renamed[p]
      BY <2>1, FirstIsOne, TouchedFiles DEF Publish, AllStaged, LockIsHeld
    <3>2. /\ stored' = [stored EXCEPT ![f] = staged[p][f]] /\ UNCHANGED durable
          /\ staged[p][f] = Merged(stored[f], Incoming(batch[p], f))
      BY <2>1, <3>1 DEF Publish, StagedIsMerge
    <3>. HIDE DEF f
    <3>3. Archive!Merge(batch[p], f)
      BY <3>1, <3>2 DEF Archive!Merge, Archive!Merged, Merged, StoreTypeOK
    <3>. QED BY <3>1, <3>3 DEF Archive!Next
  <2>2. ASSUME NEW p \in Procs, SyncDirs(p) PROVE Archive!Next
    <3>1. PICK D \in SUBSET {Directory[f] : f \in Touched(batch[p])} :
            durable' = [f \in Files |-> IF Directory[f] \in D THEN stored[f] ELSE durable[f]]
      BY <2>2 DEF SyncDirs
    <3>2. Archive!Persist({f \in Files : Directory[f] \in D})
      BY <2>2, <3>1 DEF SyncDirs, Archive!Persist
    <3>. QED BY <3>2 DEF Archive!Next
  <2>3. ASSUME NEW f \in Files, Writeback(f) PROVE Archive!Next
    <3>1. Archive!Persist({f})
      BY <2>3 DEF Writeback, Archive!Persist, StoreTypeOK
    <3>. QED BY <3>1 DEF Archive!Next
  <2>4. CASE PowerCut
    BY <2>4 DEF PowerCut, Archive!PowerCut, Archive!Next
  <2>5. ASSUME NEW p \in Procs, AppendBars(p) PROVE [Archive!Next]_<<stored, durable>>
    <3>1. \/ Publish(p) \/ SyncDirs(p)
          \/ UNCHANGED <<stored, durable>>
      BY <2>5 DEF AppendBars, Begin, StageFile, Return, Fail, Kill
    <3>. QED BY <3>1, <2>1, <2>2
  <2>6. CASE UNCHANGED vars
    BY <2>6 DEF vars
  <2>. QED BY <2>3, <2>4, <2>5, <2>6 DEF Next
<1>. QED BY <1>1, <1>2, StoreInvariant, PTL DEF Spec, MergesOnly, Archive!Spec

(***************************************************************************)
(* The backtest.                                                           *)
(***************************************************************************)
Reports == [day : Nat, net : Int]

\* A day of the panel is reported once, and days are reported in their order.
BacktestInv ==
  /\ reports \in Seq(Reports)
  /\ day \in Nat \ {0}
  /\ \A n \in DOMAIN reports : reports[n].day \in 1 .. LastDay /\ reports[n].day < day
  /\ \A m, n \in DOMAIN reports : m < n => reports[m].day < reports[n].day

LEMMA BacktestStart == ASSUME BacktestInit PROVE BacktestInv
<1>1. reports = <<>> /\ day = 1
  BY DEF BacktestInit
<1>2. reports \in Seq(Reports) /\ DOMAIN reports = {}
  BY <1>1
<1>3. QED
  BY <1>1, <1>2 DEF BacktestInv

\* Nets are integers.
LEMMA ReportTyped ==
  ASSUME BacktestInv
  PROVE  \A n \in DOMAIN reports : reports[n].net \in Int
<1>1. reports \in Seq(Reports)
  BY DEF BacktestInv
<1>2. ASSUME NEW n \in DOMAIN reports
      PROVE  reports[n] \in Reports
  BY ONLY <1>1, <1>2
<1>3. QED
  BY <1>2 DEF Reports

\* A day that reports is later than all that have.
LEMMA ReplayDayInvariant ==
  ASSUME BacktestInv, NEW net \in Nets, ReplayDay(net)
  PROVE  BacktestInv'
<1>1. PICK len \in Nat : len = Len(reports)
  BY DEF BacktestInv
<1>2. PICK r : r = [day |-> day, net |-> net]
  OBVIOUS
<1>3. r \in Reports /\ r.day = day /\ day \in 1 .. LastDay
  BY <1>2, BacktestConstants DEF BacktestInv, ReplayDay, Reports
<1>4. reports \in Seq(Reports) /\ DOMAIN reports = 1 .. len /\ reports' = Append(reports, r)
  BY <1>1, <1>2 DEF BacktestInv, ReplayDay
<1>5. /\ reports' \in Seq(Reports) /\ DOMAIN reports' = 1 .. len + 1
      /\ \A n \in 1 .. len : reports'[n] = reports[n]
      /\ reports'[len + 1] = r
  BY ONLY <1>1, <1>3, <1>4
<1>6. day' = day + 1 /\ day \in Nat \ {0}
  BY DEF ReplayDay, BacktestInv
<1>7. \A n \in 1 .. len : /\ reports'[n].day \in 1 .. LastDay /\ reports'[n].day < day
                          /\ reports'[n].day \in Nat
  BY <1>4, <1>5 DEF BacktestInv
<1>8. ASSUME NEW n \in 1 .. len + 1
      PROVE  reports'[n].day \in 1 .. LastDay /\ reports'[n].day < day'
  <2>1. CASE n = len + 1
    BY <1>3, <1>5, <1>6, <2>1
  <2>2. CASE n \in 1 .. len
    BY ONLY <1>6, <1>7, <2>2
  <2>3. QED
    BY <2>1, <2>2
<1>9. ASSUME NEW m \in 1 .. len + 1, NEW n \in 1 .. len + 1, m < n
      PROVE  reports'[m].day < reports'[n].day
  <2>1. m \in 1 .. len
    BY <1>9
  <2>2. CASE n = len + 1
    BY <1>3, <1>5, <1>7, <2>1, <2>2
  <2>3. CASE n \in 1 .. len
    BY <1>4, <1>5, <1>9, <2>1, <2>3 DEF BacktestInv
  <2>4. QED
    BY <2>2, <2>3
<1>10. QED
  BY <1>5, <1>6, <1>8, <1>9 DEF BacktestInv

\* The others report nothing.
LEMMA BacktestStep ==
  ASSUME BacktestInv, [BacktestNext]_backtestVars
  PROVE  BacktestInv'
<1>1. ASSUME NEW net \in Nets, ReplayDay(net)
      PROVE  BacktestInv'
  BY <1>1, ReplayDayInvariant
<1>2. CASE SkipDay
  BY <1>2 DEF SkipDay, BacktestInv
<1>3. CASE AbortedDay
  BY <1>3 DEF AbortedDay, BacktestInv
<1>4. CASE Judge
  BY <1>4 DEF Judge, BacktestInv
<1>5. CASE UNCHANGED backtestVars
  BY <1>5 DEF backtestVars, BacktestInv
<1>6. QED
  BY <1>1, <1>2, <1>3, <1>4, <1>5 DEF BacktestNext

\* Sums of one value and of two.
LEMMA SumOfOne ==
  ASSUME NEW f, NEW x, f[x] \in Int
  PROVE  SumFunctionOnSet(f, {x}) = f[x]
<1>1. IsFiniteSet({}) /\ x \notin {} /\ \A y \in {} \cup {x} : f[y] \in Int
  BY FS_EmptySet
<1>2. SumFunctionOnSet(f, {} \cup {x}) = SumFunctionOnSet(f, {}) + f[x]
  BY ONLY <1>1, SumAdd
<1>3. SumFunctionOnSet(f, {}) = 0
  BY ONLY <1>1, SumUnfold
<1>4. {} \cup {x} = {x}
  OBVIOUS
<1>5. QED
  BY <1>2, <1>3, <1>4

\* Likewise.
LEMMA SumOfTwo ==
  ASSUME NEW f, NEW x, NEW y, x # y, f[x] \in Int, f[y] \in Int
  PROVE  SumFunctionOnSet(f, {x, y}) = f[x] + f[y]
<1>1. IsFiniteSet({x}) /\ y \notin {x} /\ \A z \in {x} \cup {y} : f[z] \in Int
  BY FS_Singleton
<1>2. SumFunctionOnSet(f, {x} \cup {y}) = SumFunctionOnSet(f, {x}) + f[y]
  BY ONLY <1>1, SumAdd
<1>3. SumFunctionOnSet(f, {x}) = f[x]
  BY SumOfOne
<1>4. {x} \cup {y} = {x, y}
  OBVIOUS
<1>5. QED
  BY <1>2, <1>3, <1>4

\* The mean of a session of one event is its net.
LEMMA MeanOfOne ==
  ASSUME NEW events, NEW p \in DOMAIN events, NEW d, Of(events, d) = {p}, events[p].net \in Int
  PROVE  d \in Sessions(events) /\ Means(events)[d] = events[p].net * Unit
<1>1. d \in Sessions(events)
  BY DEF Of, Sessions
<1>2. PICK nets : nets = [n \in DOMAIN events |-> events[n].net]
  OBVIOUS
<1>3. nets[p] = events[p].net
  BY <1>2
<1>4. Total(events, d) = events[p].net
  <2>1. SumFunctionOnSet(nets, {p}) = nets[p]
    BY <1>3, SumOfOne
  <2>2. QED
    BY <1>2, <1>3, <2>1 DEF Total
<1>5. Cardinality({p}) = 1 /\ Unit \div 1 = Unit
  <2>1. Cardinality({p}) = 1
    BY ONLY FS_Singleton
  <2>2. Unit \in Nat
    BY BacktestConstants
  <2>3. Unit \div 1 = Unit
    BY ONLY <2>2
  <2>4. QED
    BY ONLY <2>1, <2>3
<1>6. Means(events)[d] = Total(events, d) * (Unit \div Cardinality(Of(events, d)))
  BY <1>1 DEF Means
<1>7. QED
  BY <1>1, <1>4, <1>5, <1>6

\* That of a session of two, which have twice an amount together, is the amount.
LEMMA MeanOfTwo ==
  ASSUME NEW events, NEW p \in DOMAIN events, NEW q \in DOMAIN events, p # q,
         NEW d, Of(events, d) = {p, q}, events[p].net \in Int, events[q].net \in Int,
         NEW x \in Int, events[p].net + events[q].net = 2 * x, LastDay >= 1
  PROVE  d \in Sessions(events) /\ Means(events)[d] = x * Unit
<1>1. d \in Sessions(events)
  BY DEF Of, Sessions
<1>2. PICK nets : nets = [n \in DOMAIN events |-> events[n].net]
  OBVIOUS
<1>3. nets[p] = events[p].net /\ nets[q] = events[q].net
  BY <1>2
<1>4. Total(events, d) = 2 * x
  <2>1. SumFunctionOnSet(nets, {p, q}) = nets[p] + nets[q]
    BY <1>3, SumOfTwo
  <2>2. QED
    BY <1>2, <1>3, <2>1 DEF Total
<1>5. Cardinality({p, q}) = 2
  <2>1. IsFiniteSet({p}) /\ Cardinality({p}) = 1 /\ q \notin {p} /\ {p} \cup {q} = {p, q}
    BY FS_Singleton
  <2>2. PICK S : S = {p} \cup {q}
    OBVIOUS
  <2>3. Cardinality(S) = Cardinality({p}) + 1
    BY ONLY <2>1, <2>2, FS_AddElement
  <2>4. Cardinality(S) = 2
    BY ONLY <2>1, <2>3
  <2>5. S = {p, q}
    BY ONLY <2>2
  <2>6. QED
    BY ONLY <2>4, <2>5
<1>6. PICK u \in Int : Unit = 2 * u /\ Unit \div 2 = u
  <2>1. Unit \in Nat /\ Unit % 2 = 0
    BY BacktestConstants
  <2>2. QED
    BY ONLY <2>1
<1>7. Means(events)[d] = Total(events, d) * (Unit \div Cardinality(Of(events, d)))
  BY <1>1 DEF Means
<1>8. Means(events)[d] = (2 * x) * u
  BY <1>4, <1>5, <1>6, <1>7
<1>9. (2 * x) * u = x * (2 * u)
  BY ONLY x \in Int, u \in Int
<1>10. QED
  BY <1>1, <1>6, <1>8, <1>9

\* The reports with that of place n in two, which have twice its net together.
InTwo(events, n) ==
  /\ DOMAIN events = 1 .. Len(reports) + 1
  /\ \A i \in 1 .. n - 1 : events[i] = reports[i]
  /\ \A i \in n + 1 .. Len(reports) : events[i + 1] = reports[i]
  /\ \A p \in {n, n + 1} : events[p].day = reports[n].day /\ events[p].net \in Int
  /\ events[n].net + events[n + 1].net = 2 * reports[n].net

\* Where the events of a report are then.
LEMMA PlacesInTwo ==
  ASSUME BacktestInv, NEW n \in DOMAIN reports, NEW events, InTwo(events, n),
         NEW i \in DOMAIN reports
  PROVE  Of(events, reports[i].day) =
           IF i = n THEN {n, n + 1} ELSE {IF i < n THEN i ELSE i + 1}
<1>1. PICK len \in Nat : len = Len(reports) /\ DOMAIN reports = 1 .. len
  BY DEF BacktestInv
<1>2. i \in 1 .. len /\ n \in 1 .. len
  BY <1>1
<1>3. \A j, k \in 1 .. len : reports[j].day = reports[k].day => j = k
  <2>1. ASSUME NEW j \in 1 .. len, NEW k \in 1 .. len, j < k
        PROVE  reports[j].day # reports[k].day
    <3>1. /\ reports[j].day < reports[k].day
          /\ reports[j].day \in 1 .. LastDay /\ reports[k].day \in 1 .. LastDay
      BY <1>1, <2>1 DEF BacktestInv
    <3>2. QED
      BY ONLY <3>1
  <2>2. \A j, k \in 1 .. len : j < k \/ k < j \/ j = k
    OBVIOUS
  <2>3. QED
    BY <2>1, <2>2
<1>4. /\ DOMAIN events = 1 .. len + 1
      /\ \A j \in 1 .. n - 1 : events[j] = reports[j]
      /\ \A j \in n + 1 .. len : events[j + 1] = reports[j]
      /\ events[n].day = reports[n].day /\ events[n + 1].day = reports[n].day
  BY <1>1 DEF InTwo
<1>5. ASSUME NEW p \in 1 .. len + 1
      PROVE  events[p].day = reports[i].day
               <=> p \in IF i = n THEN {n, n + 1} ELSE {IF i < n THEN i ELSE i + 1}
  <2>1. PICK j \in 1 .. len : j = (IF p <= n THEN p ELSE p - 1)
    BY <1>2
  <2>2. events[p].day = reports[j].day
    <3>1. CASE p < n
      BY <1>2, <1>4, <2>1, <3>1
    <3>2. CASE p = n \/ p = n + 1
      BY <1>2, <1>4, <2>1, <3>2
    <3>3. CASE p > n + 1
      <4>1. j \in n + 1 .. len /\ j + 1 = p
        BY ONLY <1>2, <2>1, <3>3, p \in 1 .. len + 1, len \in Nat
      <4>2. events[j + 1] = reports[j]
        BY ONLY <1>4, <4>1
      <4>3. QED
        BY ONLY <4>1, <4>2
    <3>4. QED
      BY ONLY <1>2, <3>1, <3>2, <3>3, p \in 1 .. len + 1, len \in Nat
  <2>3. events[p].day = reports[i].day <=> j = i
    BY ONLY <1>2, <1>3, <2>2, j \in 1 .. len
  <2>4. j = i <=> p \in IF i = n THEN {n, n + 1} ELSE {IF i < n THEN i ELSE i + 1}
    BY ONLY <1>2, <2>1, p \in 1 .. len + 1, len \in Nat
  <2>5. QED
    BY ONLY <2>3, <2>4
<1>6. (IF i = n THEN {n, n + 1} ELSE {IF i < n THEN i ELSE i + 1}) \subseteq 1 .. len + 1
  BY <1>2
<1>7. QED
  BY <1>4, <1>5, <1>6 DEF Of

\* So that every session has the mean it had.
LEMMA MeansInTwo ==
  ASSUME BacktestInv, NEW n \in DOMAIN reports, NEW events, InTwo(events, n)
  PROVE  Sessions(events) = Sessions(reports) /\ Means(events) = Means(reports)
<1>1. PICK len \in Nat : len = Len(reports) /\ DOMAIN reports = 1 .. len
  BY DEF BacktestInv
<1>2. n \in 1 .. len /\ \A i \in 1 .. len : reports[i].net \in Int
  BY <1>1, ReportTyped
<1>3. LastDay >= 1
  BY <1>1, BacktestConstants DEF BacktestInv
<1>4. ASSUME NEW i \in 1 .. len
      PROVE  Of(reports, reports[i].day) = {i}
  <2>1. ASSUME NEW j \in 1 .. len, reports[j].day = reports[i].day
        PROVE  j = i
    <3>1. /\ j < i => reports[j].day < reports[i].day
          /\ i < j => reports[i].day < reports[j].day
          /\ reports[j].day \in 1 .. LastDay /\ reports[i].day \in 1 .. LastDay
      BY <1>1 DEF BacktestInv
    <3>2. QED
      BY ONLY <2>1, <3>1, i \in 1 .. len, j \in 1 .. len
  <2>2. QED
    BY <1>1, <2>1 DEF Of
<1>5. ASSUME NEW i \in 1 .. len
      PROVE  /\ reports[i].day \in Sessions(reports)
             /\ Means(reports)[reports[i].day] = reports[i].net * Unit
  BY <1>1, <1>2, <1>4, MeanOfOne
<1>6. ASSUME NEW i \in 1 .. len
      PROVE  /\ reports[i].day \in Sessions(events)
             /\ Means(events)[reports[i].day] = reports[i].net * Unit
  <2>1. Of(events, reports[i].day) =
          IF i = n THEN {n, n + 1} ELSE {IF i < n THEN i ELSE i + 1}
    BY <1>1, PlacesInTwo
  <2>2. CASE i = n
    <3>1. /\ n \in DOMAIN events /\ n + 1 \in DOMAIN events /\ n # n + 1
          /\ events[n].net \in Int /\ events[n + 1].net \in Int
          /\ events[n].net + events[n + 1].net = 2 * reports[i].net
      BY <1>1, <1>2, <2>2 DEF InTwo
    <3>2. Of(events, reports[i].day) = {n, n + 1} /\ reports[i].net \in Int
      BY <1>2, <2>1, <2>2
    <3>3. QED
      BY ONLY <1>3, <3>1, <3>2, MeanOfTwo
  <2>3. CASE i # n
    <3>1. PICK p : p = (IF i < n THEN i ELSE i + 1)
      OBVIOUS
    <3>2. p \in DOMAIN events /\ events[p] = reports[i]
      <4>1. CASE i < n
        <5>1. i \in 1 .. n - 1 /\ p = i /\ p \in 1 .. len + 1
          BY ONLY <1>2, <3>1, <4>1, i \in 1 .. len, len \in Nat
        <5>2. events[i] = reports[i] /\ DOMAIN events = 1 .. len + 1
          BY <1>1, <5>1 DEF InTwo
        <5>3. QED
          BY ONLY <5>1, <5>2
      <4>2. CASE i > n
        <5>1. i \in n + 1 .. len /\ p = i + 1 /\ p \in 1 .. len + 1
          BY ONLY <1>2, <3>1, <4>2, i \in 1 .. len, len \in Nat
        <5>2. events[i + 1] = reports[i] /\ DOMAIN events = 1 .. len + 1
          BY <1>1, <5>1 DEF InTwo
        <5>3. QED
          BY ONLY <5>1, <5>2
      <4>3. QED
        BY ONLY <1>2, <2>3, <4>1, <4>2, i \in 1 .. len
    <3>3. Of(events, reports[i].day) = {p} /\ events[p].net \in Int
      BY <1>2, <2>1, <2>3, <3>1, <3>2
    <3>4. QED
      BY ONLY <3>2, <3>3, MeanOfOne
  <2>4. QED
    BY <2>2, <2>3
<1>7. \A d \in Sessions(reports) : \E i \in 1 .. len : d = reports[i].day
  BY <1>1 DEF Sessions
<1>8. ASSUME NEW p \in DOMAIN events
      PROVE  \E i \in 1 .. len : events[p].day = reports[i].day
  <2>1. DOMAIN events = 1 .. len + 1
    BY <1>1 DEF InTwo
  <2>2. CASE p < n
    BY <1>1, <1>2, <2>1, <2>2 DEF InTwo
  <2>3. CASE p = n \/ p = n + 1
    BY <1>2, <2>3 DEF InTwo
  <2>4. CASE p > n + 1
    <3>1. PICK i : i = p - 1
      OBVIOUS
    <3>2. i \in n + 1 .. len /\ i \in 1 .. len /\ i + 1 = p
      BY ONLY <1>2, <2>1, <2>4, <3>1, p \in DOMAIN events, len \in Nat
    <3>3. events[i + 1] = reports[i]
      BY <1>1, <3>2 DEF InTwo
    <3>4. QED
      BY ONLY <3>2, <3>3
  <2>5. QED
    BY ONLY <1>2, <2>1, <2>2, <2>3, <2>4, p \in DOMAIN events, len \in Nat
<1>9. Sessions(events) = Sessions(reports)
  <2>1. Sessions(events) \subseteq Sessions(reports)
    BY <1>5, <1>8 DEF Sessions
  <2>2. Sessions(reports) \subseteq Sessions(events)
    BY <1>6, <1>7
  <2>3. QED
    BY <2>1, <2>2
<1>10. \A d \in Sessions(reports) : Means(events)[d] = Means(reports)[d]
  BY <1>5, <1>6, <1>7
<1>11. /\ Means(events) = [d \in Sessions(events) |-> Means(events)[d]]
       /\ Means(reports) = [d \in Sessions(reports) |-> Means(reports)[d]]
  BY DEF Means
<1>12. QED
  BY <1>9, <1>10, <1>11

\* Both ways to spread a session over more events put its report in two.
LEMMA SpreadIsInTwo ==
  ASSUME BacktestInv, NEW n \in DOMAIN reports
  PROVE  InTwo(Twice(n), n) /\ InTwo(Split(n), n)
<1>1. PICK len \in Nat : len = Len(reports) /\ DOMAIN reports = 1 .. len
  BY DEF BacktestInv
<1>2. PICK r \in Reports : r = reports[n]
  BY DEF BacktestInv
<1>3. reports \in Seq(Reports) /\ n \in 1 .. len /\ r.net \in Int /\ r.day \in Nat
  BY <1>1, <1>2 DEF BacktestInv, Reports
<1>4. InTwo(Twice(n), n)
  <2>1. PICK events : events = Twice(n)
    OBVIOUS
  <2>2. events = InsertAt(reports, n, r)
    BY <1>2, <2>1 DEF Twice
  <2>3. /\ DOMAIN events = 1 .. len + 1
        /\ \A i \in 1 .. n - 1 : events[i] = reports[i]
        /\ events[n] = r
        /\ \A i \in n .. len : events[i + 1] = reports[i]
    BY ONLY <1>1, <1>3, <2>2, n \in DOMAIN reports, r \in Reports, InsertedIs
  <2>4. events[n + 1] = r
    BY ONLY <1>2, <1>3, <2>3
  <2>5. r.net + r.net = 2 * r.net
    BY ONLY <1>3
  <2>6. \A i \in n + 1 .. len : events[i + 1] = reports[i]
    BY ONLY <1>3, <2>3
  <2>7. QED
    BY <1>1, <1>2, <1>3, <2>1, <2>3, <2>4, <2>5, <2>6 DEF InTwo
<1>5. InTwo(Split(n), n)
  <2>1. PICK events : events = Split(n)
    OBVIOUS
  <2>2. PICK less : less = [r EXCEPT !.net = r.net - 1]
    OBVIOUS
  <2>3. PICK more : more = [r EXCEPT !.net = r.net + 1]
    OBVIOUS
  <2>4. /\ less \in Reports /\ less.day = r.day /\ less.net = r.net - 1
        /\ more \in Reports /\ more.day = r.day /\ more.net = r.net + 1
    <3>1. r = [day |-> r.day, net |-> r.net]
      BY ONLY r \in Reports DEF Reports
    <3>2. less = [day |-> r.day, net |-> r.net - 1]
      BY ONLY <2>2, <3>1
    <3>3. more = [day |-> r.day, net |-> r.net + 1]
      BY ONLY <2>3, <3>1
    <3>4. r.net - 1 \in Int /\ r.net + 1 \in Int /\ r.day \in Nat
      BY ONLY <1>3
    <3>5. less \in Reports /\ less.day = r.day /\ less.net = r.net - 1
      BY ONLY <3>2, <3>4 DEF Reports
    <3>6. more \in Reports /\ more.day = r.day /\ more.net = r.net + 1
      BY ONLY <3>3, <3>4 DEF Reports
    <3>7. QED
      BY ONLY <3>5, <3>6
  <2>5. PICK rows : rows = [reports EXCEPT ![n] = less]
    OBVIOUS
  <2>6. /\ rows \in Seq(Reports) /\ Len(rows) = len /\ DOMAIN rows = 1 .. len /\ rows[n] = less
        /\ \A i \in 1 .. len : i # n => rows[i] = reports[i]
    BY ONLY <1>1, <1>3, <2>4, <2>5
  <2>7. events = InsertAt(rows, n, more)
    BY <1>2, <2>1, <2>2, <2>3, <2>5 DEF Split
  <2>8. /\ DOMAIN events = 1 .. len + 1
        /\ \A i \in 1 .. n - 1 : events[i] = rows[i]
        /\ events[n] = more
        /\ \A i \in n .. len : events[i + 1] = rows[i]
    <3>1. n \in DOMAIN rows /\ rows \in Seq(Reports) /\ more \in Reports
      BY ONLY <1>3, <2>4, <2>6
    <3>2. /\ DOMAIN events = 1 .. Len(rows) + 1
          /\ \A i \in 1 .. n - 1 : events[i] = rows[i]
          /\ events[n] = more
          /\ \A i \in n .. Len(rows) : events[i + 1] = rows[i]
      BY ONLY <2>7, <3>1, InsertedIs
    <3>3. QED
      BY ONLY <2>6, <3>2
  <2>9. events[n + 1] = less
    <3>1. n \in n .. len
      BY ONLY <1>3
    <3>2. events[n + 1] = rows[n]
      BY ONLY <2>8, <3>1
    <3>3. QED
      BY ONLY <2>6, <3>2
  <2>10. (r.net + 1) + (r.net - 1) = 2 * r.net /\ r.net + 1 \in Int /\ r.net - 1 \in Int
    BY ONLY <1>3
  <2>11. /\ \A i \in 1 .. n - 1 : events[i] = reports[i]
         /\ \A i \in n + 1 .. len : events[i + 1] = reports[i]
    <3>1. \A i \in 1 .. n - 1 : i \in 1 .. len /\ i # n
      BY ONLY <1>3, len \in Nat
    <3>2. \A i \in n + 1 .. len : i \in 1 .. len /\ i # n /\ i \in n .. len
      BY ONLY <1>3, len \in Nat
    <3>3. \A i \in 1 .. n - 1 : events[i] = reports[i]
      BY ONLY <2>6, <2>8, <3>1
    <3>4. \A i \in n + 1 .. len : events[i + 1] = reports[i]
      BY ONLY <2>6, <2>8, <3>2
    <3>5. QED
      BY ONLY <3>3, <3>4
  <2>12. QED
    BY <1>1, <1>2, <2>1, <2>4, <2>8, <2>9, <2>10, <2>11 DEF InTwo
<1>6. QED
  BY <1>4, <1>5

\* One of finitely many integers is the greatest.
LEMMA GreatestExists ==
  ASSUME NEW S, IsFiniteSet(S), S # {}, NEW f, \A x \in S : f[x] \in Int
  PROVE  \E x \in S : \A y \in S : f[y] <= f[x]
<1> DEFINE B == {U \in SUBSET S : U # {} /\ ~ \E x \in U : \A y \in U : f[y] <= f[x]}
<1> SUFFICES ASSUME B # {} PROVE FALSE
  OBVIOUS
<1>1. PICK T \in B : \A V \in B : V \subseteq T => V = T
  <2>1. B \in SUBSET (SUBSET S)
    OBVIOUS
  <2> HIDE DEF B
  <2>2. QED
    BY <2>1, LeastSubset
<1>2. PICK z \in T : TRUE
  BY <1>1
<1>3. T \ {z} # {}
  BY <1>1, <1>2
<1>4. PICK x \in T \ {z} : \A y \in T \ {z} : f[y] <= f[x]
  <2>1. T \ {z} \notin B /\ T \ {z} \in SUBSET S
    BY <1>1, <1>2
  <2>2. QED
    BY <1>3, <2>1
<1>5. \A y \in T : f[y] \in Int
  BY <1>1
<1>6. CASE f[z] <= f[x]
  BY <1>1, <1>4, <1>6
<1>7. CASE f[x] <= f[z]
  <2>1. \A y \in T : f[y] <= f[z]
    BY ONLY <1>4, <1>5, <1>7, z \in T, x \in T \ {z}
  <2>2. QED
    BY <1>1, <2>1
<1>8. QED
  BY <1>2, <1>4, <1>5, <1>6, <1>7

\* A sum is no more than the greatest of its terms for each of them.
LEMMA SumIsBounded ==
  ASSUME NEW S, IsFiniteSet(S), NEW f, NEW c \in Int, \A x \in S : f[x] \in Int /\ f[x] <= c
  PROVE  SumFunctionOnSet(f, S) <= Cardinality(S) * c
<1> DEFINE B == {U \in SUBSET S : ~ (SumFunctionOnSet(f, U) <= Cardinality(U) * c)}
<1> SUFFICES ASSUME B # {} PROVE FALSE
  OBVIOUS
<1>1. PICK T \in B : \A V \in B : V \subseteq T => V = T
  <2>1. B \in SUBSET (SUBSET S)
    OBVIOUS
  <2> HIDE DEF B
  <2>2. QED
    BY <2>1, LeastSubset
<1>2. IsFiniteSet(T)
  BY FS_Subset
<1>3. T # {}
  <2>1. SumFunctionOnSet(f, {}) = 0 /\ Cardinality({}) = 0
    BY FS_EmptySet, SumUnfold
  <2>2. 0 * c = 0
    OBVIOUS
  <2>3. SumFunctionOnSet(f, {}) <= Cardinality({}) * c
    BY <2>1, <2>2
  <2>4. QED
    BY <2>3
<1>4. PICK z \in T : TRUE
  BY <1>3
<1>5. PICK R : R = T \ {z}
  OBVIOUS
<1>6. SumFunctionOnSet(f, R) <= Cardinality(R) * c
  BY <1>1, <1>4, <1>5
<1>7. SumFunctionOnSet(f, T) = f[z] + SumFunctionOnSet(f, R)
  <2>1. \A x \in T : f[x] \in Int
    OBVIOUS
  <2>2. QED
    BY ONLY <1>2, <1>5, <2>1, z \in T, SumRemove
<1>8. PICK k \in Nat : k = Cardinality(R) /\ Cardinality(T) = k + 1
  <2>1. IsFiniteSet(R) /\ z \notin R /\ R \cup {z} = T
    BY <1>2, <1>4, <1>5, FS_Subset
  <2>2. QED
    BY ONLY <2>1, FS_AddElement, FS_CardinalityType
<1>9. PICK s \in Int : s = SumFunctionOnSet(f, R)
  <2>1. IsFiniteSet(R) /\ \A x \in R : f[x] \in Int
    BY <1>2, <1>5, FS_Subset
  <2>2. QED
    BY ONLY <2>1, SumIsInt
<1>10. f[z] \in Int /\ f[z] <= c
  OBVIOUS
<1>11. PICK kc \in Int : kc = k * c
  BY ONLY k \in Nat, c \in Int
<1>12. (k + 1) * c = kc + c
  BY ONLY <1>11, k \in Nat, c \in Int
<1>13. f[z] + s <= kc + c
  BY ONLY <1>6, <1>8, <1>9, <1>10, <1>11, c \in Int
<1>14. SumFunctionOnSet(f, T) <= Cardinality(T) * c
  BY <1>7, <1>8, <1>9, <1>12, <1>13
<1>15. QED
  BY <1>1, <1>14

\* The means of reports are integers.
LEMMA MeansTyped ==
  ASSUME BacktestInv
  PROVE  /\ IsFiniteSet(Sessions(reports))
         /\ \A d \in Sessions(reports) : Means(reports)[d] \in Int /\ IsFiniteSet(Of(reports, d))
<1>1. PICK len \in Nat : len = Len(reports) /\ DOMAIN reports = 1 .. len
  BY DEF BacktestInv
<1>2. IsFiniteSet(1 .. len) /\ IsFiniteSet(1 .. LastDay)
  BY BacktestConstants, FS_Interval
<1>3. IsFiniteSet(Sessions(reports))
  <2>1. Sessions(reports) \subseteq 1 .. LastDay
    BY DEF Sessions, BacktestInv
  <2>2. QED
    BY <1>2, <2>1, FS_Subset
<1>4. ASSUME NEW d \in Sessions(reports)
      PROVE  Means(reports)[d] \in Int /\ IsFiniteSet(Of(reports, d))
  <2>1. PICK S : S = Of(reports, d)
    OBVIOUS
  <2>2. S \subseteq 1 .. len /\ S # {}
    BY <1>1, <2>1 DEF Of, Sessions
  <2>3. IsFiniteSet(S)
    BY <1>2, <2>2, FS_Subset
  <2>4. PICK nets : nets = [n \in DOMAIN reports |-> reports[n].net]
    OBVIOUS
  <2>5. \A x \in S : nets[x] \in Int
    BY <1>1, <2>2, <2>4, ReportTyped
  <2>6. PICK t \in Int : t = SumFunctionOnSet(nets, S)
    BY ONLY <2>3, <2>5, SumIsInt
  <2>7. PICK c \in Nat : c = Cardinality(S) /\ c # 0
    <3>1. Cardinality(S) \in Nat /\ Cardinality(S) # 0
      BY ONLY <2>2, <2>3, FS_CardinalityType, FS_EmptySet
    <3>2. QED
      BY ONLY <3>1
  <2>8. Unit \div c \in Int
    BY <2>7, BacktestConstants
  <2>9. Means(reports)[d] = t * (Unit \div c)
    BY <2>1, <2>4, <2>6, <2>7 DEF Means, Total
  <2>10. QED
    BY <2>1, <2>3, <2>8, <2>9
<1>5. QED
  BY <1>3, <1>4

\* Best is a session, and none has a higher mean.
LEMMA BestIsBest ==
  ASSUME BacktestInv, reports # <<>>
  PROVE  /\ Best(reports) \in Sessions(reports)
         /\ \A d \in Sessions(reports) : Means(reports)[d] <= Means(reports)[Best(reports)]
<1>1. PICK len \in Nat : len = Len(reports) /\ DOMAIN reports = 1 .. len
  BY DEF BacktestInv
<1>2. PICK D : D = Sessions(reports)
  OBVIOUS
<1>3. PICK means : means = Means(reports)
  OBVIOUS
<1>4. IsFiniteSet(D) /\ \A d \in D : means[d] \in Int
  BY <1>2, <1>3, MeansTyped
<1>5. D # {}
  <2>1. 1 \in DOMAIN reports
    BY <1>1 DEF BacktestInv
  <2>2. QED
    BY <1>2, <2>1 DEF Sessions
<1>6. PICK top \in D : \A d \in D : means[d] <= means[top]
  BY ONLY <1>4, <1>5, GreatestExists
<1>7. PICK tops : tops = {n \in DOMAIN reports : \A d \in D : means[reports[n].day] >= means[d]}
  OBVIOUS
<1>8. tops # {} /\ tops \in SUBSET Nat
  <2>1. PICK n \in DOMAIN reports : reports[n].day = top
    BY <1>2 DEF Sessions
  <2>2. \A d \in D : means[top] >= means[d]
    BY ONLY <1>4, <1>6
  <2>3. QED
    BY <1>1, <1>7, <2>1, <2>2
<1>9. Min(tops) \in tops
  BY ONLY <1>8, MinIsLeast
<1>10. Best(reports) = reports[Min(tops)].day
  BY <1>2, <1>3, <1>7 DEF Best
<1>11. Best(reports) \in D
  BY <1>2, <1>7, <1>9, <1>10 DEF Sessions
<1>12. \A d \in D : means[Best(reports)] >= means[d]
  BY <1>7, <1>9, <1>10
<1>13. \A d \in D : means[d] <= means[Best(reports)]
  BY ONLY <1>4, <1>11, <1>12
<1>14. QED
  BY <1>2, <1>3, <1>11, <1>13

\* Without it the sessions that are left have the means they had.
LEMMA RestIs ==
  ASSUME BacktestInv, reports # <<>>
  PROVE  /\ Sessions(WithoutBest(reports)) = Sessions(reports) \ {Best(reports)}
         /\ Means(WithoutBest(reports)) =
              [d \in Sessions(reports) \ {Best(reports)} |-> Means(reports)[d]]
<1>1. PICK best : best = Best(reports)
  OBVIOUS
<1>2. PICK left : left = {n \in DOMAIN reports : reports[n].day # best}
  OBVIOUS
<1>3. PICK rest : rest = WithoutBest(reports)
  OBVIOUS
<1>4. rest = [n \in left |-> reports[n]]
  BY <1>1, <1>2, <1>3 DEF WithoutBest, Restrict
<1>5. Sessions(rest) = Sessions(reports) \ {best}
  BY <1>2, <1>4 DEF Sessions
<1>6. ASSUME NEW d \in Sessions(reports) \ {best}
      PROVE  Means(rest)[d] = Means(reports)[d]
  <2>1. PICK S : S = Of(reports, d)
    OBVIOUS
  <2>2. Of(rest, d) = S
    BY <1>2, <1>4, <2>1 DEF Of
  <2>3. IsFiniteSet(S)
    BY <2>1, MeansTyped
  <2>4. PICK before, after : /\ before = [n \in DOMAIN reports |-> reports[n].net]
                             /\ after = [n \in DOMAIN rest |-> rest[n].net]
    OBVIOUS
  <2>5. \A n \in S : before[n] \in Int /\ before[n] = after[n]
    <3>1. \A n \in S : n \in left /\ n \in DOMAIN reports
      BY <1>2, <2>1 DEF Of
    <3>2. \A n \in DOMAIN reports : reports[n].net \in Int
      BY ReportTyped
    <3>3. QED
      BY <1>4, <2>4, <3>1, <3>2
  <2>6. SumFunctionOnSet(before, S) = SumFunctionOnSet(after, S)
    BY ONLY <2>3, <2>5, SumIsLocal
  <2>7. Total(rest, d) = Total(reports, d)
    BY <2>1, <2>2, <2>4, <2>6 DEF Total
  <2>8. QED
    BY <1>5, <2>1, <2>2, <2>7 DEF Means
<1>7. Means(rest) = [d \in Sessions(rest) |-> Means(rest)[d]]
  BY DEF Means
<1>8. QED
  BY <1>1, <1>3, <1>5, <1>6, <1>7

\* Their mean is no higher than that of all.
LEMMA RestIsNoBetter ==
  ASSUME BacktestInv, reports # <<>>
  PROVE  LET rest == WithoutBest(reports)
         IN Sum(Means(rest)) * Cardinality(Sessions(reports))
              <= Sum(Means(reports)) * Cardinality(Sessions(rest))
<1>1. PICK best : best = Best(reports)
  OBVIOUS
<1>2. PICK D : D = Sessions(reports)
  OBVIOUS
<1>3. PICK means : means = Means(reports)
  OBVIOUS
<1>4. PICK others : others = Means(WithoutBest(reports))
  OBVIOUS
<1>5. /\ IsFiniteSet(D) /\ \A d \in D : means[d] \in Int
      /\ best \in D /\ \A d \in D : means[d] <= means[best]
  BY <1>1, <1>2, <1>3, MeansTyped, BestIsBest
<1>6. /\ Sessions(WithoutBest(reports)) = D \ {best}
      /\ others = [d \in D \ {best} |-> means[d]]
  BY <1>1, <1>2, <1>3, <1>4, RestIs
<1>7. DOMAIN means = D
  BY <1>2, <1>3 DEF Means
<1>8. PICK all \in Int : all = SumFunctionOnSet(means, D)
  BY ONLY <1>5, SumIsInt
<1>9. PICK less \in Int : less = SumFunctionOnSet(means, D \ {best})
  <2>1. IsFiniteSet(D \ {best}) /\ \A d \in D \ {best} : means[d] \in Int
    BY <1>5, FS_Subset
  <2>2. QED
    BY ONLY <2>1, SumIsInt
<1>10. all = means[best] + less
  BY ONLY <1>5, <1>8, <1>9, SumRemove
<1>11. SumFunctionOnSet(others, D \ {best}) = less
  <2>1. \A d \in D \ {best} : means[d] \in Int /\ means[d] = others[d]
    BY ONLY <1>5, <1>6
  <2>2. IsFiniteSet(D \ {best})
    BY ONLY <1>5, FS_Subset
  <2>3. SumFunctionOnSet(means, D \ {best}) = SumFunctionOnSet(others, D \ {best})
    BY ONLY <2>1, <2>2, SumIsLocal
  <2>4. QED
    BY ONLY <1>9, <2>3
<1>12. Sum(Means(reports)) = all /\ Sum(Means(WithoutBest(reports))) = less
  <2>1. DOMAIN others = D \ {best}
    BY <1>6
  <2>2. QED
    BY <1>3, <1>4, <1>7, <1>8, <1>11, <2>1 DEF Sum, SumFunction
<1>13. PICK k \in Nat : Cardinality(D \ {best}) = k /\ Cardinality(D) = k + 1
  <2>1. Cardinality(D \ {best}) \in Nat /\ Cardinality(D) \in Nat
    BY ONLY <1>5, FS_Subset, FS_CardinalityType
  <2>2. Cardinality(D \ {best}) = Cardinality(D) - 1
    BY ONLY <1>5, FS_RemoveElement
  <2>3. QED
    BY ONLY <2>1, <2>2
<1>14. PICK top \in Int : top = means[best]
  BY ONLY <1>5
<1>15. all <= (k + 1) * top
  <2>1. \A d \in D : means[d] \in Int /\ means[d] <= top
    BY ONLY <1>5, <1>14
  <2>2. SumFunctionOnSet(means, D) <= Cardinality(D) * top
    BY ONLY <1>5, <2>1, top \in Int, SumIsBounded
  <2>3. QED
    BY ONLY <1>8, <1>13, <2>2
<1>16. less * (k + 1) <= all * k
  <2>1. PICK kl \in Int : kl = k * less
    BY ONLY k \in Nat, less \in Int
  <2>2. PICK kt \in Int : kt = k * top
    BY ONLY k \in Nat, top \in Int
  <2>3. (k + 1) * top = kt + top
    BY ONLY <2>2, k \in Nat, top \in Int
  <2>4. less * (k + 1) = kl + less
    BY ONLY <2>1, k \in Nat, less \in Int
  <2>5. (top + less) * k = kt + kl
    BY ONLY <2>1, <2>2, k \in Nat, less \in Int, top \in Int
  <2>6. all = top + less
    BY ONLY <1>10, <1>14
  <2>7. all * k = kt + kl
    BY ONLY <2>5, <2>6
  <2>8. QED
    BY ONLY <1>15, <2>3, <2>4, <2>6, <2>7, less \in Int, top \in Int, kl \in Int, kt \in Int
<1>17. QED
  BY <1>2, <1>6, <1>12, <1>13, <1>16

\* For any number of days and any nets: the events of a session count as one, however many
\* they are, and the figure without the best session never flatters (cluster_by_session,
\* drop_worst_session, _judge).
THEOREM VerdictsCountSessions == BacktestSpec => []VerdictCountsSessions
<1>1. BacktestInit => BacktestInv
  BY BacktestStart
<1>2. BacktestInv /\ [BacktestNext]_backtestVars => BacktestInv'
  BY BacktestStep
<1>3. ASSUME BacktestInv
      PROVE  VerdictCountsSessions
  <2>1. ASSUME NEW n \in DOMAIN reports, NEW events \in {Twice(n), Split(n)}
        PROVE  Judged(events, Len(reports)) = Judged(reports, Len(reports))
    <3>1. InTwo(events, n)
      BY <1>3, <2>1, SpreadIsInTwo
    <3>2. Sessions(events) = Sessions(reports) /\ Means(events) = Means(reports)
      BY <1>3, <2>1, <3>1, MeansInTwo
    <3>3. QED
      BY <3>2 DEF Judged
  <2>2. ASSUME Len(reports) >= 3
        PROVE  LET rest == WithoutBest(reports)
               IN Sum(Means(rest)) * Cardinality(Sessions(reports))
                    <= Sum(Means(reports)) * Cardinality(Sessions(rest))
    <3>1. reports # <<>>
      BY <2>2
    <3>2. QED
      BY <1>3, <3>1, RestIsNoBetter
  <2>3. QED
    BY <2>1, <2>2 DEF VerdictCountsSessions
<1>4. QED
  BY <1>1, <1>2, <1>3, PTL DEF BacktestSpec
=============================================================================
