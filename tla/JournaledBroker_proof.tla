----------------------- MODULE JournaledBroker_proof -----------------------
(***************************************************************************)
(* Proofs about the broker over its journal, for any finite set of order   *)
(* ids, any orders, quotes, kills and refused writes.                      *)
(***************************************************************************)
EXTENDS JournaledBroker, SimulatedBroker_proof

(***************************************************************************)
(* Numbers.                                                                *)
(***************************************************************************)
\* Among some natural numbers one is least.
LEMMA LeastNumber ==
  ASSUME NEW B \in SUBSET Nat, B # {}
  PROVE  \E n \in B : \A m \in B : n <= m
<1>1. PICK k \in B : TRUE
  OBVIOUS
<1> DEFINE S == 1 .. k
           C == {1 .. n : n \in {n \in B : n <= k}}
<1>2. IsFiniteSet(S) /\ k \in Nat
  BY FS_Interval
<1>3. C \in SUBSET (SUBSET S) /\ 1 .. k \in C
  OBVIOUS
<1>4. PICK T \in C : \A U \in C : U \subseteq T => U = T
  <2> HIDE DEF C, S
  <2>1. QED
    BY <1>2, <1>3, LeastSubset
<1>5. PICK n \in B : n <= k /\ T = 1 .. n
  OBVIOUS
<1>6. ASSUME NEW m \in B, m < n
      PROVE  FALSE
  <2>1. 1 .. m \in C /\ 1 .. m \subseteq T /\ n \in T /\ n \notin 1 .. m
    BY <1>5, <1>6
  <2>2. QED
    BY <1>4, <2>1
<1>7. QED
  BY <1>5, <1>6

\* A finite set of natural numbers that is not empty has a greatest one, which is Max.
LEMMA MaxIsGreatest ==
  ASSUME NEW k \in Nat, NEW T \in SUBSET (1 .. k), T # {}
  PROVE  Max(T) \in T /\ \A x \in T : x <= Max(T)
<1> DEFINE B == {n \in Nat : \A x \in T : x <= n}
<1>1. B \in SUBSET Nat /\ k \in B
  OBVIOUS
<1>2. PICK n \in B : \A m \in B : n <= m
  <2> HIDE DEF B
  <2>1. QED
    BY <1>1, LeastNumber
<1>3. n \in T
  <2> SUFFICES ASSUME n \notin T PROVE FALSE
    OBVIOUS
  <2>1. PICK x \in T : TRUE
    OBVIOUS
  <2>2. n - 1 \in B
    <3>1. \A y \in T : y <= n /\ y # n /\ y \in Nat /\ y >= 1
      OBVIOUS
    <3>2. n \in Nat /\ n >= 1
      BY <3>1, <2>1
    <3>3. n - 1 \in Nat /\ \A y \in T : y <= n - 1
      BY <3>1, <3>2
    <3>4. QED
      BY <3>3
  <2>3. QED
    BY <1>2, <2>2
<1>4. \E x \in T : \A y \in T : x >= y
  BY <1>3
<1>5. Max(T) \in T /\ \A y \in T : Max(T) >= y
  BY <1>4 DEF Max
<1>6. QED
  BY <1>5

(***************************************************************************)
(* What a replay makes of one more record.                                 *)
(***************************************************************************)
\* g replays every part of the places D of rs, the way the fold does.
Replays(rs, D, g) ==
  g = [T \in SUBSET D |->
         IF T = {} THEN NothingReplayed ELSE ReplayedRecord(g[T \ {Max(T)}], rs[Max(T)])]

\* The replay is the value, on all places, of what replays them.
LEMMA ReplayIsFold ==
  ASSUME NEW rs
  PROVE  Replayed(rs) = (CHOOSE g : Replays(rs, DOMAIN rs, g))[DOMAIN rs]
BY Zenon DEF Replayed, FoldLeft, MapThenFoldSet, Replays

\* No places give what there is before the first record, and any others what their last
\* record makes of the ones before it.
Unfolds(rs, D, g) ==
  /\ g[{}] = NothingReplayed
  /\ \A T \in SUBSET D : T # {} => g[T] = ReplayedRecord(g[T \ {Max(T)}], rs[Max(T)])

\* What replays the places of rs does so.
LEMMA ReplaysUnfold ==
  ASSUME NEW rs, NEW D, NEW g, Replays(rs, D, g)
  PROVE  Unfolds(rs, D, g)
<1>1. \A T \in SUBSET D : g[T] = IF T = {} THEN NothingReplayed
                                 ELSE ReplayedRecord(g[T \ {Max(T)}], rs[Max(T)])
  BY Zenon DEF Replays
<1>2. {} \in SUBSET D
  OBVIOUS
<1>3. g[{}] = NothingReplayed
  BY <1>1, <1>2, Zenon
<1>4. QED
  BY <1>1, <1>3, Zenon DEF Unfolds

\* Every part of D has its last place.
HasLast(D) == IsFiniteSet(D) /\ \A U \in SUBSET D : U # {} => Max(U) \in U

\* The places of a sequence have.
LEMMA PlacesHaveLast ==
  ASSUME NEW k \in Nat
  PROVE  HasLast(1 .. k)
<1>1. IsFiniteSet(1 .. k)
  BY FS_Interval
<1>2. \A U \in SUBSET (1 .. k) : U # {} => Max(U) \in U
  BY MaxIsGreatest
<1>3. QED
  BY <1>1, <1>2 DEF HasLast

\* So that neither the other places matter, nor what is at them.
LEMMA ReplaysAgree ==
  ASSUME NEW D, HasLast(D), NEW E, NEW rs, NEW g, Replays(rs, D, g),
         NEW qs, NEW h, Replays(qs, E, h),
         NEW T, T \subseteq D, T \subseteq E, \A n \in T : rs[n] = qs[n]
  PROVE  g[T] = h[T]
<1> DEFINE B == {U \in SUBSET D : U \subseteq T /\ g[U] # h[U]}
<1> SUFFICES ASSUME B # {} PROVE FALSE
  OBVIOUS
<1>1. PICK U \in B : \A V \in B : V \subseteq U => V = U
  <2>1. B \in SUBSET (SUBSET D) /\ IsFiniteSet(D)
    BY DEF HasLast
  <2>2. B # {}
    OBVIOUS
  <2> HIDE DEF B
  <2>3. QED
    BY ONLY <2>1, <2>2, LeastSubset
<1>2. U \in SUBSET D /\ U \in SUBSET E /\ U \in SUBSET T /\ g[U] # h[U]
  OBVIOUS
<1>3. /\ g[{}] = NothingReplayed
      /\ \A V \in SUBSET D : V # {} => g[V] = ReplayedRecord(g[V \ {Max(V)}], rs[Max(V)])
  <2>1. Replays(rs, D, g)
    OBVIOUS
  <2>2. Unfolds(rs, D, g)
    BY ONLY <2>1, ReplaysUnfold
  <2>3. QED
    BY ONLY <2>2 DEF Unfolds
<1>4. /\ h[{}] = NothingReplayed
      /\ \A V \in SUBSET E : V # {} => h[V] = ReplayedRecord(h[V \ {Max(V)}], qs[Max(V)])
  <2>1. Replays(qs, E, h)
    OBVIOUS
  <2>2. Unfolds(qs, E, h)
    BY ONLY <2>1, ReplaysUnfold
  <2>3. QED
    BY ONLY <2>2 DEF Unfolds
<1>5. U # {}
  BY ONLY <1>2, <1>3, <1>4
<1>6. Max(U) \in U
  BY ONLY <1>2, <1>5, HasLast(D) DEF HasLast
<1>7. /\ g[U] = ReplayedRecord(g[U \ {Max(U)}], rs[Max(U)])
      /\ h[U] = ReplayedRecord(h[U \ {Max(U)}], qs[Max(U)])
  BY ONLY <1>2, <1>3, <1>4, <1>5
<1>8. rs[Max(U)] = qs[Max(U)]
  BY <1>2, <1>6
<1>9. g[U \ {Max(U)}] = h[U \ {Max(U)}]
  BY <1>1, <1>2, <1>6
<1>10. QED
  BY ONLY <1>2, <1>7, <1>8, <1>9
\* What a replay of the places U of rs gives.
ReplayOf(rs, U) == (CHOOSE g : Replays(rs, U, g))[U]

\* There is something that replays any part of a sequence.
LEMMA ReplaysExist ==
  ASSUME NEW rs, NEW D, HasLast(D)
  PROVE  \E g : Replays(rs, D, g)
<1> DEFINE B == {U \in SUBSET D : ~ \E g : Replays(rs, U, g)}
<1> SUFFICES ASSUME B # {} PROVE FALSE
  OBVIOUS
<1>1. PICK T \in B : \A V \in B : V \subseteq T => V = T
  <2>1. B \in SUBSET (SUBSET D) /\ IsFiniteSet(D)
    BY DEF HasLast
  <2>2. B # {}
    OBVIOUS
  <2> HIDE DEF B
  <2>3. QED
    BY ONLY <2>1, <2>2, LeastSubset
<1>2. T \in SUBSET D /\ ~ \E g : Replays(rs, T, g)
  OBVIOUS
<1> DEFINE G(U) == CHOOSE g : Replays(rs, U, g)
           h == [U \in SUBSET T |-> IF U = {} THEN NothingReplayed
                                    ELSE ReplayedRecord(ReplayOf(rs, U \ {Max(U)}), rs[Max(U)])]
<1>3. ASSUME NEW U \in SUBSET T, U # T
      PROVE  Replays(rs, U, G(U)) /\ HasLast(U)
  <2>1. U \in SUBSET D /\ U \notin B
    BY <1>1, <1>2, <1>3
  <2>2. \E g : Replays(rs, U, g)
    BY <2>1
  <2>3. HasLast(U)
    <3>1. HasLast(D) /\ U \in SUBSET D
      BY <2>1
    <3>2. IsFiniteSet(U)
      BY ONLY <3>1, FS_Subset DEF HasLast
    <3>3. QED
      BY ONLY <3>1, <3>2 DEF HasLast
  <2>4. QED
    BY <2>2, <2>3
<1>4. ASSUME NEW U \in SUBSET T, U # {}
      PROVE  Max(U) \in U
  <2>1. HasLast(D) /\ U \in SUBSET D /\ U # {}
    BY <1>2, <1>4
  <2>2. QED
    BY ONLY <2>1 DEF HasLast
<1>5. ASSUME NEW U \in SUBSET T, U # T
      PROVE  h[U] = ReplayOf(rs, U)
  <2>1. Replays(rs, U, G(U)) /\ HasLast(U)
    BY <1>3, <1>5
  <2>2. /\ G(U)[{}] = NothingReplayed
        /\ \A V \in SUBSET U : V # {} => G(U)[V] = ReplayedRecord(G(U)[V \ {Max(V)}], rs[Max(V)])
    <3> HIDE DEF G
    <3>1. Unfolds(rs, U, G(U))
      BY ONLY <2>1, ReplaysUnfold
    <3>2. QED
      BY ONLY <3>1 DEF Unfolds
  <2>3. G(U)[U] = ReplayOf(rs, U)
    BY DEF ReplayOf
  <2>4. CASE U = {}
    <3>1. h[U] = NothingReplayed
      BY <2>4
    <3> HIDE DEF G, h
    <3>2. QED
      BY ONLY <2>2, <2>3, <2>4, <3>1
  <2>5. CASE U # {}
    <3> DEFINE V == U \ {Max(U)}
    <3>1. Max(U) \in U
      BY <1>4, <2>5
    <3>2. V \in SUBSET T /\ V # T
      BY <3>1
    <3>3. Replays(rs, V, G(V))
      BY <1>3, <3>2
    <3>4. V \subseteq U /\ V \subseteq V /\ \A n \in V : rs[n] = rs[n]
      OBVIOUS
    <3>5. G(V)[V] = ReplayOf(rs, V)
      BY DEF ReplayOf
    <3>6. h[U] = ReplayedRecord(ReplayOf(rs, V), rs[Max(U)])
      BY <2>5
    <3>7. U \in SUBSET U
      OBVIOUS
    <3> HIDE DEF G, h, V
    <3>8. G(U)[V] = G(V)[V]
      BY ONLY <2>1, <3>3, <3>4, ReplaysAgree
    <3>9. G(U)[U] = ReplayedRecord(G(U)[V], rs[Max(U)])
      BY ONLY <2>2, <2>5, <3>7 DEF V
    <3>10. QED
      BY ONLY <2>3, <3>5, <3>6, <3>8, <3>9
  <2>6. QED
    BY <2>4, <2>5
<1>6. ASSUME NEW U \in SUBSET T, U # {}
      PROVE  h[U] = ReplayedRecord(h[U \ {Max(U)}], rs[Max(U)])
  <2>1. Max(U) \in U
    BY <1>4, <1>6
  <2>2. U \ {Max(U)} \in SUBSET T /\ U \ {Max(U)} # T
    BY <2>1
  <2>3. h[U \ {Max(U)}] = ReplayOf(rs, U \ {Max(U)})
    BY <1>5, <2>2
  <2>4. h[U] = ReplayedRecord(ReplayOf(rs, U \ {Max(U)}), rs[Max(U)])
    BY <1>6
  <2> HIDE DEF h
  <2>5. QED
    BY ONLY <2>3, <2>4
<1>7. h[{}] = NothingReplayed /\ h = [U \in SUBSET T |-> h[U]]
  OBVIOUS
<1>8. h = [U \in SUBSET T |-> IF U = {} THEN NothingReplayed
                              ELSE ReplayedRecord(h[U \ {Max(U)}], rs[Max(U)])]
  <2> HIDE DEF h
  <2>1. \A U \in SUBSET T : h[U] = IF U = {} THEN NothingReplayed
                                   ELSE ReplayedRecord(h[U \ {Max(U)}], rs[Max(U)])
    BY ONLY <1>6, <1>7
  <2>2. QED
    BY ONLY <1>7, <2>1, Zenon
<1>9. Replays(rs, T, h)
  BY ONLY <1>8 DEF Replays
<1>10. QED
  BY <1>2, <1>9

(***************************************************************************)
(* The replay of a journal, one record at a time.                          *)
(***************************************************************************)
\* An empty journal replays to nothing.
LEMMA ReplayedNothing == Replayed(<<>>) = NothingReplayed
<1>1. DOMAIN <<>> = {} /\ HasLast(DOMAIN <<>>)
  <2>1. 1 .. 0 = {} /\ DOMAIN <<>> = {}
    OBVIOUS
  <2>2. QED
    BY <2>1, PlacesHaveLast
<1> DEFINE g == CHOOSE g : Replays(<<>>, DOMAIN <<>>, g)
<1>2. Replays(<<>>, DOMAIN <<>>, g)
  BY <1>1, ReplaysExist
<1>3. Replayed(<<>>) = g[DOMAIN <<>>]
  BY ReplayIsFold
<1> HIDE DEF g
<1>4. g[{}] = NothingReplayed
  <2>1. Unfolds(<<>>, DOMAIN <<>>, g)
    BY ONLY <1>2, ReplaysUnfold
  <2>2. QED
    BY ONLY <2>1 DEF Unfolds
<1>5. QED
  BY <1>1, <1>3, <1>4

\* One more record is replayed on top of the ones before it.
LEMMA ReplayedOneMore ==
  ASSUME NEW S, NEW rs \in Seq(S), NEW r \in S
  PROVE  Replayed(Append(rs, r)) = ReplayedRecord(Replayed(rs), r)
<1> DEFINE qs == Append(rs, r)
           D == DOMAIN rs
           E == DOMAIN qs
           N == Len(rs) + 1
           g == CHOOSE g : Replays(rs, D, g)
           h == CHOOSE h : Replays(qs, E, h)
<1>1. /\ D = 1 .. Len(rs) /\ E = 1 .. N /\ Len(rs) \in Nat /\ N \in Nat
      /\ qs[N] = r /\ \A n \in D : qs[n] = rs[n]
  OBVIOUS
<1>2. HasLast(D) /\ HasLast(E)
  <2>1. HasLast(1 .. Len(rs))
    BY <1>1, PlacesHaveLast
  <2>2. HasLast(1 .. N)
    BY <1>1, PlacesHaveLast
  <2>3. QED
    BY <1>1, <2>1, <2>2
<1>3. /\ Replayed(rs) = g[D] /\ Replayed(qs) = h[E]
  BY ReplayIsFold
<1>4. Replays(rs, D, g)
  BY <1>2, ReplaysExist
<1>5. Replays(qs, E, h)
  BY <1>2, ReplaysExist
<1>6. Max(E) = N
  <2> HIDE DEF N
  <2>1. N \in E /\ E \in SUBSET (1 .. N) /\ E # {}
    BY <1>1 DEF N
  <2> HIDE DEF E
  <2>2. Max(E) \in E /\ \A x \in E : x <= Max(E)
    BY ONLY <1>1, <2>1, MaxIsGreatest
  <2>3. QED
    BY ONLY <1>1, <2>1, <2>2
<1>7. /\ E \ {N} = D /\ D \subseteq D /\ D \subseteq E /\ E \in SUBSET E /\ E # {}
      /\ \A n \in D : rs[n] = qs[n]
  BY <1>1
<1> HIDE DEF g, h, D, E, N, qs
<1>8. /\ h[{}] = NothingReplayed
      /\ \A T \in SUBSET E : T # {} => h[T] = ReplayedRecord(h[T \ {Max(T)}], qs[Max(T)])
  <2>1. Unfolds(qs, E, h)
    BY ONLY <1>5, ReplaysUnfold
  <2>2. QED
    BY ONLY <2>1 DEF Unfolds
<1>9. h[E] = ReplayedRecord(h[E \ {N}], qs[N])
  BY ONLY <1>6, <1>7, <1>8
<1>10. g[D] = h[D]
  BY ONLY <1>2, <1>4, <1>5, <1>7, ReplaysAgree
<1>11. Replayed(qs) = ReplayedRecord(Replayed(rs), r)
  BY ONLY <1>1, <1>3, <1>7, <1>9, <1>10
<1>12. QED
  BY <1>11 DEF qs
(***************************************************************************)
(* What a journal holds.                                                   *)
(***************************************************************************)
\* An order's state says how far it is filled.
SoundOrder(o) ==
  /\ o.state \in {"PENDING", "OPEN", "REJECTED"} => o.filled = 0
  /\ o.state = "PARTIALLY_FILLED" => 0 < o.filled /\ o.filled < o.quantity
  /\ o.state = "FILLED" => o.filled = o.quantity
  /\ o.state = "CANCELLED" => o.filled < o.quantity

\* The records the broker writes: of orders it was given, which are no longer pending.
Written ==
  {r \in JournalRecords : r.kind = "order" => r.order.state # "PENDING" /\ SoundOrder(r.order)}

Pieces == Written \cup {Cut, SplitChar}
Lines == [pieces : Seq(Pieces), ended : BOOLEAN]

\* A line that ends, ends in a record, and only the last line may not end.
FileOK(f) ==
  /\ f \in Seq(Lines)
  /\ \A n \in 1 .. Len(f) :
       /\ Len(f[n].pieces) > 0
       /\ f[n].ended => f[n].pieces[Len(f[n].pieces)] \in Written
       /\ n < Len(f) => f[n].ended

\* The records that can be read from a file.
RecordsOf(f) == {f[n].pieces[1] : n \in {m \in 1 .. Len(f) : Parses(f[m])}}

\* A record the broker writes is of an order or of a fill.
LEMMA WrittenKinds ==
  ASSUME NEW r \in Written
  PROVE  \/ /\ r.kind = "order" /\ r.id \in OrderIds /\ r.order \in OrderType
            /\ r = OrderRecord(r.id, r.order)
            /\ r.order.state # "PENDING" /\ SoundOrder(r.order) /\ r.order # Unknown
         \/ r.kind = "fill" /\ r.fill \in Fills /\ r = FillRecord(r.fill)
<1>1. CASE r \in [kind : {"order"}, id : OrderIds, order : OrderType]
  <2>1. r.kind = "order" /\ r.id \in OrderIds /\ r.order \in OrderType
    BY <1>1
  <2>2. r = OrderRecord(r.id, r.order)
    BY <1>1 DEF OrderRecord
  <2>3. r.order.state # "PENDING" /\ SoundOrder(r.order)
    BY <2>1 DEF Written
  <2>4. r.order # Unknown
    BY <2>3 DEF Unknown
  <2>5. QED
    BY <2>1, <2>2, <2>3, <2>4
<1>2. CASE r \in [kind : {"fill"}, fill : Fills]
  BY <1>2 DEF FillRecord
<1>3. QED
  BY <1>1, <1>2 DEF Written, JournalRecords

\* What is left of a cut record is not one of them.
LEMMA CutIsNotWritten == Cut \notin Written /\ SplitChar \notin Written
BY JournalConstants DEF Written

\* A line that parses holds a record.
LEMMA ParsedIsWritten ==
  ASSUME NEW f, FileOK(f), NEW n \in 1 .. Len(f), Parses(f[n])
  PROVE  Len(f[n].pieces) = 1 /\ f[n].pieces[1] \in Written
<1>1. f[n] \in Lines /\ Len(f[n].pieces) = 1
  BY DEF FileOK, Parses
<1>2. f[n].pieces[1] \in Pieces
  BY <1>1 DEF Lines
<1>3. QED
  BY <1>1, <1>2 DEF Pieces, Parses

\* What is appended goes to a line of its own, or ruins the last one.
LEMMA AppendedCases ==
  ASSUME NEW f, FileOK(f), NEW piece, NEW ended
  PROVE  \/ /\ Len(f) > 0 => f[Len(f)].ended
            /\ Appended(f, piece, ended) = Append(f, [pieces |-> <<piece>>, ended |-> ended])
         \/ /\ Len(f) > 0 /\ ~f[Len(f)].ended
            /\ Appended(f, piece, ended)
                 = [f EXCEPT ![Len(f)] = [pieces |-> Append(@.pieces, piece), ended |-> ended]]
BY DEF Appended, FileOK

\* Appending a record, or a piece without a newline, keeps the file well formed, and
\* nothing can be read from it afterwards but what could be before, and the record.
LEMMA AppendedFile ==
  ASSUME NEW f, FileOK(f), NEW piece \in Pieces, NEW ended \in BOOLEAN,
         ended => piece \in Written
  PROVE  /\ FileOK(Appended(f, piece, ended))
         /\ RecordsOf(Appended(f, piece, ended)) \subseteq RecordsOf(f) \cup ({piece} \cap Written)
<1> DEFINE g == Appended(f, piece, ended)
           N == Len(f)
<1>1. /\ f \in Seq(Lines) /\ N \in Nat
      /\ \A n \in 1 .. N : /\ Len(f[n].pieces) > 0
                           /\ f[n].ended => f[n].pieces[Len(f[n].pieces)] \in Written
                           /\ n < N => f[n].ended
  BY DEF FileOK
<1>2. CASE (N > 0 => f[N].ended) /\ g = Append(f, [pieces |-> <<piece>>, ended |-> ended])
  <2> DEFINE new == [pieces |-> <<piece>>, ended |-> ended]
  <2>1. new \in Lines /\ Len(new.pieces) = 1 /\ new.pieces[1] = piece /\ new.ended = ended
    BY DEF Lines
  <2> HIDE DEF new
  <2>2. /\ g \in Seq(Lines) /\ Len(g) = N + 1 /\ g[N + 1] = new
        /\ \A n \in 1 .. N : g[n] = f[n]
    BY ONLY <1>1, <1>2, <2>1 DEF new
  <2> HIDE DEF g
  <2>3. \A n \in 1 .. N + 1 : n = N + 1 \/ n \in 1 .. N
    BY <1>1
  <2>4. ASSUME NEW n \in 1 .. N + 1
        PROVE  /\ Len(g[n].pieces) > 0
               /\ g[n].ended => g[n].pieces[Len(g[n].pieces)] \in Written
               /\ n < N + 1 => g[n].ended
    <3>1. CASE n = N + 1
      <4>1. g[n] = new
        BY <2>2, <3>1
      <4>2. ended => piece \in Written
        OBVIOUS
      <4>3. QED
        BY ONLY <1>1, <2>1, <3>1, <4>1, <4>2
    <3>2. CASE n \in 1 .. N
      <4>1. n < N \/ (n = N /\ N > 0)
        BY <1>1, <3>2
      <4>2. QED
        BY ONLY <1>1, <1>2, <2>2, <3>2, <4>1
    <3>3. QED
      BY <2>3, <3>1, <3>2
  <2>5. FileOK(g)
    BY ONLY <2>2, <2>4 DEF FileOK
  <2>6. ASSUME NEW x \in RecordsOf(g)
        PROVE  x \in RecordsOf(f) \/ x \in {piece} \cap Written
    <3>1. PICK n \in 1 .. N + 1 : Parses(g[n]) /\ x = g[n].pieces[1]
      BY <2>2 DEF RecordsOf
    <3>2. g[n].pieces[1] \in Written
      BY <2>2, <2>5, <3>1, ParsedIsWritten
    <3>3. CASE n = N + 1
      BY <2>1, <2>2, <3>1, <3>2, <3>3
    <3>4. CASE n \in 1 .. N
      BY <2>2, <3>1, <3>4 DEF RecordsOf
    <3>5. QED
      BY <2>3, <3>3, <3>4
  <2>7. QED
    BY <2>5, <2>6 DEF g
<1>3. CASE /\ N > 0 /\ ~f[N].ended
           /\ g = [f EXCEPT ![N] = [pieces |-> Append(@.pieces, piece), ended |-> ended]]
  <2> DEFINE new == [pieces |-> Append(f[N].pieces, piece), ended |-> ended]
  <2>0. N \in 1 .. N /\ f[N] \in Lines /\ f[N].pieces \in Seq(Pieces) /\ Len(f[N].pieces) > 0
    <3>1. N \in 1 .. N
      BY <1>1, <1>3
    <3>2. f[N] \in Lines /\ Len(f[N].pieces) > 0
      BY ONLY <1>1, <3>1
    <3>3. QED
      BY <3>1, <3>2 DEF Lines
  <2>1. /\ new \in Lines /\ Len(new.pieces) > 1 /\ new.pieces[Len(new.pieces)] = piece
        /\ new.ended = ended
    <3> DEFINE ps == f[N].pieces
    <3>1. ps \in Seq(Pieces) /\ Len(ps) > 0 /\ new = [pieces |-> Append(ps, piece), ended |-> ended]
      BY <2>0
    <3> HIDE DEF new, ps
    <3>2. /\ Append(ps, piece) \in Seq(Pieces) /\ Len(Append(ps, piece)) = Len(ps) + 1
          /\ Len(ps) + 1 > 1 /\ Append(ps, piece)[Len(ps) + 1] = piece
      BY <3>1
    <3>3. QED
      BY <3>1, <3>2 DEF Lines
  <2> HIDE DEF new
  <2>2. g = [f EXCEPT ![N] = new]
    BY <1>3 DEF new
  <2>3. /\ g \in Seq(Lines) /\ Len(g) = N /\ g[N] = new
        /\ \A n \in 1 .. N : n # N => g[n] = f[n]
    BY ONLY <1>1, <2>0, <2>1, <2>2
  <2> HIDE DEF g
  <2>4. ASSUME NEW n \in 1 .. N
        PROVE  /\ Len(g[n].pieces) > 0
               /\ g[n].ended => g[n].pieces[Len(g[n].pieces)] \in Written
               /\ n < N => g[n].ended
    <3>1. CASE n = N
      <4>1. ended => piece \in Written
        OBVIOUS
      <4>2. Len(new.pieces) > 0
        BY <2>1, <2>0 DEF new
      <4>3. QED
        BY ONLY <1>1, <2>1, <2>3, <3>1, <4>1, <4>2
    <3>2. CASE n # N
      BY ONLY <1>1, <2>3, <3>2, n \in 1 .. N
    <3>3. QED
      BY <3>1, <3>2
  <2>5. FileOK(g)
    BY ONLY <2>3, <2>4 DEF FileOK
  <2>6. ASSUME NEW x \in RecordsOf(g)
        PROVE  x \in RecordsOf(f)
    <3>1. PICK n \in 1 .. N : Parses(g[n]) /\ x = g[n].pieces[1]
      BY <2>3 DEF RecordsOf
    <3>2. n # N
      <4>1. ~Parses(new)
        BY ONLY <2>1 DEF Parses
      <4>2. QED
        BY <2>3, <3>1, <4>1
    <3>3. QED
      BY <2>3, <3>1, <3>2 DEF RecordsOf
  <2>7. QED
    BY <2>5, <2>6 DEF g
<1>4. QED
  BY <1>2, <1>3, AppendedCases
\* A line that ends and was written once parses.
LEMMA EndedLineParses ==
  ASSUME NEW f, FileOK(f), NEW n \in 1 .. Len(f), f[n].ended, Len(f[n].pieces) = 1
  PROVE  Parses(f[n])
<1>1. f[n].pieces[1] \in Written
  BY DEF FileOK
<1>2. QED
  BY <1>1, CutIsNotWritten DEF Parses

\* A journal to whose torn record nothing was appended can be read.
LEMMA IntactIsReadable ==
  ASSUME NEW f, FileOK(f), Intact(f)
  PROVE  Readable(f)
<1>1. DOMAIN f = 1 .. Len(f) /\ Len(f) \in Nat
  BY DEF FileOK
<1>2. ASSUME NEW n \in 1 .. Len(f) - 1
      PROVE  Parses(f[n])
  <2>1. n \in 1 .. Len(f) /\ n < Len(f)
    BY <1>1
  <2>2. f[n].ended /\ Len(f[n].pieces) = 1
    BY <1>1, <2>1 DEF FileOK, Intact
  <2>3. QED
    BY <2>1, <2>2, EndedLineParses
<1>3. QED
  BY <1>2 DEF Readable, Intact

\* What is read is what is written: the records of the file, in order.
LEMMA ReadRecords ==
  ASSUME NEW f, FileOK(f), Readable(f)
  PROVE  /\ ReadAll(f) \in Seq(Written)
         /\ ToSet(ReadAll(f)) = RecordsOf(f)
<1>1. f \in Seq(Lines) /\ Len(f) \in Nat
  BY DEF FileOK
<1> DEFINE n == IF f = <<>> \/ Parses(f[Len(f)]) THEN Len(f) ELSE Len(f) - 1
<1>2. /\ n \in Nat /\ n <= Len(f)
      /\ \A k \in 1 .. Len(f) : Parses(f[k]) <=> k \in 1 .. n
  <2>1. \A k \in 1 .. Len(f) - 1 : Parses(f[k])
    BY DEF Readable
  <2>2. CASE f = <<>>
    BY <2>2
  <2>3. CASE f # <<>>
    <3>1. Len(f) > 0
      BY <1>1, <2>3
    <3>2. QED
      BY ONLY <1>1, <2>1, <2>3, <3>1
  <2>4. QED
    BY <2>2, <2>3
<1>3. ReadAll(f) = [k \in 1 .. n |-> f[k].pieces[1]]
  BY DEF ReadAll
<1> HIDE DEF n
<1>4. \A k \in 1 .. n : k \in 1 .. Len(f) /\ f[k].pieces[1] \in Written
  <2>1. \A k \in 1 .. n : k \in 1 .. Len(f)
    BY ONLY <1>1, <1>2
  <2>2. \A k \in 1 .. n : Parses(f[k])
    BY ONLY <1>2, <2>1
  <2>3. QED
    BY <2>1, <2>2, ParsedIsWritten
<1>5. ReadAll(f) \in Seq(Written)
  BY ONLY <1>2, <1>3, <1>4
<1>6. DOMAIN ReadAll(f) = 1 .. n
  BY ONLY <1>3
<1>7. ToSet(ReadAll(f)) = {f[k].pieces[1] : k \in 1 .. n}
  BY ONLY <1>3, <1>6 DEF ToSet
<1>8. {m \in 1 .. Len(f) : Parses(f[m])} = 1 .. n
  BY <1>2, <1>4
<1>9. QED
  BY <1>5, <1>7, <1>8 DEF RecordsOf

\* If nothing is appended to a torn record, each write adds one line, and what was in the
\* file before stays there.
LEMMA IntactAppend ==
  ASSUME NEW f, FileOK(f), NEW piece, NEW ended, Intact(Appended(f, piece, ended))
  PROVE  /\ Intact(f)
         /\ Len(f) > 0 => f[Len(f)].ended
         /\ Appended(f, piece, ended) = Append(f, [pieces |-> <<piece>>, ended |-> ended])
         /\ RecordsOf(f) \subseteq RecordsOf(Appended(f, piece, ended))
<1> DEFINE g == Appended(f, piece, ended)
           N == Len(f)
<1>1. f \in Seq(Lines) /\ N \in Nat
  BY DEF FileOK
<1>2. ~ (N > 0 /\ ~f[N].ended
         /\ g = [f EXCEPT ![N] = [pieces |-> Append(@.pieces, piece), ended |-> ended]])
  <2> SUFFICES ASSUME N > 0,
                      g = [f EXCEPT ![N] = [pieces |-> Append(f[N].pieces, piece), ended |-> ended]]
               PROVE  FALSE
    OBVIOUS
  <2>1. N \in 1 .. N
    BY <1>1
  <2>2. f[N] \in Lines /\ Len(f[N].pieces) > 0
    BY <1>1, <2>1 DEF FileOK
  <2>3. f[N].pieces \in Seq(Pieces)
    BY <2>2 DEF Lines
  <2>4. N \in DOMAIN g /\ g[N].pieces = Append(f[N].pieces, piece)
    BY <1>1, <2>1
  <2>5. Len(g[N].pieces) = 1
    BY <2>4 DEF Intact
  <2>6. Len(Append(f[N].pieces, piece)) = Len(f[N].pieces) + 1
    BY <2>3
  <2> HIDE DEF g, N
  <2>7. QED
    BY <2>2, <2>3, <2>4, <2>5, <2>6
<1>3. (N > 0 => f[N].ended) /\ g = Append(f, [pieces |-> <<piece>>, ended |-> ended])
  BY <1>2, AppendedCases
<1>4. DOMAIN f = 1 .. N /\ DOMAIN f \subseteq DOMAIN g /\ \A n \in DOMAIN f : g[n] = f[n]
  BY <1>1, <1>3
<1>5. Len(g) \in Nat /\ N <= Len(g) /\ DOMAIN g = 1 .. Len(g)
  BY <1>1, <1>3
<1>6. Intact(g)
  OBVIOUS
<1> HIDE DEF g
<1>7. Intact(f)
  <2>1. \A n \in DOMAIN g : /\ \A m \in DOMAIN g[n].pieces : g[n].pieces[m] # SplitChar
                            /\ Len(g[n].pieces) = 1
    BY ONLY <1>6 DEF Intact, Decodes
  <2>2. \A n \in DOMAIN f : /\ \A m \in DOMAIN f[n].pieces : f[n].pieces[m] # SplitChar
                            /\ Len(f[n].pieces) = 1
    BY ONLY <1>4, <2>1
  <2>3. QED
    BY ONLY <2>2 DEF Intact, Decodes
<1>8. RecordsOf(f) \subseteq RecordsOf(g)
  BY ONLY <1>4, <1>5 DEF RecordsOf
<1>9. QED
  BY <1>3, <1>7, <1>8 DEF g

\* A record written to such a journal is read after those that were.
LEMMA IntactAppendReads ==
  ASSUME NEW f, FileOK(f), NEW r \in Written, NEW ended \in BOOLEAN, Intact(Appended(f, r, ended))
  PROVE  ReadAll(Appended(f, r, ended)) = Append(ReadAll(f), r)
<1> DEFINE new == [pieces |-> <<r>>, ended |-> ended]
           N == Len(f)
<1>1. f \in Seq(Lines) /\ N \in Nat
  BY DEF FileOK
<1>2. /\ Intact(f)
      /\ N > 0 => f[N].ended
      /\ Appended(f, r, ended) = Append(f, new)
  BY IntactAppend
<1> DEFINE g == Append(f, new)
<1>3. Len(g) = N + 1 /\ g[N + 1] = new /\ g # <<>> /\ \A n \in 1 .. N : g[n] = f[n]
  <2>1. new \in Lines
    BY DEF Lines, Pieces
  <2> HIDE DEF new
  <2>2. Len(g) = N + 1 /\ g[N + 1] = new /\ \A n \in 1 .. N : g[n] = f[n]
    BY <1>1, <2>1
  <2>3. Len(<<>>) = 0
    OBVIOUS
  <2> HIDE DEF g
  <2>4. g # <<>>
    BY <1>1, <2>2, <2>3
  <2>5. QED
    BY <2>2, <2>4
<1>4. Parses(new)
  BY CutIsNotWritten DEF Parses
<1>5. f = <<>> \/ Parses(f[N])
  <2>1. CASE f # <<>>
    <3>1. N > 0 /\ N \in 1 .. N
      BY <1>1, <2>1
    <3>2. f[N].ended /\ Len(f[N].pieces) = 1
      BY <1>1, <1>2, <3>1 DEF Intact
    <3>3. QED
      BY <3>1, <3>2, EndedLineParses
  <2>2. QED
    BY <2>1
<1>6. ReadAll(f) = [k \in 1 .. N |-> f[k].pieces[1]]
  BY <1>5 DEF ReadAll
<1>7. ReadAll(g) = [k \in 1 .. N + 1 |-> g[k].pieces[1]]
  <2> HIDE DEF g, new
  <2>1. QED
    BY <1>3, <1>4 DEF ReadAll
<1>8. new.pieces[1] = r
  OBVIOUS
<1>9. ReadAll(f) \in Seq(Written)
  BY <1>2, IntactIsReadable, ReadRecords
<1> HIDE DEF g, new
<1>10. Len(ReadAll(f)) = N
  BY ONLY <1>1, <1>6, <1>9
<1>11. ReadAll(g) = Append(ReadAll(f), r)
  BY ONLY <1>1, <1>3, <1>6, <1>7, <1>8, <1>9, <1>10
<1>12. QED
  BY <1>2, <1>11 DEF g
(***************************************************************************)
(* What a replay gives.                                                    *)
(***************************************************************************)

Books == [orders : [OrderIds -> OrderType \cup {Unknown}], queue : Seq(OrderIds), fills : Seq(Fills)]

\* b has the orders that rs has records of, as one of them says, each once in the queue.
Shaped(b, rs) ==
  /\ b \in Books
  /\ \A i \in OrderIds : b.orders[i] # Unknown => OrderRecord(i, b.orders[i]) \in ToSet(rs)
  /\ \A r \in ToSet(rs) : r.kind = "order" => b.orders[r.id] # Unknown
  /\ \A i \in OrderIds : b.orders[i] # Unknown <=> i \in ToSet(b.queue)
  /\ \A m, n \in DOMAIN b.queue : b.queue[m] = b.queue[n] => m = n

\* What is appended to a sequence is in it, after what was.
LEMMA AppendedSet ==
  ASSUME NEW S, NEW s \in Seq(S), NEW x \in S
  PROVE  /\ Append(s, x) \in Seq(S) /\ Len(Append(s, x)) = Len(s) + 1 /\ Len(s) \in Nat
         /\ DOMAIN s = 1 .. Len(s) /\ DOMAIN Append(s, x) = 1 .. Len(s) + 1
         /\ Append(s, x)[Len(s) + 1] = x
         /\ \A n \in DOMAIN s : Append(s, x)[n] = s[n]
         /\ ToSet(Append(s, x)) = ToSet(s) \cup {x}
<1> DEFINE t == Append(s, x)
           N == Len(s)
<1>1. /\ t \in Seq(S) /\ Len(t) = N + 1 /\ N \in Nat
      /\ DOMAIN s = 1 .. N /\ DOMAIN t = 1 .. N + 1 /\ t[N + 1] = x
      /\ \A n \in DOMAIN s : t[n] = s[n]
  OBVIOUS
<1>2. DOMAIN t = DOMAIN s \cup {N + 1}
  BY <1>1
<1> HIDE DEF t, N
<1>3. ToSet(t) = ToSet(s) \cup {x}
  BY ONLY <1>1, <1>2 DEF ToSet
<1>4. QED
  BY <1>1, <1>3 DEF t, N

\* Nothing replayed has no orders.
LEMMA ShapedNothing == Shaped(NothingReplayed, <<>>)
<1>1. NothingReplayed \in Books
  BY DEF NothingReplayed, Books
<1>2. ToSet(<<>>) = {}
  BY DEF ToSet
<1>3. QED
  BY <1>1, <1>2 DEF Shaped, NothingReplayed

\* Another record keeps the shape.
LEMMA ShapedRecord ==
  ASSUME NEW rs \in Seq(Written), NEW b, Shaped(b, rs), NEW r \in Written
  PROVE  Shaped(ReplayedRecord(b, r), Append(rs, r))
<1> DEFINE c == ReplayedRecord(b, r)
<1>1. /\ b \in Books
      /\ \A i \in OrderIds : b.orders[i] # Unknown => OrderRecord(i, b.orders[i]) \in ToSet(rs)
      /\ \A a \in ToSet(rs) : a.kind = "order" => b.orders[a.id] # Unknown
      /\ \A i \in OrderIds : b.orders[i] # Unknown <=> i \in ToSet(b.queue)
      /\ \A m, n \in DOMAIN b.queue : b.queue[m] = b.queue[n] => m = n
  BY DEF Shaped
<1>2. ToSet(Append(rs, r)) = ToSet(rs) \cup {r}
  BY AppendedSet
<1>3. /\ b.orders \in [OrderIds -> OrderType \cup {Unknown}]
      /\ b.queue \in Seq(OrderIds) /\ b.fills \in Seq(Fills)
  BY <1>1 DEF Books
<1>4. CASE r.kind = "fill" /\ r.fill \in Fills /\ r = FillRecord(r.fill)
  <2>1. c = [b EXCEPT !.fills = Append(@, r.fill)]
    BY <1>4 DEF ReplayedRecord
  <2>2. Append(b.fills, r.fill) \in Seq(Fills)
    BY <1>3, <1>4
  <2>3. c \in Books /\ c.orders = b.orders /\ c.queue = b.queue
    BY <1>1, <2>1, <2>2 DEF Books
  <2>4. r.kind # "order"
    BY <1>4
  <2> HIDE DEF c
  <2>5. Shaped(c, Append(rs, r))
    BY ONLY <1>1, <1>2, <2>3, <2>4 DEF Shaped
  <2>6. QED
    BY <2>5 DEF c
<1>5. CASE /\ r.kind = "order" /\ r.id \in OrderIds /\ r.order \in OrderType
           /\ r = OrderRecord(r.id, r.order)
           /\ r.order.state # "PENDING" /\ SoundOrder(r.order) /\ r.order # Unknown
  <2> DEFINE q == IF b.orders[r.id] = Unknown THEN Append(b.queue, r.id) ELSE b.queue
             os == [b.orders EXCEPT ![r.id] = r.order]
  <2>1. c = [b EXCEPT !.orders = os, !.queue = q]
    BY <1>5 DEF ReplayedRecord
  <2>2. /\ os \in [OrderIds -> OrderType \cup {Unknown}] /\ os[r.id] = r.order
        /\ \A i \in OrderIds : i # r.id => os[i] = b.orders[i]
    BY <1>3, <1>5
  <2>3. q \in Seq(OrderIds)
    BY <1>3, <1>5
  <2> HIDE DEF os, q
  <2>4. c \in Books /\ c.orders = os /\ c.queue = q
    BY <1>1, <2>1, <2>2, <2>3 DEF Books
  <2>5. \A i \in OrderIds : os[i] # Unknown => OrderRecord(i, os[i]) \in ToSet(rs) \cup {r}
    BY ONLY <1>1, <1>5, <2>2
  <2>6. \A a \in ToSet(rs) \cup {r} : a.kind = "order" => os[a.id] # Unknown
    <3>1. ASSUME NEW a \in ToSet(rs), a.kind = "order"
          PROVE  os[a.id] # Unknown
      <4>1. a \in Written
        BY DEF ToSet
      <4>2. a.id \in OrderIds
        BY <3>1, <4>1, WrittenKinds
      <4>3. QED
        BY ONLY <1>1, <1>5, <2>2, <3>1, <4>2
    <3>2. QED
      BY <1>5, <2>2, <3>1
  <2>7. /\ \A i \in OrderIds : os[i] # Unknown <=> i \in ToSet(q)
        /\ \A m, n \in DOMAIN q : q[m] = q[n] => m = n
    <3>1. CASE b.orders[r.id] = Unknown
      <4>1. q = Append(b.queue, r.id)
        BY <3>1 DEF q
      <4>2. /\ Len(b.queue) \in Nat /\ DOMAIN b.queue = 1 .. Len(b.queue)
            /\ DOMAIN q = 1 .. Len(b.queue) + 1 /\ q[Len(b.queue) + 1] = r.id
            /\ \A n \in DOMAIN b.queue : q[n] = b.queue[n]
            /\ ToSet(q) = ToSet(b.queue) \cup {r.id}
        BY <1>3, <1>5, <4>1, AppendedSet
      <4>3. \A n \in DOMAIN b.queue : b.queue[n] # r.id
        <5>1. r.id \notin ToSet(b.queue)
          BY ONLY <1>1, <1>5, <3>1
        <5>2. QED
          BY ONLY <5>1 DEF ToSet
      <4>4. \A n \in DOMAIN q : n \in DOMAIN b.queue \/ n = Len(b.queue) + 1
        BY ONLY <4>2
      <4>5. \A m, n \in DOMAIN q : q[m] = q[n] => m = n
        BY ONLY <1>1, <4>2, <4>3, <4>4
      <4>6. \A i \in OrderIds : os[i] # Unknown <=> i \in ToSet(q)
        BY ONLY <1>1, <1>5, <2>2, <3>1, <4>2
      <4>7. QED
        BY <4>5, <4>6
    <3>2. CASE b.orders[r.id] # Unknown
      <4>1. q = b.queue
        BY <3>2 DEF q
      <4>2. QED
        BY ONLY <1>1, <1>5, <2>2, <3>2, <4>1
    <3>3. QED
      BY <3>1, <3>2
  <2> HIDE DEF c
  <2>8. Shaped(c, Append(rs, r))
    BY ONLY <1>2, <2>4, <2>5, <2>6, <2>7 DEF Shaped
  <2>9. QED
    BY <2>8 DEF c
<1>6. QED
  BY <1>4, <1>5, WrittenKinds

\* A journal of records of the broker has that shape when it is replayed.
LEMMA ReplayedShape ==
  ASSUME NEW rs \in Seq(Written)
  PROVE  Shaped(Replayed(rs), rs)
<1> DEFINE P(n) == SubSeq(rs, 1, n)
           B == {n \in 0 .. Len(rs) : ~Shaped(Replayed(P(n)), P(n))}
<1>1. Len(rs) \in Nat /\ P(0) = <<>> /\ P(Len(rs)) = rs
  OBVIOUS
<1>2. 0 \notin B
  BY <1>1, ReplayedNothing, ShapedNothing
<1>3. B = {}
  <2> SUFFICES ASSUME B # {} PROVE FALSE
    OBVIOUS
  <2>1. PICK n \in B : \A m \in B : n <= m
    <3>1. B \in SUBSET Nat /\ B # {}
      OBVIOUS
    <3> HIDE DEF B
    <3>2. QED
      BY ONLY <3>1, LeastNumber
  <2>2. n \in 1 .. Len(rs)
    <3>1. n \in 0 .. Len(rs) /\ n # 0
      BY <1>2
    <3>2. QED
      BY <3>1, <1>1
  <2>3. n - 1 \in 0 .. Len(rs) /\ n - 1 \notin B
    BY <1>1, <2>1, <2>2
  <2>4. Shaped(Replayed(P(n - 1)), P(n - 1))
    BY <2>3
  <2>5. rs[n] \in Written
    BY <2>2
  <2>6. P(n - 1) \in Seq(Written) /\ P(n) = Append(P(n - 1), rs[n])
    <3>1. n - 1 \in Nat /\ n \in Nat /\ n <= Len(rs) /\ n - 1 <= Len(rs) /\ n >= 1
      BY <1>1, <2>2
    <3>2. /\ P(n - 1) \in Seq(Written) /\ Len(P(n - 1)) = n - 1
          /\ \A k \in 1 .. n - 1 : P(n - 1)[k] = rs[k]
      BY <1>1, <3>1
    <3>3. /\ P(n) \in Seq(Written) /\ Len(P(n)) = n
          /\ \A k \in 1 .. n : P(n)[k] = rs[k]
      BY <1>1, <3>1
    <3> HIDE DEF P
    <3>4. QED
      BY ONLY <2>5, <3>1, <3>2, <3>3
  <2> HIDE DEF P
  <2>7. Replayed(P(n)) = ReplayedRecord(Replayed(P(n - 1)), rs[n])
    BY ONLY <2>5, <2>6, ReplayedOneMore
  <2>8. Shaped(Replayed(P(n)), P(n))
    BY ONLY <2>4, <2>5, <2>6, <2>7, ShapedRecord
  <2>9. QED
    BY <2>8
<1>4. Len(rs) \in 0 .. Len(rs)
  BY <1>1
<1>5. QED
  BY <1>1, <1>3, <1>4
(***************************************************************************)
(* The steps of the broker, by what they do to its books.                  *)
(***************************************************************************)
\* Order i changes, and no other.
OneOrder(i) ==
  /\ orders'[i] # orders[i] /\ orders'[i] \in OrderType
  /\ orders'[i].state # "PENDING" /\ SoundOrder(orders'[i])
  /\ \A j \in OrderIds \ {i} : orders'[j] = orders[j]

Placing(i) ==
  /\ ~Known(i)
  /\ orders'[i].state \in {"OPEN", "REJECTED"} /\ orders'[i].filled = 0
  /\ queue' = Append(queue, i)
  /\ keys' = IF orders'[i].state = "REJECTED" \/ orders'[i].key = NoKey THEN keys
             ELSE [keys EXCEPT ![orders'[i].key] = i]
  /\ UNCHANGED <<fills, held, cash>>

Cancelling(i) ==
  /\ Known(i) /\ orders[i].state # "REJECTED"
  /\ orders'[i].state = "CANCELLED"
  /\ orders'[i].key = orders[i].key /\ orders'[i].filled = orders[i].filled
  /\ UNCHANGED <<queue, fills, held, cash, keys>>

Execution(i, q, p) ==
  [order |-> i, symbol |-> orders[i].symbol, side |-> orders[i].side, quantity |-> q, price |-> p]

Filling(i, q, p) ==
  /\ Known(i) /\ orders[i].state # "REJECTED" /\ q > 0
  /\ orders'[i].state # "REJECTED"
  /\ orders'[i].key = orders[i].key /\ orders'[i].filled = orders[i].filled + q
  /\ Execution(i, q, p) \in Fills
  /\ fills' = Append(fills, Execution(i, q, p))
  /\ \A s \in Symbols :
       held'[s] = held[s] + IF s = orders[i].symbol THEN Signed(Execution(i, q, p)) ELSE 0
  /\ cash' = cash - Signed(Execution(i, q, p)) * p
  /\ UNCHANGED <<queue, keys>>

BookKept == UNCHANGED <<orders, queue, fills, held, cash, keys>>

\* A step leaves the books, or places, cancels or fills one order.
StepForm ==
  \/ BookKept
  \/ \E i \in OrderIds : OneOrder(i) /\ (Placing(i) \/ Cancelling(i))
  \/ \E i \in OrderIds, q \in Nat, p \in Nat : OneOrder(i) /\ Filling(i, q, p)

\* An order that was placed is sound and well formed.
LEMMA PlacedForm ==
  ASSUME IInv, IInv', NEW i \in OrderIds, NEW o \in FreshOrders, NEW st \in {"OPEN", "REJECTED"},
         ~Known(i), orders' = [orders EXCEPT ![i] = [o EXCEPT !.state = st]]
  PROVE  /\ OneOrder(i)
         /\ orders'[i].state = st /\ orders'[i].filled = 0 /\ orders'[i].key = o.key
<1>1. st \in States
  BY DEF States
<1>2. /\ orders'[i] = [o EXCEPT !.state = st]
      /\ \A j \in OrderIds : j # i => orders'[j] = orders[j]
  <2>1. DOMAIN orders = OrderIds
    BY DEF IInv, TypeOK
  <2>2. QED
    BY ONLY <2>1, orders' = [orders EXCEPT ![i] = [o EXCEPT !.state = st]], i \in OrderIds
<1>3. o \in OrderType /\ o.filled = 0
  BY DEF FreshOrders
<1>4. /\ orders'[i] \in OrderType
      /\ orders'[i].state = st /\ orders'[i].filled = 0 /\ orders'[i].key = o.key
  BY ONLY <1>1, <1>2, <1>3 DEF OrderType
<1>5. SoundOrder(orders'[i])
  BY <1>4 DEF SoundOrder
<1>6. orders'[i] # orders[i]
  BY <1>4 DEF Known
<1>7. QED
  BY <1>2, <1>4, <1>5, <1>6 DEF OneOrder

\* No step does anything else to the books.
LEMMA StepForms ==
  ASSUME IInv, IInv', [Step]_vars
  PROVE  StepForm
<1>1. ASSUME NEW i \in OrderIds, NEW o \in FreshOrders, Reject(i, o)
      PROVE  StepForm
  <2>1. ~Known(i) /\ orders' = [orders EXCEPT ![i] = [o EXCEPT !.state = "REJECTED"]]
    BY <1>1 DEF Reject, MaySubmit
  <2>2. OneOrder(i) /\ orders'[i].state = "REJECTED" /\ orders'[i].filled = 0
    BY <2>1, PlacedForm
  <2>3. Placing(i)
    BY <1>1, <2>1, <2>2 DEF Reject, Placing
  <2>4. QED
    BY <2>2, <2>3 DEF StepForm
<1>2. ASSUME NEW i \in OrderIds, NEW o \in FreshOrders, NEW q \in QuoteType \cup {NoQuote},
             Accept(i, o, q)
      PROVE  StepForm
  <2>1. ~Known(i) /\ orders' = [orders EXCEPT ![i] = [o EXCEPT !.state = "OPEN"]]
    BY <1>2 DEF Accept, MaySubmit
  <2>2. /\ OneOrder(i) /\ orders'[i].state = "OPEN" /\ orders'[i].filled = 0
        /\ orders'[i].key = o.key
    BY <2>1, PlacedForm
  <2>3. Placing(i)
    BY <1>2, <2>1, <2>2 DEF Accept, RegisterKey, Placing
  <2>4. QED
    BY <2>2, <2>3 DEF StepForm
<1>3. ASSUME NEW i \in OrderIds, Cancel(i)
      PROVE  StepForm
  <2>1. orders[i] \in OrderType /\ orders[i].state \in WorkingStates
    BY <1>3 DEF IInv, Cancel, Known, Terminal, TerminalStates, WorkingStates, Unknown, TypeOK,
                OrderType, States
  <2>2. /\ orders'[i] = [orders[i] EXCEPT !.state = "CANCELLED"]
        /\ \A j \in OrderIds \ {i} : orders'[j] = orders[j]
    BY <1>3, <2>1 DEF IInv, Cancel, TypeOK
  <2>3. /\ orders'[i] \in OrderType /\ orders'[i].state = "CANCELLED"
        /\ orders'[i].key = orders[i].key /\ orders'[i].filled = orders[i].filled
    BY <2>1, <2>2 DEF OrderType, States
  <2>4. SoundOrder(orders'[i])
    BY <2>3 DEF IInv, StateMatchesFilled, SoundOrder
  <2>5. orders'[i] # orders[i] /\ orders[i].state # "REJECTED" /\ Known(i)
    BY <2>1, <2>3 DEF WorkingStates, Known
  <2>6. OneOrder(i)
    BY <2>2, <2>3, <2>4, <2>5 DEF OneOrder
  <2>7. Cancelling(i)
    BY <1>3, <2>3, <2>5 DEF Cancel, Cancelling
  <2>8. QED
    BY <2>6, <2>7 DEF StepForm
<1>4. ASSUME NEW i \in OrderIds, NEW q \in Nat, NEW p \in Nat, ApplyFill(i, q, p)
      PROVE  StepForm
  <2>1. /\ orders[i] \in OrderType /\ Working(i) /\ q > 0
        /\ \A j \in OrderIds \ {i} : orders'[j] = orders[j]
        /\ orders'[i].filled = orders[i].filled + q
    BY <1>4, ExecutedCounts
  <2>2. orders'[i] = Advanced(i, q) /\ Advanced(i, q) \in OrderType
    <3>1. TypeOK /\ StateMatchesFilled
      BY DEF IInv
    <3>2. Advanced(i, q) \in OrderType
      BY <1>4, <3>1, ApplyFillTyped
    <3>3. QED
      BY <1>4, <3>1, <3>2 DEF ApplyFill, TypeOK
  <2>3. /\ orders'[i].key = orders[i].key
        /\ orders'[i].state \in {"FILLED", "PARTIALLY_FILLED"}
    BY <2>1, <2>2 DEF Advanced, OrderType
  <2>4. SoundOrder(orders'[i])
    BY DEF IInv, StateMatchesFilled, SoundOrder
  <2>5. orders[i].filled \in Nat /\ orders'[i] # orders[i]
    BY <1>4, <2>1 DEF OrderType
  <2>6. OneOrder(i)
    BY <2>1, <2>2, <2>3, <2>4, <2>5 DEF OneOrder
  <2>7. Execution(i, q, p) \in Fills
    BY <1>4, <2>1 DEF Execution, OrderType, Fills
  <2>8. /\ \A s \in Symbols :
             held'[s] = held[s] + IF s = orders[i].symbol THEN Signed(Execution(i, q, p)) ELSE 0
        /\ cash' = cash - Signed(Execution(i, q, p)) * p
        /\ fills' = Append(fills, Execution(i, q, p))
    BY <1>4, ExecutedBooks DEF Execution
  <2>9. Known(i) /\ orders[i].state # "REJECTED" /\ UNCHANGED <<queue, keys>>
    BY <1>4, <2>1 DEF Working, WorkingStates, Known, ApplyFill
  <2>10. Filling(i, q, p)
    BY <2>1, <2>3, <2>7, <2>8, <2>9 DEF Filling
  <2>11. QED
    BY <2>6, <2>10 DEF StepForm
<1>5. CASE Serve
  <2>1. PICK i \in OrderIds, q \in Nat, p \in Nat : ApplyFill(i, q, p)
    BY <1>5, ServeExecutes
  <2>2. QED
    BY <1>4, <2>1
<1>6. ASSUME NEW i \in OrderIds, NEW q \in Nat, NEW p \in Nat, Report(i, q, p)
      PROVE  StepForm
  BY <1>4, <1>6 DEF Report
<1>7. CASE \/ \E q \in QuoteType : OnQuote(q)
           \/ MarkStateUnknown \/ Engage \/ Release \/ UNCHANGED vars
  BY <1>7 DEF OnQuote, MarkStateUnknown, Engage, Release, vars, StepForm, BookKept
<1>8. QED
  BY <1>1, <1>2, <1>3, <1>5, <1>6, <1>7 DEF Step
(***************************************************************************)
(* The book in memory.                                                     *)
(***************************************************************************)
\* Positions and cash are sums over the fills, even in a book that is flagged.
PositionsAgree ==
  /\ \A s \in Symbols : held[s] = HeldSum(fills, s)
  /\ cash = InitialCash - PaidSum(fills)

\* The queue has every order once, a key in the table is that of an accepted order, and
\* in a book that is not flagged every fill is of an order.
MemoryInv ==
  /\ \A m, n \in DOMAIN queue : queue[m] = queue[n] => m = n
  /\ \A i \in OrderIds : Known(i) <=> i \in ToSet(queue)
  /\ \A i \in OrderIds : Known(i) \/ orders[i] = Unknown
  /\ \A k \in Keys : keys[k] # NoOrder =>
       Known(keys[k]) /\ orders[keys[k]].key = k /\ orders[keys[k]].state # "REJECTED"
  /\ ~problems => \A n \in DOMAIN fills : Known(fills[n].order)

BookInv == IInv /\ MemoryInv /\ PositionsAgree /\ (~problems => BooksAgree)

\* What is in memory before anything happened.
Blank ==
  /\ orders = [i \in OrderIds |-> Unknown]
  /\ queue = <<>>
  /\ fills = <<>>
  /\ held = [s \in Symbols |-> 0]
  /\ cash = InitialCash
  /\ keys = [k \in Keys |-> NoOrder]
  /\ problems = FALSE
  /\ quote = NoQuote

BlankIsSound == Blank /\ halted \in BOOLEAN => BookInv

\* An empty memory satisfies the invariant.
LEMMA BlankBook == BlankIsSound
<1> SUFFICES ASSUME Blank, halted \in BOOLEAN PROVE BookInv
  BY DEF BlankIsSound
<1>1. TypeOK
  <2>1. orders \in [OrderIds -> OrderType \cup {Unknown}]
    BY DEF Blank
  <2>2. queue \in Seq(OrderIds) /\ fills \in Seq(Fills)
    BY DEF Blank
  <2>3. held \in [Symbols -> Int] /\ cash \in Int
    BY BrokerConstants DEF Blank
  <2>4. keys \in [Keys -> OrderIds \cup {NoOrder}] /\ problems \in BOOLEAN
    BY DEF Blank
  <2>5. quote \in ServedType
    BY NoQuoteTyped DEF Blank
  <2>6. QED
    BY <2>1, <2>2, <2>3, <2>4, <2>5 DEF TypeOK
<1>2. StateMatchesFilled
  BY DEF Blank, StateMatchesFilled, Unknown
<1>3. KeysAreRegistered
  BY DEF Blank, KeysAreRegistered, Unknown, Known
<1>4. MemoryInv
  BY DEF Blank, MemoryInv, Unknown, Known, ToSet
<1>5. BooksAgree
  <2>1. /\ \A i \in OrderIds : orders[i].filled = FilledSum(fills, i)
        /\ \A s \in Symbols : held[s] = HeldSum(fills, s)
        /\ cash = InitialCash - PaidSum(fills)
    BY SumsOfNone, BrokerConstants DEF Blank, Unknown
  <2>2. QED
    BY <2>1, BooksAreSums
<1>6. PositionsAgree
  BY <1>5, BooksAreSums DEF PositionsAgree
<1>7. QED
  BY <1>1, <1>2, <1>3, <1>4, <1>5, <1>6 DEF BookInv, IInv

\* Nothing the broker does clears its flag.
LEMMA FlagStays ==
  ASSUME [Step]_vars, problems
  PROVE  problems'
BY DEF Step, vars, Reject, Accept, Cancel, OnQuote, Serve, Report, ApplyFill, MarkStateUnknown,
       Engage, Release

\* A sum over fills is an integer.
LEMMA PaidIsInt ==
  ASSUME NEW fs \in Seq(Fills)
  PROVE  PaidSum(fs) \in Int
<1>1. DOMAIN fs = 1 .. Len(fs) /\ Len(fs) \in Nat
  OBVIOUS
<1>2. IsFiniteSet(DOMAIN fs)
  BY <1>1, FS_Interval
<1> DEFINE a == [n \in DOMAIN fs |-> Signed(fs[n]) * fs[n].price]
<1>3. \A n \in DOMAIN fs : a[n] \in Int
  <2>1. \A x \in Fills : Signed(x) * x.price \in Int
    BY DEF Fills, Signed
  <2>2. \A n \in DOMAIN fs : fs[n] \in Fills
    OBVIOUS
  <2>3. QED
    BY <2>1, <2>2
<1>4. DOMAIN a = DOMAIN fs /\ PaidSum(fs) = SumFunction(a)
  BY DEF PaidSum
<1> HIDE DEF a
<1>5. QED
  BY <1>2, <1>3, <1>4, SumIsInt DEF SumFunction

\* An execution moves one position and cash by as much as the sums.
LEMMA PositionsStep ==
  ASSUME IInv, IInv', PositionsAgree, [Step]_vars
  PROVE  PositionsAgree'
<1>1. /\ \A s \in Symbols : held[s] = HeldSum(fills, s)
      /\ cash = InitialCash - PaidSum(fills)
  BY DEF PositionsAgree
<1>2. CASE UNCHANGED <<fills, held, cash>>
  BY <1>1, <1>2 DEF PositionsAgree, HeldSum, PaidSum
<1>3. ASSUME NEW i \in OrderIds, NEW q \in Nat, NEW p \in Nat, Filling(i, q, p)
      PROVE  PositionsAgree'
  <2> DEFINE f == Execution(i, q, p)
  <2>1. /\ f \in Fills /\ fills' = Append(fills, f)
        /\ \A s \in Symbols : held'[s] = held[s] + IF s = orders[i].symbol THEN Signed(f) ELSE 0
        /\ cash' = cash - Signed(f) * p
    BY <1>3 DEF Filling
  <2>2. f.symbol = orders[i].symbol /\ f.price = p
    BY DEF Execution
  <2>3. fills \in Seq(Fills) /\ InitialCash \in Int
    BY BrokerConstants DEF IInv, TypeOK
  <2> HIDE DEF f
  <2>4. \A s \in Symbols :
          HeldSum(fills', s) = HeldSum(fills, s) + IF f.symbol = s THEN Signed(f) ELSE 0
    <3> SUFFICES ASSUME NEW s \in Symbols
                 PROVE  HeldSum(fills', s) = HeldSum(fills, s) + IF f.symbol = s THEN Signed(f) ELSE 0
      OBVIOUS
    <3>1. HeldSum(Append(fills, f), s) = HeldSum(fills, s) + IF f.symbol = s THEN Signed(f) ELSE 0
      <4>1. fills \in Seq(Fills) /\ f \in Fills
        BY ONLY <2>1, <2>3
      <4>2. QED
        BY ONLY <4>1, SumsAppended
    <3>2. QED
      BY ONLY <2>1, <3>1
  <2>5. PaidSum(fills') = PaidSum(fills) + Signed(f) * f.price
    BY ONLY <2>1, <2>3, SumsAppended
  <2>6. PaidSum(fills) \in Int /\ Signed(f) * f.price \in Int
    <3>1. PaidSum(fills) \in Int
      BY <2>3, PaidIsInt
    <3>2. \A x \in Fills : Signed(x) * x.price \in Int
      BY DEF Fills, Signed
    <3>3. QED
      BY <2>1, <3>1, <3>2
  <2>7. \A s \in Symbols : held'[s] = HeldSum(fills', s)
    BY ONLY <1>1, <2>1, <2>2, <2>4
  <2>8. cash' = InitialCash - PaidSum(fills')
    BY ONLY <1>1, <2>1, <2>2, <2>3, <2>5, <2>6
  <2>9. QED
    BY <2>7, <2>8 DEF PositionsAgree, HeldSum, PaidSum
<1>4. QED
  BY <1>2, <1>3, StepForms DEF StepForm, BookKept, Placing, Cancelling

\* Placing an order puts it in the queue and its key in the table, and nothing takes any
\* of it out again.
LEMMA MemoryStep ==
  ASSUME BookInv, IInv', [Step]_vars
  PROVE  MemoryInv'
<1>1. /\ \A m, n \in DOMAIN queue : queue[m] = queue[n] => m = n
      /\ \A i \in OrderIds : Known(i) <=> i \in ToSet(queue)
      /\ \A i \in OrderIds : Known(i) \/ orders[i] = Unknown
      /\ \A k \in Keys : keys[k] # NoOrder =>
           Known(keys[k]) /\ orders[keys[k]].key = k /\ orders[keys[k]].state # "REJECTED"
      /\ ~problems => \A n \in DOMAIN fills : Known(fills[n].order)
  BY DEF BookInv, MemoryInv
<1>2. /\ queue \in Seq(OrderIds) /\ fills \in Seq(Fills)
      /\ keys \in [Keys -> OrderIds \cup {NoOrder}] /\ NoOrder \notin OrderIds
  BY BrokerConstants DEF BookInv, IInv, TypeOK
<1>3. ~problems' => ~problems
  BY FlagStays
<1>4. \A n \in DOMAIN fills : fills[n].order \in OrderIds
  <2>1. \A n \in DOMAIN fills : fills[n] \in Fills
    BY ONLY <1>2
  <2>2. QED
    BY ONLY <2>1 DEF Fills
<1>5. CASE BookKept
  <2>1. orders' = orders /\ queue' = queue /\ fills' = fills /\ keys' = keys
    BY <1>5 DEF BookKept
  <2>2. ~problems' => \A n \in DOMAIN fills' : orders'[fills'[n].order].state # "PENDING"
    BY ONLY <1>1, <1>3, <2>1 DEF Known
  <2>3. QED
    BY ONLY <1>1, <2>1, <2>2 DEF MemoryInv, Known
<1>6. ASSUME NEW i \in OrderIds, OneOrder(i), Placing(i)
      PROVE  MemoryInv'
  <2>1. /\ orders'[i].state # "PENDING" /\ \A j \in OrderIds : j # i => orders'[j] = orders[j]
        /\ orders'[i] \in OrderType /\ orders[i].state = "PENDING"
    BY <1>6 DEF OneOrder, Placing, Known
  <2>2. \A j \in OrderIds : orders'[j].state # "PENDING" <=> j = i \/ orders[j].state # "PENDING"
    BY ONLY <2>1
  <2>3. queue' = Append(queue, i) /\ fills' = fills
    BY <1>6 DEF Placing
  <2>4. /\ Len(queue) \in Nat /\ DOMAIN queue = 1 .. Len(queue)
        /\ DOMAIN queue' = 1 .. Len(queue) + 1 /\ queue'[Len(queue) + 1] = i
        /\ \A n \in DOMAIN queue : queue'[n] = queue[n]
        /\ ToSet(queue') = ToSet(queue) \cup {i}
    BY <1>2, <1>6, <2>3, AppendedSet
  <2>5. \A n \in DOMAIN queue : queue[n] # i
    <3>1. i \notin ToSet(queue)
      BY ONLY <1>1, <1>6, <2>1 DEF Known
    <3>2. QED
      BY ONLY <3>1 DEF ToSet
  <2>6. \A m, n \in DOMAIN queue' : queue'[m] = queue'[n] => m = n
    BY ONLY <1>1, <2>4, <2>5
  <2>7. \A j \in OrderIds : orders'[j].state # "PENDING" <=> j \in ToSet(queue')
    BY ONLY <1>1, <2>2, <2>4 DEF Known
  <2>8. \A j \in OrderIds : orders'[j].state # "PENDING" \/ orders'[j] = Unknown
    BY ONLY <1>1, <2>1 DEF Known
  <2>9. \A k \in Keys : keys'[k] # NoOrder =>
          /\ orders'[keys'[k]].state # "PENDING" /\ orders'[keys'[k]].key = k
          /\ orders'[keys'[k]].state # "REJECTED"
    <3> SUFFICES ASSUME NEW k \in Keys, keys'[k] # NoOrder
                 PROVE  /\ orders'[keys'[k]].state # "PENDING" /\ orders'[keys'[k]].key = k
                        /\ orders'[keys'[k]].state # "REJECTED"
      OBVIOUS
    <3>1. CASE keys'[k] = keys[k]
      <4>1. /\ orders[keys[k]].state # "PENDING" /\ orders[keys[k]].key = k
            /\ orders[keys[k]].state # "REJECTED" /\ keys[k] \in OrderIds
        BY <1>1, <1>2, <3>1 DEF Known
      <4>2. keys[k] # i
        BY ONLY <2>1, <4>1
      <4>3. QED
        BY ONLY <2>1, <3>1, <4>1, <4>2
    <3>2. CASE keys'[k] # keys[k]
      <4>1. /\ keys' = [keys EXCEPT ![orders'[i].key] = i]
            /\ orders'[i].state # "REJECTED" /\ orders'[i].key # NoKey
        BY <1>6, <3>2 DEF Placing
      <4>2. orders'[i].key \in Keys
        BY <2>1, <4>1 DEF OrderType
      <4>3. k = orders'[i].key /\ keys'[k] = i
        BY <1>2, <3>2, <4>1, <4>2
      <4>4. QED
        BY ONLY <2>1, <4>1, <4>3
    <3>3. QED
      BY <3>1, <3>2
  <2>10. ~problems' => \A n \in DOMAIN fills' : orders'[fills'[n].order].state # "PENDING"
    BY ONLY <1>1, <1>3, <1>4, <2>2, <2>3 DEF Known
  <2>11. QED
    BY <2>6, <2>7, <2>8, <2>9, <2>10 DEF MemoryInv, Known
<1>7. ASSUME NEW i \in OrderIds, OneOrder(i), Known(i), orders[i].state # "REJECTED",
             orders'[i].state # "REJECTED", orders'[i].key = orders[i].key,
             queue' = queue, keys' = keys,
             ~problems' => \A n \in DOMAIN fills' : fills'[n].order \in OrderIds
                                                    /\ Known(fills'[n].order)
      PROVE  MemoryInv'
  <2>1. /\ orders'[i].state # "PENDING" /\ \A j \in OrderIds : j # i => orders'[j] = orders[j]
        /\ orders[i].state # "PENDING"
    BY <1>7 DEF OneOrder, Known
  <2>2. \A j \in OrderIds : orders'[j].state # "PENDING" <=> orders[j].state # "PENDING"
    BY ONLY <2>1
  <2>3. \A j \in OrderIds : /\ orders'[j].key = orders[j].key
                            /\ orders[j].state # "REJECTED" => orders'[j].state # "REJECTED"
    BY ONLY <1>7, <2>1
  <2>4. \A j \in OrderIds : orders'[j].state # "PENDING" <=> j \in ToSet(queue')
    BY ONLY <1>1, <1>7, <2>2 DEF Known
  <2>5. \A j \in OrderIds : orders'[j].state # "PENDING" \/ orders'[j] = Unknown
    BY ONLY <1>1, <2>1 DEF Known
  <2>6. \A k \in Keys : keys'[k] # NoOrder =>
          /\ orders'[keys'[k]].state # "PENDING" /\ orders'[keys'[k]].key = k
          /\ orders'[keys'[k]].state # "REJECTED"
    <3> SUFFICES ASSUME NEW k \in Keys, keys[k] # NoOrder
                 PROVE  /\ orders'[keys[k]].state # "PENDING" /\ orders'[keys[k]].key = k
                        /\ orders'[keys[k]].state # "REJECTED"
      BY <1>7
    <3>1. /\ orders[keys[k]].state # "PENDING" /\ orders[keys[k]].key = k
          /\ orders[keys[k]].state # "REJECTED" /\ keys[k] \in OrderIds
      BY <1>1, <1>2 DEF Known
    <3>2. QED
      BY ONLY <2>2, <2>3, <3>1
  <2>7. ~problems' => \A n \in DOMAIN fills' : orders'[fills'[n].order].state # "PENDING"
    BY ONLY <1>7, <2>2 DEF Known
  <2>8. QED
    BY <1>1, <1>7, <2>4, <2>5, <2>6, <2>7 DEF MemoryInv, Known
<1>8. ASSUME NEW i \in OrderIds, OneOrder(i), Cancelling(i)
      PROVE  MemoryInv'
  BY <1>1, <1>3, <1>4, <1>7, <1>8 DEF Cancelling
<1>9. ASSUME NEW i \in OrderIds, NEW q \in Nat, NEW p \in Nat, OneOrder(i), Filling(i, q, p)
      PROVE  MemoryInv'
  <2>1. /\ Known(i) /\ orders[i].state # "REJECTED" /\ orders'[i].state # "REJECTED"
        /\ orders'[i].key = orders[i].key /\ queue' = queue /\ keys' = keys
        /\ Execution(i, q, p) \in Fills /\ fills' = Append(fills, Execution(i, q, p))
    BY <1>9 DEF Filling
  <2>2. Execution(i, q, p).order = i
    BY DEF Execution
  <2>3. \A n \in DOMAIN fills' : fills'[n].order = i \/ \E m \in DOMAIN fills : fills'[n] = fills[m]
    BY ONLY <1>2, <2>1, <2>2
  <2>4. ~problems' => \A n \in DOMAIN fills' : fills'[n].order \in OrderIds /\ Known(fills'[n].order)
    BY ONLY <1>1, <1>3, <1>4, <1>9, <2>1, <2>3
  <2>5. QED
    BY ONLY <1>7, <1>9, <2>1, <2>4
<1>10. QED
  BY <1>5, <1>6, <1>8, <1>9, StepForms DEF StepForm, BookInv

\* A step of the broker keeps its book right.
LEMMA BookStep ==
  ASSUME BookInv, [Step]_vars
  PROVE  BookInv'
<1>1. IInv'
  BY StepPreserves DEF BookInv
<1>2. MemoryInv' /\ PositionsAgree'
  BY <1>1, MemoryStep, PositionsStep DEF BookInv
<1>3. ~problems' => BooksAgree'
  BY FlagStays, BooksStep DEF BookInv
<1>4. QED
  BY <1>1, <1>2, <1>3 DEF BookInv
(***************************************************************************)
(* What a step of the broker hands to the journal.                         *)
(***************************************************************************)
\* Memory knows the order of record a, by the same key and as accepted or refused.
KnownAs(a) ==
  a.kind = "order" =>
    /\ Known(a.id)
    /\ orders[a.id].key = a.order.key
    /\ orders[a.id].state = "REJECTED" <=> a.order.state = "REJECTED"

\* Two records are not of different orders for one intent, nor differ on the intent of one.
Same(a, b) ==
  a.kind = "order" /\ b.kind = "order" =>
    /\ a.id = b.id => /\ a.order.key = b.order.key
                      /\ a.order.state = "REJECTED" <=> b.order.state = "REJECTED"
    /\ /\ a.order.key = b.order.key /\ a.order.key # NoKey
       /\ a.order.state # "REJECTED" /\ b.order.state # "REJECTED"
       => a.id = b.id

\* The part of the book that is recorded.
Memory == [orders |-> orders, queue |-> queue, fills |-> fills]

\* Two records in a row.
LEMMA TwoInARow ==
  ASSUME NEW S, NEW x \in S, NEW y \in S
  PROVE  <<x>> \o <<y>> = <<x, y>>
<1> DEFINE l == <<x>> \o <<y>>
<1>1. <<x>> \in Seq(S) /\ <<y>> \in Seq(S) /\ <<x, y>> \in Seq(S)
  OBVIOUS
<1>2. Len(<<x>>) = 1 /\ Len(<<y>>) = 1 /\ Len(<<x, y>>) = 2
  OBVIOUS
<1>3. l \in Seq(S) /\ Len(l) = 2 /\ l[1] = x /\ l[2] = y
  BY <1>1, <1>2
<1>4. <<x, y>>[1] = x /\ <<x, y>>[2] = y
  OBVIOUS
<1> HIDE DEF l
<1>5. ASSUME NEW n \in 1 .. 2 PROVE l[n] = <<x, y>>[n]
  <2>1. n = 1 \/ n = 2
    OBVIOUS
  <2>2. QED
    BY <1>3, <1>4, <2>1
<1>6. l = <<x, y>>
  BY <1>1, <1>2, <1>3, <1>5
<1>7. QED
  BY <1>6 DEF l

\* No order changes: nothing is recorded.
LEMMA RecordedNothing ==
  ASSUME orders' = orders, fills' = fills
  PROVE  Recorded = <<>>
<1> DEFINE changed == {j \in OrderIds : orders'[j] # orders[j]}
           i == CHOOSE j \in changed : TRUE
           first == [n \in 1 .. Cardinality(changed) |-> OrderRecord(i, orders'[i])]
           rest == IF Len(fills') > Len(fills) THEN <<FillRecord(Last(fills'))>> ELSE <<>>
<1>1. Recorded = first \o rest
  BY DEF Recorded
<1>2. Cardinality(changed) = 0
  <2>1. changed = {}
    OBVIOUS
  <2>2. QED
    BY <2>1, FS_EmptySet
<1>3. rest = <<>>
  <2>1. Len(fills') = Len(fills)
    OBVIOUS
  <2> DEFINE x == <<FillRecord(Last(fills'))>>
             l == Len(fills)
  <2>2. rest = IF l > l THEN x ELSE <<>>
    BY <2>1
  <2>3. ~ (l > l)
    OBVIOUS
  <2> HIDE DEF x, l, rest
  <2>4. QED
    BY ONLY <2>2, <2>3
<1>4. first = <<>>
  <2> DEFINE e == OrderRecord(i, orders'[i])
  <2>1. first = [n \in 1 .. Cardinality(changed) |-> e]
    OBVIOUS
  <2> HIDE DEF e, first
  <2>2. first = [n \in 1 .. 0 |-> e]
    BY ONLY <1>2, <2>1
  <2>3. [n \in 1 .. 0 |-> e] = <<>>
    OBVIOUS
  <2>4. QED
    BY ONLY <2>2, <2>3
<1>5. <<>> \o <<>> = <<>>
  OBVIOUS
<1> HIDE DEF first, rest
<1>6. QED
  BY ONLY <1>1, <1>3, <1>4, <1>5

\* One does: it is, with its execution if it has one.
LEMMA RecordedOrder ==
  ASSUME NEW i \in OrderIds, OneOrder(i), fills \in Seq(Fills),
         OrderRecord(i, orders'[i]) \in Written
  PROVE  /\ fills' = fills => Recorded = <<OrderRecord(i, orders'[i])>>
         /\ \A f \in Fills : fills' = Append(fills, f) /\ FillRecord(f) \in Written =>
              Recorded = <<OrderRecord(i, orders'[i]), FillRecord(f)>>
<1> DEFINE changed == {j \in OrderIds : orders'[j] # orders[j]}
           k == CHOOSE j \in changed : TRUE
           e == OrderRecord(i, orders'[i])
           first == [n \in 1 .. Cardinality(changed) |-> OrderRecord(k, orders'[k])]
           rest == IF Len(fills') > Len(fills) THEN <<FillRecord(Last(fills'))>> ELSE <<>>
<1>1. Recorded = first \o rest
  BY DEF Recorded
<1>2. changed = {i}
  BY DEF OneOrder
<1>3. Cardinality(changed) = 1 /\ k = i
  BY <1>2, FS_Singleton
<1>4. first = <<e>>
  <2>1. OrderRecord(k, orders'[k]) = e
    BY <1>3
  <2> DEFINE g == OrderRecord(k, orders'[k])
             c == Cardinality(changed)
  <2>2. first = [n \in 1 .. c |-> g]
    OBVIOUS
  <2> HIDE DEF e, first, changed, g, c
  <2>3. c = 1 /\ g = e
    BY <1>3, <2>1 DEF c, g
  <2>4. first = [n \in 1 .. 1 |-> e]
    BY ONLY <2>2, <2>3
  <2>5. [n \in 1 .. 1 |-> e] = <<e>>
    OBVIOUS
  <2>6. QED
    BY ONLY <2>4, <2>5
<1>5. e \in Written
  OBVIOUS
<1> HIDE DEF changed, k, e, first
<1>6. fills' = fills => Recorded = <<e>>
  <2> SUFFICES ASSUME fills' = fills PROVE Recorded = <<e>>
    OBVIOUS
  <2>1. Len(fills) \in Nat /\ Len(fills') = Len(fills)
    OBVIOUS
  <2>2. rest = <<>>
    BY <2>1
  <2>3. <<e>> \o <<>> = <<e>>
    BY <1>5
  <2> HIDE DEF rest
  <2>4. QED
    BY ONLY <1>1, <1>4, <2>2, <2>3
<1>7. ASSUME NEW f \in Fills, fills' = Append(fills, f), FillRecord(f) \in Written
      PROVE  Recorded = <<e, FillRecord(f)>>
  <2>1. Len(fills') = Len(fills) + 1 /\ Len(fills) \in Nat /\ Last(fills') = f
    BY <1>7 DEF Last
  <2>2. rest = <<FillRecord(f)>>
    BY <2>1
  <2>3. \A x, y \in Written : <<x>> \o <<y>> = <<x, y>>
    BY TwoInARow
  <2> HIDE DEF rest
  <2>4. QED
    BY ONLY <1>1, <1>4, <1>5, <1>7, <2>2, <2>3
<1>8. QED
  BY <1>6, <1>7 DEF e

\* The records of an order and of a fill are ones the broker writes.
LEMMA RecordsAreWritten ==
  /\ \A i \in OrderIds : OneOrder(i) => OrderRecord(i, orders'[i]) \in Written
  /\ \A f \in Fills : FillRecord(f) \in Written
<1>1. ASSUME NEW i \in OrderIds, OneOrder(i)
      PROVE  OrderRecord(i, orders'[i]) \in Written
  <2> DEFINE r == OrderRecord(i, orders'[i])
  <2>1. /\ orders'[i] \in OrderType /\ orders'[i].state # "PENDING"
        /\ SoundOrder(orders'[i])
    BY <1>1 DEF OneOrder
  <2>2. r \in [kind : {"order"}, id : OrderIds, order : OrderType] /\ r.order = orders'[i]
    BY <2>1 DEF OrderRecord
  <2> HIDE DEF r
  <2>3. r \in JournalRecords
    BY ONLY <2>2 DEF JournalRecords
  <2>4. QED
    BY <2>1, <2>2, <2>3 DEF Written, r
<1>2. ASSUME NEW f \in Fills
      PROVE  FillRecord(f) \in Written
  <2>1. FillRecord(f) \in [kind : {"fill"}, fill : Fills] /\ FillRecord(f).kind # "order"
    BY DEF FillRecord
  <2>2. QED
    BY <2>1 DEF Written, JournalRecords
<1>3. QED
  BY <1>1, <1>2

\* An order that is known stays known by its key, and as accepted or refused.
LEMMA KnownAsStep ==
  ASSUME BookInv, [Step]_vars, NEW a \in Written, KnownAs(a)
  PROVE  KnownAs(a)'
<1> SUFFICES ASSUME a.kind = "order"
             PROVE  /\ orders'[a.id].state # "PENDING"
                    /\ orders'[a.id].key = a.order.key
                    /\ orders'[a.id].state = "REJECTED" <=> a.order.state = "REJECTED"
  BY DEF KnownAs, Known
<1>1. /\ orders[a.id].state # "PENDING" /\ orders[a.id].key = a.order.key
      /\ orders[a.id].state = "REJECTED" <=> a.order.state = "REJECTED"
  BY DEF KnownAs, Known
<1>2. a.id \in OrderIds
  BY WrittenKinds
<1>3. CASE orders'[a.id] = orders[a.id]
  BY ONLY <1>1, <1>3
<1>4. ASSUME NEW i \in OrderIds, OneOrder(i), Placing(i)
      PROVE  orders'[a.id] = orders[a.id]
  BY <1>1, <1>2, <1>4 DEF OneOrder, Placing, Known
<1>5. ASSUME NEW i \in OrderIds, OneOrder(i), orders[i].state # "REJECTED",
             orders'[i].state # "REJECTED", orders'[i].key = orders[i].key
      PROVE  /\ orders'[a.id].state # "PENDING"
             /\ orders'[a.id].key = a.order.key
             /\ orders'[a.id].state = "REJECTED" <=> a.order.state = "REJECTED"
  <2>1. CASE a.id = i
    BY <1>1, <1>5, <2>1 DEF OneOrder
  <2>2. CASE a.id # i
    <3>1. orders'[a.id] = orders[a.id]
      BY <1>2, <1>5, <2>2 DEF OneOrder
    <3>2. QED
      BY <1>3, <3>1
  <2>3. QED
    BY <2>1, <2>2
<1>6. ASSUME NEW i \in OrderIds, OneOrder(i), Cancelling(i)
      PROVE  /\ orders[i].state # "REJECTED" /\ orders'[i].state # "REJECTED"
             /\ orders'[i].key = orders[i].key
  BY <1>6 DEF Cancelling
<1>7. ASSUME NEW i \in OrderIds, NEW q \in Nat, NEW p \in Nat, OneOrder(i), Filling(i, q, p)
      PROVE  /\ orders[i].state # "REJECTED" /\ orders'[i].state # "REJECTED"
             /\ orders'[i].key = orders[i].key
  BY <1>7 DEF Filling
<1>8. StepForm
  BY StepForms, BookStep DEF BookInv
<1>9. CASE BookKept
  BY <1>3, <1>9 DEF BookKept
<1>10. CASE \E i \in OrderIds : OneOrder(i) /\ (Placing(i) \/ Cancelling(i))
  BY <1>3, <1>4, <1>5, <1>6, <1>10
<1>11. CASE \E i \in OrderIds, q \in Nat, p \in Nat : OneOrder(i) /\ Filling(i, q, p)
  BY <1>5, <1>7, <1>11
<1>12. QED
  BY <1>8, <1>9, <1>10, <1>11 DEF StepForm

\* Two records memory knows the orders of agree.
LEMMA KnownAreSame ==
  ASSUME IInv, NEW a \in Written, NEW b \in Written, KnownAs(a), KnownAs(b)
  PROVE  Same(a, b)
<1> SUFFICES ASSUME a.kind = "order", b.kind = "order" PROVE Same(a, b)
  BY DEF Same
<1>1. a.id \in OrderIds /\ b.id \in OrderIds
  BY WrittenKinds
<1>2. /\ Known(a.id) /\ orders[a.id].key = a.order.key
      /\ orders[a.id].state = "REJECTED" <=> a.order.state = "REJECTED"
      /\ Known(b.id) /\ orders[b.id].key = b.order.key
      /\ orders[b.id].state = "REJECTED" <=> b.order.state = "REJECTED"
  BY DEF KnownAs
<1>3. QED
  BY <1>1, <1>2 DEF IInv, KeysAreRegistered, Same

\* What is recorded is of orders memory knows then.
LEMMA RecordedKnown ==
  ASSUME BookInv, [Step]_vars
  PROVE  /\ Recorded \in Seq(Written)
         /\ \A a \in ToSet(Recorded) : KnownAs(a)'
<1>1. fills \in Seq(Fills) /\ IInv'
  BY BookStep DEF BookInv, IInv, TypeOK
<1>2. CASE BookKept
  <2>1. Recorded = <<>>
    BY <1>1, <1>2, RecordedNothing DEF BookKept
  <2>2. QED
    BY <2>1 DEF ToSet
<1>3. ASSUME NEW i \in OrderIds, OneOrder(i), NEW a, a = OrderRecord(i, orders'[i])
      PROVE  a \in Written /\ KnownAs(a)'
  <2>1. orders'[i].state # "PENDING"
    BY <1>3 DEF OneOrder
  <2>2. a.id = i /\ a.order = orders'[i]
    BY <1>3 DEF OrderRecord
  <2>3. KnownAs(a)'
    BY <2>1, <2>2 DEF KnownAs, Known
  <2>4. QED
    BY <1>3, <2>3, RecordsAreWritten
<1>4. ASSUME NEW i \in OrderIds, OneOrder(i), fills' = fills
      PROVE  /\ Recorded \in Seq(Written)
             /\ \A a \in ToSet(Recorded) : KnownAs(a)'
  <2>1. Recorded = <<OrderRecord(i, orders'[i])>>
    BY <1>1, <1>4, RecordedOrder, RecordsAreWritten
  <2>2. \A x \in Written : <<x>> \in Seq(Written)
    OBVIOUS
  <2>3. ASSUME NEW a \in ToSet(Recorded)
        PROVE  a \in Written /\ KnownAs(a)'
    <3>1. a = OrderRecord(i, orders'[i])
      BY <2>1 DEF ToSet
    <3>2. QED
      BY <1>3, <1>4, <3>1
  <2>4. OrderRecord(i, orders'[i]) \in Written
    BY <1>4, RecordsAreWritten
  <2>5. QED
    BY <2>1, <2>2, <2>3, <2>4
<1>5. ASSUME NEW i \in OrderIds, OneOrder(i), NEW f \in Fills, fills' = Append(fills, f)
      PROVE  /\ Recorded \in Seq(Written)
             /\ \A a \in ToSet(Recorded) : KnownAs(a)'
  <2>1. Recorded = <<OrderRecord(i, orders'[i]), FillRecord(f)>>
    BY <1>1, <1>5, RecordedOrder, RecordsAreWritten
  <2>2. \A x, y \in Written : <<x, y>> \in Seq(Written)
    OBVIOUS
  <2>3. FillRecord(f) \in Written /\ KnownAs(FillRecord(f))'
    <3>1. FillRecord(f).kind # "order"
      BY DEF FillRecord
    <3>2. QED
      BY <3>1, RecordsAreWritten DEF KnownAs
  <2>4. ASSUME NEW a \in ToSet(Recorded)
        PROVE  a \in Written /\ KnownAs(a)'
    <3>1. a = OrderRecord(i, orders'[i]) \/ a = FillRecord(f)
      BY <2>1 DEF ToSet
    <3>2. QED
      BY <1>3, <1>5, <2>3, <3>1
  <2>5. OrderRecord(i, orders'[i]) \in Written
    BY <1>5, RecordsAreWritten
  <2>6. Recorded \in Seq(Written)
    BY ONLY <2>1, <2>2, <2>3, <2>5
  <2>7. QED
    BY <2>4, <2>6
<1>6. CASE \E i \in OrderIds : OneOrder(i) /\ (Placing(i) \/ Cancelling(i))
  BY <1>4, <1>6 DEF Placing, Cancelling
<1>7. CASE \E i \in OrderIds, q \in Nat, p \in Nat : OneOrder(i) /\ Filling(i, q, p)
  BY <1>5, <1>7 DEF Filling
<1>8. QED
  BY <1>1, <1>2, <1>6, <1>7, StepForms DEF StepForm, BookInv

\* The record of an order makes of memory before a step what it is after, but the fill.
LEMMA OrderReplays ==
  ASSUME BookInv, [Step]_vars, NEW i \in OrderIds, OneOrder(i),
         queue' = IF orders[i] = Unknown THEN Append(queue, i) ELSE queue
  PROVE  /\ OrderRecord(i, orders'[i]) \in Written
         /\ ReplayedRecord(Memory, OrderRecord(i, orders'[i]))
              = [orders |-> orders', queue |-> queue', fills |-> fills]
<1>1. /\ orders \in [OrderIds -> OrderType \cup {Unknown}]
      /\ orders' \in [OrderIds -> OrderType \cup {Unknown}]
  BY BookStep DEF BookInv, IInv, TypeOK
<1>2. Memory.orders = orders /\ Memory.queue = queue /\ Memory.fills = fills
  BY DEF Memory
<1> DEFINE r == OrderRecord(i, orders'[i])
<1>3. r.kind # "fill" /\ r.id = i /\ r.order = orders'[i]
  BY DEF OrderRecord
<1>4. orders' = [orders EXCEPT ![i] = orders'[i]]
  BY <1>1 DEF OneOrder
<1> HIDE DEF r
<1>5. ReplayedRecord(Memory, r)
        = [Memory EXCEPT !.orders = [orders EXCEPT ![i] = orders'[i]], !.queue = queue']
  BY <1>2, <1>3 DEF ReplayedRecord
<1>6. [Memory EXCEPT !.orders = [orders EXCEPT ![i] = orders'[i]], !.queue = queue']
        = [orders |-> [orders EXCEPT ![i] = orders'[i]], queue |-> queue', fills |-> fills]
  <2> DEFINE o == [orders EXCEPT ![i] = orders'[i]]
             l == queue'
  <2> HIDE DEF o, l
  <2>1. [Memory EXCEPT !.orders = o, !.queue = l]
          = [[Memory EXCEPT !.orders = o] EXCEPT !.queue = l]
    OBVIOUS
  <2>2. [Memory EXCEPT !.orders = o] = [orders |-> o, queue |-> queue, fills |-> fills]
    BY DEF Memory
  <2>3. [[orders |-> o, queue |-> queue, fills |-> fills] EXCEPT !.queue = l]
          = [orders |-> o, queue |-> l, fills |-> fills]
    OBVIOUS
  <2>4. [Memory EXCEPT !.orders = o, !.queue = l] = [orders |-> o, queue |-> l, fills |-> fills]
    BY ONLY <2>1, <2>2, <2>3
  <2>5. QED
    BY ONLY <2>4 DEF o, l
<1>7. r \in Written
  BY RecordsAreWritten DEF r
<1>8. QED
  BY ONLY <1>4, <1>5, <1>6, <1>7 DEF r

\* A replay of what was recorded before gives, with these, what memory is then.
LEMMA RecordedReplays ==
  ASSUME BookInv, [Step]_vars, NEW rs \in Seq(Written), Replayed(rs) = Memory
  PROVE  Replayed(rs \o Recorded) = Memory'
<1>1. fills \in Seq(Fills) /\ IInv' /\ orders \in [OrderIds -> OrderType \cup {Unknown}]
      /\ orders' \in [OrderIds -> OrderType \cup {Unknown}]
  BY BookStep DEF BookInv, IInv, TypeOK
<1>2. Memory.orders = orders /\ Memory.queue = queue /\ Memory.fills = fills
  BY DEF Memory
<1>3. \A x : rs \o <<x>> = Append(rs, x)
  OBVIOUS
<1>4. CASE BookKept
  <2>1. Recorded = <<>>
    BY <1>1, <1>4, RecordedNothing DEF BookKept
  <2>2. Memory' = Memory /\ rs \o <<>> = rs
    BY <1>4 DEF BookKept, Memory
  <2>3. QED
    BY <2>1, <2>2
<1>5. ASSUME NEW i \in OrderIds, OneOrder(i),
             queue' = IF orders[i] = Unknown THEN Append(queue, i) ELSE queue
      PROVE  /\ OrderRecord(i, orders'[i]) \in Written
             /\ ReplayedRecord(Memory, OrderRecord(i, orders'[i]))
                  = [orders |-> orders', queue |-> queue', fills |-> fills]
  BY <1>5, OrderReplays
<1>6. ASSUME NEW i \in OrderIds, OneOrder(i), fills' = fills,
             queue' = IF orders[i] = Unknown THEN Append(queue, i) ELSE queue
      PROVE  Replayed(rs \o Recorded) = Memory'
  <2> DEFINE r == OrderRecord(i, orders'[i])
  <2>1. Recorded = <<r>>
    BY <1>1, <1>6, RecordedOrder, RecordsAreWritten
  <2>2. r \in Written /\ ReplayedRecord(Memory, r) = [orders |-> orders', queue |-> queue', fills |-> fills]
    BY <1>5, <1>6
  <2> HIDE DEF r
  <2>3. Replayed(Append(rs, r)) = ReplayedRecord(Memory, r)
    BY <2>2, ReplayedOneMore
  <2>4. QED
    BY <1>3, <1>6, <2>1, <2>2, <2>3 DEF Memory
<1>7. ASSUME NEW i \in OrderIds, OneOrder(i), NEW f \in Fills, fills' = Append(fills, f),
             queue' = IF orders[i] = Unknown THEN Append(queue, i) ELSE queue
      PROVE  Replayed(rs \o Recorded) = Memory'
  <2> DEFINE r == OrderRecord(i, orders'[i])
             x == FillRecord(f)
  <2>1. Recorded = <<r, x>>
    BY <1>1, <1>7, RecordedOrder, RecordsAreWritten
  <2>2. r \in Written /\ ReplayedRecord(Memory, r) = [orders |-> orders', queue |-> queue', fills |-> fills]
    BY <1>5, <1>7
  <2>3. x \in Written /\ x.kind = "fill" /\ x.fill = f
    BY RecordsAreWritten DEF FillRecord
  <2> HIDE DEF r, x
  <2>4. rs \o <<r, x>> = Append(Append(rs, r), x) /\ Append(rs, r) \in Seq(Written)
    BY <2>2
  <2>5. Replayed(Append(rs, r)) = ReplayedRecord(Memory, r)
    BY <2>2, ReplayedOneMore
  <2>6. Replayed(Append(Append(rs, r), x)) = ReplayedRecord(Replayed(Append(rs, r)), x)
    BY ONLY <2>3, <2>4, ReplayedOneMore
  <2>7. \A b : ReplayedRecord(b, x) = [b EXCEPT !.fills = Append(b.fills, f)]
    BY <2>3 DEF ReplayedRecord
  <2>8. Replayed(rs \o Recorded)
          = [[orders |-> orders', queue |-> queue', fills |-> fills] EXCEPT !.fills = Append(fills, f)]
    BY ONLY <2>1, <2>2, <2>4, <2>5, <2>6, <2>7
  <2>9. QED
    BY <1>7, <2>8 DEF Memory
<1>8. \A i \in OrderIds : Known(i) <=> orders[i] # Unknown
  BY DEF BookInv, MemoryInv, Known, Unknown
<1>9. CASE \E i \in OrderIds : OneOrder(i) /\ (Placing(i) \/ Cancelling(i))
  BY <1>6, <1>8, <1>9 DEF Placing, Cancelling
<1>10. CASE \E i \in OrderIds, q \in Nat, p \in Nat : OneOrder(i) /\ Filling(i, q, p)
  BY <1>7, <1>8, <1>10 DEF Filling
<1>11. QED
  BY <1>1, <1>4, <1>9, <1>10, StepForms DEF StepForm, BookInv
(***************************************************************************)
(* The broker a start builds.                                              *)
(***************************************************************************)
\* The book in memory is the one adopted from rs.
AdoptedState(rs) ==
  LET b == Adopted(rs)
  IN /\ orders = b.orders
     /\ queue = b.queue
     /\ fills = b.fills
     /\ held = b.held
     /\ cash = b.cash
     /\ keys = b.keys
     /\ problems = b.problems

\* From records that do not contradict each other on intents, adopt builds a book that
\* is right unless it is flagged, and knows the orders of all the records.
AdoptedIsSound ==
  \A rs \in Seq(Written) :
    (\A a, b \in ToSet(rs) : Same(a, b)) /\ AdoptedState(rs) /\ halted \in BOOLEAN /\ quote \in ServedType
      => BookInv /\ Replayed(rs) = Memory /\ \A a \in ToSet(rs) : KnownAs(a)

\* What is adopted, in the words of the invariant.
LEMMA AdoptedParts ==
  ASSUME NEW rs \in Seq(Written), AdoptedState(rs)
  PROVE  /\ Shaped(Memory, rs) /\ Replayed(rs) = Memory
         /\ orders \in [OrderIds -> OrderType \cup {Unknown}] /\ queue \in Seq(OrderIds)
         /\ fills \in Seq(Fills)
         /\ held = [s \in Symbols |-> HeldSum(fills, s)]
         /\ cash = InitialCash - PaidSum(fills)
         /\ keys = [k \in Keys |-> AdoptedKey(orders, queue, k)]
         /\ problems = Discrepant(orders, queue, fills, held)
<1> DEFINE b == Replayed(rs)
<1>1. Shaped(b, rs)
  BY ReplayedShape
<1> HIDE DEF b
<1>2. b \in Books
  BY <1>1 DEF Shaped
<1>3. orders = b.orders /\ queue = b.queue /\ fills = b.fills
  BY DEF AdoptedState, Adopted, b
<1>4. b = Memory
  BY <1>2, <1>3 DEF Books, Memory
<1>5. /\ orders \in [OrderIds -> OrderType \cup {Unknown}] /\ queue \in Seq(OrderIds)
      /\ fills \in Seq(Fills)
  BY <1>2, <1>3 DEF Books
<1>6. held = [s \in Symbols |-> HeldAfter(b.fills, s)]
  BY DEF AdoptedState, Adopted, b
<1>7. held = [s \in Symbols |-> HeldSum(fills, s)]
  BY <1>3, <1>6 DEF HeldAfter, HeldSum
<1>8. cash = InitialCash - SumFunction([n \in DOMAIN b.fills |-> Signed(b.fills[n]) * b.fills[n].price])
  BY DEF AdoptedState, Adopted, b
<1>9. cash = InitialCash - PaidSum(fills)
  BY <1>3, <1>8 DEF PaidSum
<1>10. keys = [k \in Keys |-> AdoptedKey(b.orders, b.queue, k)]
  BY DEF AdoptedState, Adopted, b
<1>11. problems = Discrepant(b.orders, b.queue, b.fills, [s \in Symbols |-> HeldAfter(b.fills, s)])
  BY DEF AdoptedState, Adopted, b
<1>12. keys = [k \in Keys |-> AdoptedKey(orders, queue, k)]
  BY <1>3, <1>10
<1>13. problems = Discrepant(orders, queue, fills, held)
  BY ONLY <1>3, <1>6, <1>11
<1>14. Shaped(Memory, rs) /\ Replayed(rs) = Memory
  BY <1>1, <1>4 DEF b
<1>15. QED
  BY <1>5, <1>7, <1>9, <1>12, <1>13, <1>14

\* A key is adopted for an accepted order that carries it, if the queue has one.
LEMMA AdoptedKeyIsHeld ==
  ASSUME NEW os, NEW q \in Seq(OrderIds), NEW k
  PROVE  \/ /\ AdoptedKey(os, q, k) = NoOrder
            /\ \A n \in DOMAIN q : ~ (os[q[n]].key = k /\ os[q[n]].state # "REJECTED")
         \/ \E n \in DOMAIN q : /\ AdoptedKey(os, q, k) = q[n]
                                /\ os[q[n]].key = k /\ os[q[n]].state # "REJECTED"
<1> DEFINE holders == {n \in DOMAIN q : os[q[n]].key = k /\ os[q[n]].state # "REJECTED"}
<1>1. AdoptedKey(os, q, k) = IF holders = {} THEN NoOrder ELSE q[Max(holders)]
  BY DEF AdoptedKey
<1>2. DOMAIN q = 1 .. Len(q) /\ Len(q) \in Nat
  OBVIOUS
<1>3. holders \in SUBSET (1 .. Len(q))
  BY <1>2
<1>4. CASE holders = {}
  <2>1. AdoptedKey(os, q, k) = NoOrder
    BY ONLY <1>1, <1>4
  <2>2. \A n \in DOMAIN q : ~ (os[q[n]].key = k /\ os[q[n]].state # "REJECTED")
    BY <1>4
  <2>3. QED
    BY <2>1, <2>2
<1>5. CASE holders # {}
  <2>1. Max(holders) \in holders
    <3> HIDE DEF holders
    <3>1. QED
      BY ONLY <1>2, <1>3, <1>5, MaxIsGreatest
  <2>2. AdoptedKey(os, q, k) = q[Max(holders)]
    BY ONLY <1>1, <1>5
  <2>3. \A n \in holders : n \in DOMAIN q /\ os[q[n]].key = k /\ os[q[n]].state # "REJECTED"
    OBVIOUS
  <2> HIDE DEF holders
  <2>4. QED
    BY ONLY <2>1, <2>2, <2>3
<1>6. QED
  BY <1>4, <1>5

\* A sum over executions of one instrument or order is a number.
LEMMA HeldIsInt ==
  ASSUME NEW fs \in Seq(Fills), NEW s
  PROVE  HeldSum(fs, s) \in Int
<1> DEFINE D == {n \in DOMAIN fs : fs[n].symbol = s}
           a == [n \in D |-> Signed(fs[n])]
<1>1. DOMAIN fs = 1 .. Len(fs) /\ Len(fs) \in Nat
  OBVIOUS
<1>2. IsFiniteSet(1 .. Len(fs))
  BY <1>1, FS_Interval
<1>3. IsFiniteSet(D)
  BY <1>1, <1>2, FS_Subset
<1>4. \A n \in D : a[n] \in Int
  <2>1. \A x \in Fills : Signed(x) \in Int
    BY DEF Fills, Signed
  <2>2. \A n \in DOMAIN fs : fs[n] \in Fills
    OBVIOUS
  <2>3. QED
    BY <2>1, <2>2
<1>5. HeldSum(fs, s) = SumFunctionOnSet(a, DOMAIN a) /\ DOMAIN a = D
  BY DEF HeldSum, SumFunction
<1> HIDE DEF a, D
<1>6. QED
  BY <1>3, <1>4, <1>5, SumIsInt

\* An order no execution is of is filled by nothing.
LEMMA NothingFilled ==
  ASSUME NEW fs \in Seq(Fills), NEW i, \A n \in DOMAIN fs : fs[n].order # i
  PROVE  FilledSum(fs, i) = 0
<1> DEFINE D == {n \in DOMAIN fs : fs[n].order = i}
           a == [n \in D |-> fs[n].quantity]
<1>1. D = {}
  OBVIOUS
<1>2. FilledSum(fs, i) = SumFunctionOnSet(a, DOMAIN a) /\ DOMAIN a = D
  BY DEF FilledSum, SumFunction
<1> HIDE DEF a, D
<1>3. FilledSum(fs, i) = SumFunctionOnSet(a, {})
  BY ONLY <1>1, <1>2
<1>4. IsFiniteSet({})
  BY FS_EmptySet
<1>5. SumFunctionOnSet(a, {}) = 0
  BY <1>4, SumUnfold
<1>6. QED
  BY ONLY <1>3, <1>5

\* The order a record is of is in memory, as a record says.
LEMMA AdoptedOrders ==
  ASSUME NEW rs \in Seq(Written), Shaped(Memory, rs)
  PROVE  /\ \A i \in OrderIds : orders[i] # Unknown =>
              /\ OrderRecord(i, orders[i]) \in ToSet(rs)
              /\ OrderRecord(i, orders[i]) \in Written
              /\ orders[i].state # "PENDING" /\ SoundOrder(orders[i])
         /\ \A i \in OrderIds : Known(i) <=> orders[i] # Unknown
         /\ \A a \in ToSet(rs) : a.kind = "order" => a.id \in OrderIds /\ Known(a.id)
         /\ \A i \in OrderIds : Known(i) <=> i \in ToSet(queue)
         /\ \A m, n \in DOMAIN queue : queue[m] = queue[n] => m = n
<1>1. Memory.orders = orders /\ Memory.queue = queue
  BY DEF Memory
<1>2. ToSet(rs) \subseteq Written
  BY DEF ToSet
<1>3. ASSUME NEW i \in OrderIds, orders[i] # Unknown
      PROVE  /\ OrderRecord(i, orders[i]) \in ToSet(rs)
             /\ OrderRecord(i, orders[i]) \in Written
             /\ orders[i].state # "PENDING" /\ SoundOrder(orders[i])
  <2> DEFINE r == OrderRecord(i, orders[i])
  <2>1. r \in ToSet(rs)
    BY <1>1, <1>3 DEF Shaped
  <2>2. r \in Written
    BY <1>2, <2>1
  <2>3. r.kind = "order" /\ r.order = orders[i]
    BY DEF OrderRecord
  <2> HIDE DEF r
  <2>4. r.order.state # "PENDING" /\ SoundOrder(r.order)
    BY <2>2, <2>3 DEF Written
  <2>5. QED
    BY <2>1, <2>2, <2>3, <2>4 DEF r
<1>4. ASSUME NEW i \in OrderIds PROVE Known(i) <=> orders[i] # Unknown
  BY <1>3 DEF Known, Unknown
<1>5. ASSUME NEW a \in ToSet(rs), a.kind = "order" PROVE a.id \in OrderIds /\ Known(a.id)
  <2>1. a.id \in OrderIds
    BY <1>2, <1>5, WrittenKinds DEF FillRecord
  <2>2. orders[a.id] # Unknown
    BY <1>1, <1>5 DEF Shaped
  <2>3. QED
    BY <1>4, <2>1, <2>2
<1>6. \A i \in OrderIds : orders[i] # Unknown <=> i \in ToSet(queue)
  BY <1>1 DEF Shaped
<1>7. \A m, n \in DOMAIN queue : queue[m] = queue[n] => m = n
  BY <1>1 DEF Shaped
<1>8. QED
  BY <1>3, <1>4, <1>5, <1>6, <1>7

\* The statement above holds.
LEMMA AdoptionIsSound == AdoptedIsSound
<1> SUFFICES ASSUME NEW rs \in Seq(Written), \A a, b \in ToSet(rs) : Same(a, b),
                    AdoptedState(rs), halted \in BOOLEAN, quote \in ServedType
             PROVE  BookInv /\ Replayed(rs) = Memory /\ \A a \in ToSet(rs) : KnownAs(a)
  BY DEF AdoptedIsSound
<1>0. /\ \A a, b \in ToSet(rs) : Same(a, b)
      /\ halted \in BOOLEAN /\ quote \in ServedType
  OBVIOUS
<1>1. /\ Shaped(Memory, rs) /\ Replayed(rs) = Memory
      /\ orders \in [OrderIds -> OrderType \cup {Unknown}] /\ queue \in Seq(OrderIds)
      /\ fills \in Seq(Fills)
      /\ held = [s \in Symbols |-> HeldSum(fills, s)]
      /\ cash = InitialCash - PaidSum(fills)
      /\ keys = [k \in Keys |-> AdoptedKey(orders, queue, k)]
      /\ problems = Discrepant(orders, queue, fills, held)
  BY AdoptedParts
<1>2. /\ \A i \in OrderIds : orders[i] # Unknown =>
           /\ OrderRecord(i, orders[i]) \in ToSet(rs)
           /\ OrderRecord(i, orders[i]) \in Written
           /\ orders[i].state # "PENDING" /\ SoundOrder(orders[i])
      /\ \A i \in OrderIds : Known(i) <=> orders[i] # Unknown
      /\ \A a \in ToSet(rs) : a.kind = "order" => a.id \in OrderIds /\ Known(a.id)
      /\ \A i \in OrderIds : Known(i) <=> i \in ToSet(queue)
      /\ \A m, n \in DOMAIN queue : queue[m] = queue[n] => m = n
  BY ONLY <1>1, AdoptedOrders
<1>3. DOMAIN queue = 1 .. Len(queue) /\ \A n \in DOMAIN queue : queue[n] \in OrderIds /\ Known(queue[n])
  BY <1>1, <1>2 DEF ToSet
<1>4. ASSUME NEW i \in OrderIds, NEW j \in OrderIds, Known(i), Known(j),
             orders[i].key = orders[j].key, orders[i].key # NoKey,
             orders[i].state # "REJECTED", orders[j].state # "REJECTED"
      PROVE  i = j
  <2> DEFINE a == OrderRecord(i, orders[i])
             b == OrderRecord(j, orders[j])
  <2>1. a \in ToSet(rs) /\ b \in ToSet(rs)
    BY <1>2, <1>4
  <2>2. a.kind = "order" /\ a.id = i /\ a.order = orders[i]
        /\ b.kind = "order" /\ b.id = j /\ b.order = orders[j]
    BY DEF OrderRecord
  <2> HIDE DEF a, b
  <2>3. Same(a, b)
    BY ONLY <1>0, <2>1
  <2>4. QED
    BY ONLY <1>4, <2>2, <2>3 DEF Same
<1>5. ASSUME NEW k \in Keys
      PROVE  \/ /\ keys[k] = NoOrder
                /\ \A i \in OrderIds : ~ (Known(i) /\ orders[i].key = k /\ orders[i].state # "REJECTED")
             \/ /\ keys[k] \in OrderIds /\ Known(keys[k]) /\ orders[keys[k]].key = k
                /\ orders[keys[k]].state # "REJECTED"
  <2>1. keys[k] = AdoptedKey(orders, queue, k)
    BY <1>1
  <2>2. \A i \in OrderIds : Known(i) => \E n \in DOMAIN queue : queue[n] = i
    BY <1>2 DEF ToSet
  <2>3. \/ /\ AdoptedKey(orders, queue, k) = NoOrder
           /\ \A n \in DOMAIN queue : ~ (orders[queue[n]].key = k /\ orders[queue[n]].state # "REJECTED")
        \/ \E n \in DOMAIN queue : /\ AdoptedKey(orders, queue, k) = queue[n]
                                   /\ orders[queue[n]].key = k /\ orders[queue[n]].state # "REJECTED"
    BY ONLY <1>1, AdoptedKeyIsHeld
  <2>4. QED
    BY ONLY <1>3, <2>1, <2>2, <2>3
<1>6. IInv
  <2>1. held \in [Symbols -> Int]
    BY <1>1, HeldIsInt
  <2>2. cash \in Int
    BY <1>1, PaidIsInt, BrokerConstants
  <2>3. keys \in [Keys -> OrderIds \cup {NoOrder}]
    BY <1>1, <1>5
  <2>4. problems \in BOOLEAN
    <3>1. Discrepant(orders, queue, fills, held) \in BOOLEAN
      BY Zenon DEF Discrepant
    <3>2. QED
      BY <1>1, <3>1
  <2>5. TypeOK
    BY <1>0, <1>1, <2>1, <2>2, <2>3, <2>4 DEF TypeOK
  <2>6. StateMatchesFilled
    <3>1. ASSUME NEW i \in OrderIds PROVE SoundOrder(orders[i])
      <4>1. CASE orders[i] = Unknown
        BY <4>1 DEF Unknown, SoundOrder
      <4>2. QED
        BY <1>2, <4>1
    <3>2. QED
      BY <3>1 DEF StateMatchesFilled, SoundOrder
  <2>7. KeysAreRegistered
    <3> SUFFICES ASSUME NEW i \in OrderIds, orders[i].key # NoKey, Known(i), orders[i].state # "REJECTED"
                 PROVE  keys[orders[i].key] = i
      BY DEF KeysAreRegistered
    <3>1. orders[i].key \in Keys
      BY <1>1, <1>2 DEF OrderType
    <3>2. QED
      BY <1>4, <1>5, <3>1
  <2>8. QED
    BY <2>5, <2>6, <2>7 DEF IInv
<1>7. ~problems => /\ \A n \in DOMAIN fills : fills[n].order \in ToSet(queue)
                   /\ \A i \in ToSet(queue) : FilledAfter(fills, i) = orders[i].filled
  BY <1>1 DEF Discrepant
<1>8. ASSUME NEW n \in DOMAIN fills PROVE fills[n].order \in OrderIds
  <2>1. fills \in Seq(Fills)
    BY <1>1
  <2>2. fills[n] \in Fills
    BY ONLY <2>1
  <2>3. QED
    BY ONLY <2>2 DEF Fills
<1>9. MemoryInv
  <2>1. \A i \in OrderIds : Known(i) \/ orders[i] = Unknown
    BY <1>2
  <2>2. \A k \in Keys : keys[k] # NoOrder =>
          Known(keys[k]) /\ orders[keys[k]].key = k /\ orders[keys[k]].state # "REJECTED"
    BY <1>5
  <2>3. ~problems => \A n \in DOMAIN fills : Known(fills[n].order)
    BY <1>2, <1>7, <1>8
  <2>4. QED
    BY <1>2, <2>1, <2>2, <2>3 DEF MemoryInv
<1>10. PositionsAgree
  BY <1>1 DEF PositionsAgree
<1>11. ASSUME ~problems PROVE BooksAgree
  <2>1. ASSUME NEW i \in OrderIds PROVE orders[i].filled = FilledSum(fills, i)
    <3>1. CASE i \in ToSet(queue)
      BY <1>7, <1>11, <3>1 DEF FilledAfter, FilledSum
    <3>2. CASE i \notin ToSet(queue)
      <4>1. orders[i] = Unknown /\ \A n \in DOMAIN fills : fills[n].order # i
        BY <1>2, <1>7, <1>11, <3>2
      <4>2. FilledSum(fills, i) = 0
        BY <1>1, <4>1, NothingFilled
      <4>3. QED
        BY <4>1, <4>2 DEF Unknown
    <3>3. QED
      BY <3>1, <3>2
  <2>2. QED
    BY <1>10, <2>1 DEF BooksAgree, PositionsAgree, FilledSum, HeldSum, PaidSum
<1>12. ASSUME NEW a \in ToSet(rs) PROVE KnownAs(a)
  <2> SUFFICES ASSUME a.kind = "order" PROVE KnownAs(a)
    BY DEF KnownAs
  <2>1. a.id \in OrderIds /\ Known(a.id)
    BY <1>2
  <2> DEFINE b == OrderRecord(a.id, orders[a.id])
  <2>2. b \in ToSet(rs)
    BY <1>2, <2>1
  <2>3. b.kind = "order" /\ b.id = a.id /\ b.order = orders[a.id]
    BY DEF OrderRecord
  <2> HIDE DEF b
  <2>4. Same(a, b)
    BY <1>0, <2>2
  <2>5. /\ orders[a.id].key = a.order.key
        /\ orders[a.id].state = "REJECTED" <=> a.order.state = "REJECTED"
    BY <2>3, <2>4 DEF Same
  <2>6. QED
    BY <2>1, <2>5 DEF KnownAs
<1>13. QED
  BY <1>1, <1>6, <1>9, <1>10, <1>11, <1>12 DEF BookInv
(***************************************************************************)
(* The invariant of the broker and its journal.                            *)
(***************************************************************************)
StoreInv ==
  /\ FileOK(file)
  /\ unwritten \in Seq(Written)
  /\ up \in BOOLEAN /\ behind \in BOOLEAN /\ flagged \in BOOLEAN
  /\ placed \in SUBSET OrderIds
  /\ ~up => unwritten = <<>>

\* The records of the journal do not contradict each other on intents, and while the
\* program runs it knows the orders of all of them.
RecordsInv ==
  /\ \A a, b \in RecordsOf(file) : Same(a, b)
  /\ up => \A a \in RecordsOf(file) \cup ToSet(unwritten) : KnownAs(a)

\* Memory is what a replay gives once the outstanding records are written.
RebuildInv ==
  up /\ ~behind /\ Intact(file) => Replayed(ReadAll(file) \o unwritten) = Memory

\* An order a caller was told of has a record.
PlacedInv ==
  Intact(file) =>
    \A i \in placed : \E r \in RecordsOf(file) :
      r.kind = "order" /\ r.id = i /\ r.order.state # "REJECTED"

JInv == StoreInv /\ BookInv /\ RecordsInv /\ RebuildInv /\ PlacedInv

\* What can be read from a file are records of the broker.
LEMMA RecordsWritten ==
  ASSUME NEW f, FileOK(f)
  PROVE  RecordsOf(f) \subseteq Written
BY ParsedIsWritten DEF RecordsOf

\* The journal of a program that was never started is empty.
LEMMA InitJournal == JInit => JInv
<1> SUFFICES ASSUME JInit PROVE JInv
  OBVIOUS
<1>1. Blank /\ halted \in BOOLEAN
  BY DEF JInit, Init, Blank
<1>2. BookInv
  BY <1>1, BlankBook DEF BlankIsSound
<1>3. file = <<>> /\ unwritten = <<>> /\ up = TRUE /\ behind = FALSE /\ flagged = FALSE /\ placed = {}
  BY DEF JInit
<1>4. FileOK(<<>>) /\ RecordsOf(<<>>) = {} /\ ReadAll(<<>>) \o <<>> = <<>>
  <2>1. FileOK(<<>>)
    BY DEF FileOK
  <2>2. RecordsOf(<<>>) = {}
    BY DEF RecordsOf
  <2>3. ReadAll(<<>>) = <<>>
    BY DEF ReadAll
  <2>4. <<>> \o <<>> = <<>>
    OBVIOUS
  <2>5. QED
    BY <2>1, <2>2, <2>3, <2>4
<1>5. StoreInv
  <2>1. FileOK(file)
    BY ONLY <1>3, <1>4
  <2>2. unwritten \in Seq(Written) /\ placed \in SUBSET OrderIds
    BY ONLY <1>3
  <2>3. up \in BOOLEAN /\ behind \in BOOLEAN /\ flagged \in BOOLEAN
    BY ONLY <1>3
  <2>4. QED
    BY ONLY <1>3, <2>1, <2>2, <2>3 DEF StoreInv
<1>6. RecordsInv
  <2>1. ToSet(unwritten) = {} /\ RecordsOf(file) = {}
    BY <1>3, <1>4 DEF ToSet
  <2>2. QED
    BY <2>1 DEF RecordsInv
<1>7. RebuildInv
  <2>1. Memory = NothingReplayed
    BY <1>1 DEF Memory, NothingReplayed, Blank
  <2>2. QED
    BY <1>3, <1>4, <2>1, ReplayedNothing DEF RebuildInv
<1>8. PlacedInv
  BY <1>3 DEF PlacedInv
<1>9. QED
  BY <1>2, <1>5, <1>6, <1>7, <1>8 DEF JInv

\* Only the broker's own variables change in a step of it.
LEMMA OperationIsStep == Operation => [Step]_vars
<1>1. Operation => [Next]_vars
  BY DEF Operation, Next
<1>2. QED
  BY <1>1, NextIsStep

\* None of them is an execution reported from outside.
LEMMA OperationIsQuiet == Operation => [QuietStep]_vars
BY BrokerConstants DEF Operation, Submit, QuietStep

\* A step of the broker leaves its records outstanding.
LEMMA BrokerStepKeeps ==
  ASSUME JInv, BrokerStep
  PROVE  JInv'
<1>1. /\ up /\ unwritten = <<>> /\ unwritten' = Recorded
      /\ UNCHANGED <<file, up, crashes, refusals, behind, flagged, placed>>
      /\ [Step]_vars
  BY OperationIsStep DEF BrokerStep
<1>2. StoreInv /\ BookInv /\ RecordsInv /\ RebuildInv /\ PlacedInv
  BY DEF JInv
<1>3. BookInv'
  BY ONLY <1>1, <1>2, BookStep
<1>4. /\ Recorded \in Seq(Written)
      /\ \A a \in ToSet(Recorded) : KnownAs(a)'
  BY ONLY <1>1, <1>2, RecordedKnown
<1>5. StoreInv'
  BY <1>1, <1>2, <1>4 DEF StoreInv
<1>6. RecordsInv'
  <2>1. RecordsOf(file) \subseteq Written
    BY <1>2, RecordsWritten DEF StoreInv
  <2>2. \A a \in RecordsOf(file) : KnownAs(a)
    BY <1>1, <1>2 DEF RecordsInv
  <2>3. ASSUME NEW a \in RecordsOf(file) PROVE KnownAs(a)'
    <3>1. a \in Written /\ KnownAs(a)
      BY <2>1, <2>2
    <3>2. QED
      BY ONLY <1>1, <1>2, <3>1, KnownAsStep
  <2>4. \A a \in RecordsOf(file') \cup ToSet(unwritten') : KnownAs(a)'
    BY <1>1, <1>4, <2>3
  <2>5. \A a, b \in RecordsOf(file') : Same(a, b)
    BY <1>1, <1>2 DEF RecordsInv
  <2>6. QED
    BY <2>4, <2>5 DEF RecordsInv
<1>7. RebuildInv'
  <2> SUFFICES ASSUME up', ~behind', Intact(file')
               PROVE  Replayed(ReadAll(file') \o unwritten') = Memory'
    BY DEF RebuildInv
  <2>1. Intact(file) /\ ~behind
    BY <1>1
  <2>2. Readable(file)
    BY <1>2, <2>1, IntactIsReadable DEF StoreInv
  <2>3. ReadAll(file) \in Seq(Written)
    BY <1>2, <2>2, ReadRecords DEF StoreInv
  <2>4. ReadAll(file) \o <<>> = ReadAll(file)
    BY <2>3
  <2>5. Replayed(ReadAll(file)) = Memory
    BY <1>1, <1>2, <2>1, <2>4 DEF RebuildInv
  <2>6. Replayed(ReadAll(file) \o Recorded) = Memory'
    BY ONLY <1>1, <1>2, <2>3, <2>5, RecordedReplays
  <2>7. QED
    BY <1>1, <2>6
<1>8. PlacedInv'
  BY <1>1, <1>2 DEF PlacedInv
<1>9. QED
  BY <1>3, <1>5, <1>6, <1>7, <1>8 DEF JInv

\* The first outstanding record, and the rest.
LEMMA NextRecord ==
  ASSUME NEW u \in Seq(Written), u # <<>>
  PROVE  /\ Head(u) \in Written /\ Tail(u) \in Seq(Written)
         /\ Head(u) \in ToSet(u) /\ ToSet(Tail(u)) \subseteq ToSet(u)
         /\ Len(u) \in Nat /\ Len(u) > 0 /\ Len(Tail(u)) = Len(u) - 1
         /\ \A rs \in Seq(Written) : Append(rs, Head(u)) \o Tail(u) = rs \o u
<1>1. /\ Len(u) \in Nat /\ Len(u) > 0 /\ DOMAIN u = 1 .. Len(u)
      /\ Head(u) = u[1] /\ 1 \in DOMAIN u
  OBVIOUS
<1>2. /\ Tail(u) \in Seq(Written) /\ Len(Tail(u)) = Len(u) - 1
      /\ DOMAIN Tail(u) = 1 .. Len(u) - 1
      /\ \A n \in 1 .. Len(u) - 1 : Tail(u)[n] = u[n + 1]
  BY <1>1
<1>3. Head(u) \in Written /\ Head(u) \in ToSet(u)
  BY <1>1 DEF ToSet
<1>4. ToSet(Tail(u)) \subseteq ToSet(u)
  BY <1>1, <1>2 DEF ToSet
<1>5. ASSUME NEW rs \in Seq(Written) PROVE Append(rs, Head(u)) \o Tail(u) = rs \o u
  <2> DEFINE p == Append(rs, Head(u)) \o Tail(u)
             q == rs \o u
  <2>1. p \in Seq(Written) /\ q \in Seq(Written)
    BY <1>2, <1>3
  <2>2. Len(rs) \in Nat /\ Len(p) = Len(rs) + Len(u) /\ Len(q) = Len(rs) + Len(u)
    BY <1>1, <1>2, <1>3
  <2>3. ASSUME NEW n \in 1 .. Len(rs) + Len(u) PROVE p[n] = q[n]
    <3>1. CASE n <= Len(rs)
      BY <1>1, <1>2, <1>3, <2>2, <3>1
    <3>2. CASE n = Len(rs) + 1
      BY <1>1, <1>2, <1>3, <2>2, <3>2
    <3>3. CASE n > Len(rs) + 1
      <4> DEFINE k == n - (Len(rs) + 1)
      <4>1. k \in 1 .. Len(u) - 1 /\ n = Len(rs) + 1 + k
        BY <1>1, <2>2, <3>3
      <4>2. p[n] = Tail(u)[k]
        BY <1>2, <1>3, <2>2, <4>1
      <4>3. q[n] = u[k + 1]
        BY <1>1, <2>2, <4>1
      <4>4. QED
        BY <1>2, <4>1, <4>2, <4>3
    <3>4. QED
      BY <2>2, <3>1, <3>2, <3>3
  <2> HIDE DEF p, q
  <2>4. p = q
    BY <2>1, <2>2, <2>3
  <2>5. QED
    BY <2>4 DEF p, q
<1>6. QED
  BY <1>1, <1>2, <1>3, <1>4, <1>5

\* What a write that did not return leaves in the file.
LEMMA InterruptedFile ==
  ASSUME FileOK(file), NEW r \in Written, Interrupted(r)
  PROVE  /\ FileOK(file')
         /\ RecordsOf(file') \subseteq RecordsOf(file) \cup {r}
         /\ Intact(file') => Intact(file) /\ RecordsOf(file) \subseteq RecordsOf(file')
<1>1. r \in Pieces /\ Cut \in Pieces /\ SplitChar \in Pieces
  BY DEF Pieces
<1>2. ASSUME NEW piece \in {r, Cut, SplitChar}, NEW ended \in BOOLEAN, ended => piece = r,
             file' = Appended(file, piece, ended)
      PROVE  /\ FileOK(file')
             /\ RecordsOf(file') \subseteq RecordsOf(file) \cup {r}
             /\ Intact(file') => Intact(file) /\ RecordsOf(file) \subseteq RecordsOf(file')
  <2>1. piece \in Pieces /\ (ended => piece \in Written)
    BY <1>1, <1>2
  <2>2. /\ FileOK(Appended(file, piece, ended))
        /\ RecordsOf(Appended(file, piece, ended)) \subseteq RecordsOf(file) \cup ({piece} \cap Written)
    BY <2>1, AppendedFile
  <2>3. {piece} \cap Written \subseteq {r}
    BY CutIsNotWritten
  <2>4. Intact(Appended(file, piece, ended)) =>
          Intact(file) /\ RecordsOf(file) \subseteq RecordsOf(Appended(file, piece, ended))
    BY IntactAppend
  <2>5. QED
    BY <1>2, <2>2, <2>3, <2>4
<1>3. CASE file' = file
  BY <1>3
<1>4. CASE file' = Appended(file, r, TRUE)
  BY <1>2, <1>4
<1>5. CASE \E piece \in Torn(r) : file' = Appended(file, piece, FALSE)
  BY <1>2, <1>5 DEF Torn
<1>6. QED
  BY <1>3, <1>4, <1>5 DEF Interrupted

\* While the program runs, more records its memory knows change nothing for RecordsInv.
LEMMA RecordsKept ==
  ASSUME up, RecordsInv, IInv, StoreInv, NEW S, S \subseteq RecordsOf(file) \cup ToSet(unwritten)
  PROVE  /\ \A a, b \in S : Same(a, b)
         /\ \A a \in S : KnownAs(a)
<1>1. RecordsOf(file) \subseteq Written
  BY RecordsWritten DEF StoreInv
<1>2. ToSet(unwritten) \subseteq Written
  BY DEF StoreInv, ToSet
<1>3. \A a \in S : a \in Written /\ KnownAs(a)
  BY <1>1, <1>2 DEF RecordsInv
<1>4. \A a, b \in S : Same(a, b)
  BY <1>3, KnownAreSame
<1>5. QED
  BY <1>3, <1>4

\* Nothing of the book changes in memory.
LEMMA UnchangedBook ==
  ASSUME BookInv, UNCHANGED vars
  PROVE  BookInv' /\ Memory' = Memory /\ \A a : KnownAs(a)' <=> KnownAs(a)
<1>1. BookInv'
  BY BookStep DEF vars
<1>2. Memory' = Memory
  BY DEF vars, Memory
<1>3. \A a : KnownAs(a)' <=> KnownAs(a)
  BY DEF vars, KnownAs, Known
<1>4. QED
  BY <1>1, <1>2, <1>3

\* Writing a record to the journal moves it from the outstanding ones to the file.
LEMMA WriteKeeps ==
  ASSUME JInv, WriteRecord
  PROVE  JInv'
<1> DEFINE r == Head(unwritten)
<1>1. /\ up /\ unwritten # <<>>
      /\ file' = Appended(file, r, TRUE) /\ unwritten' = Tail(unwritten)
      /\ placed' = placed \cup Told(r)
      /\ UNCHANGED vars /\ up' = up /\ behind' = behind /\ flagged' = flagged
  BY DEF WriteRecord
<1>2. StoreInv /\ BookInv /\ RecordsInv /\ RebuildInv /\ PlacedInv
  BY DEF JInv
<1>3. FileOK(file) /\ unwritten \in Seq(Written) /\ placed \in SUBSET OrderIds
  BY <1>2 DEF StoreInv
<1>4. /\ r \in Written /\ Tail(unwritten) \in Seq(Written)
      /\ r \in ToSet(unwritten) /\ ToSet(Tail(unwritten)) \subseteq ToSet(unwritten)
      /\ \A rs \in Seq(Written) : Append(rs, r) \o Tail(unwritten) = rs \o unwritten
  BY <1>1, <1>3, NextRecord
<1> HIDE DEF r
<1>5. BookInv' /\ Memory' = Memory /\ \A a : KnownAs(a)' <=> KnownAs(a)
  BY ONLY <1>1, <1>2, UnchangedBook
<1>6. /\ FileOK(file')
      /\ RecordsOf(file') \subseteq RecordsOf(file) \cup {r}
  <2>1. r \in Pieces /\ TRUE \in BOOLEAN
    BY <1>4 DEF Pieces
  <2>2. /\ FileOK(Appended(file, r, TRUE))
        /\ RecordsOf(Appended(file, r, TRUE)) \subseteq RecordsOf(file) \cup ({r} \cap Written)
    BY <1>3, <1>4, <2>1, AppendedFile
  <2>3. QED
    BY <1>1, <2>2
<1>7. StoreInv'
  <2>1. Told(r) \in SUBSET OrderIds
    BY <1>4, WrittenKinds DEF Told
  <2>2. placed' \in SUBSET OrderIds
    BY <1>1, <1>3, <2>1
  <2>3. QED
    BY <1>1, <1>2, <1>4, <1>6, <2>2 DEF StoreInv
<1>8. RecordsInv'
  <2>1. RecordsOf(file') \cup ToSet(unwritten') \subseteq RecordsOf(file) \cup ToSet(unwritten)
    BY <1>1, <1>4, <1>6
  <2>2. IInv
    BY <1>2 DEF BookInv
  <2>3. /\ \A a, b \in RecordsOf(file') \cup ToSet(unwritten') : Same(a, b)
        /\ \A a \in RecordsOf(file') \cup ToSet(unwritten') : KnownAs(a)
    BY ONLY <1>1, <1>2, <2>1, <2>2, RecordsKept
  <2>4. \A a \in RecordsOf(file') \cup ToSet(unwritten') : KnownAs(a)'
    BY <1>5, <2>3
  <2>5. QED
    BY <2>3, <2>4 DEF RecordsInv
<1>9. Intact(file') => /\ Intact(file) /\ RecordsOf(file) \subseteq RecordsOf(file')
                       /\ ReadAll(file') = Append(ReadAll(file), r)
                       /\ ReadAll(file) \in Seq(Written) /\ r \in RecordsOf(file')
  <2> SUFFICES ASSUME Intact(file')
               PROVE  /\ Intact(file) /\ RecordsOf(file) \subseteq RecordsOf(file')
                      /\ ReadAll(file') = Append(ReadAll(file), r)
                      /\ ReadAll(file) \in Seq(Written) /\ r \in RecordsOf(file')
    OBVIOUS
  <2>1. Intact(Appended(file, r, TRUE))
    BY <1>1
  <2>2. /\ Intact(file) /\ RecordsOf(file) \subseteq RecordsOf(Appended(file, r, TRUE))
    BY <1>3, <2>1, IntactAppend
  <2>3. ReadAll(Appended(file, r, TRUE)) = Append(ReadAll(file), r)
    <3>1. TRUE \in BOOLEAN
      OBVIOUS
    <3>2. QED
      BY ONLY <1>3, <1>4, <2>1, <3>1, IntactAppendReads
  <2>4. ReadAll(file) \in Seq(Written)
    BY <1>3, <2>2, IntactIsReadable, ReadRecords
  <2>5. ToSet(ReadAll(file')) = RecordsOf(file')
    BY <1>6, IntactIsReadable, ReadRecords
  <2>6. r \in ToSet(Append(ReadAll(file), r))
    BY <1>4, <2>4, AppendedSet
  <2>7. QED
    BY <1>1, <2>2, <2>3, <2>4, <2>5, <2>6
<1>10. RebuildInv'
  <2> SUFFICES ASSUME up', ~behind', Intact(file')
               PROVE  Replayed(ReadAll(file') \o unwritten') = Memory'
    BY DEF RebuildInv
  <2>1. ReadAll(file') \o unwritten' = ReadAll(file) \o unwritten
    BY <1>1, <1>4, <1>9
  <2>2. Replayed(ReadAll(file) \o unwritten) = Memory
    BY <1>1, <1>2, <1>9 DEF RebuildInv
  <2>3. QED
    BY <1>5, <2>1, <2>2
<1>11. PlacedInv'
  <2> SUFFICES ASSUME Intact(file'), NEW i \in placed'
               PROVE  \E a \in RecordsOf(file') : a.kind = "order" /\ a.id = i /\ a.order.state # "REJECTED"
    BY DEF PlacedInv
  <2>1. CASE i \in placed
    BY <1>2, <1>9, <2>1 DEF PlacedInv
  <2>2. CASE i \in Told(r)
    <3>1. r.kind = "order" /\ r.id = i /\ r.order.state = "OPEN"
      BY <2>2 DEF Told
    <3>2. QED
      BY <1>9, <3>1
  <2>3. QED
    BY <1>1, <2>1, <2>2
<1>12. QED
  BY <1>5, <1>7, <1>8, <1>10, <1>11 DEF JInv

\* A refused write leaves memory ahead of the journal.
LEMMA RefusalKeeps ==
  ASSUME JInv, RefuseWrite
  PROVE  JInv'
<1> DEFINE r == Head(unwritten)
<1>1. /\ up /\ unwritten # <<>> /\ Interrupted(r)
      /\ unwritten' = <<>> /\ quote' = NoQuote /\ behind' = TRUE
      /\ UNCHANGED <<orders, queue, fills, held, cash, keys, problems, halted>>
      /\ up' = up /\ flagged' = flagged /\ placed' = placed
  BY DEF RefuseWrite
<1>2. StoreInv /\ BookInv /\ RecordsInv /\ PlacedInv /\ FileOK(file)
  BY DEF JInv, StoreInv
<1>3. r \in Written /\ r \in ToSet(unwritten)
  BY <1>1, <1>2, NextRecord DEF StoreInv
<1> HIDE DEF r
<1>4. /\ FileOK(file')
      /\ RecordsOf(file') \subseteq RecordsOf(file) \cup {r}
      /\ Intact(file') => Intact(file) /\ RecordsOf(file) \subseteq RecordsOf(file')
  BY ONLY <1>1, <1>2, <1>3, InterruptedFile
<1>5. BookInv'
  <2>1. TypeOK'
    BY <1>1, <1>2, NoQuoteTyped DEF BookInv, IInv, TypeOK
  <2>2. StateMatchesFilled' /\ KeysAreRegistered'
    BY <1>1, <1>2 DEF BookInv, IInv, StateMatchesFilled, KeysAreRegistered, Known
  <2>3. MemoryInv'
    BY <1>1, <1>2 DEF BookInv, MemoryInv, Known
  <2>4. PositionsAgree'
    BY <1>1, <1>2 DEF BookInv, PositionsAgree
  <2>5. (~problems => BooksAgree)'
    BY <1>1, <1>2 DEF BookInv, BooksAgree
  <2>6. QED
    BY <2>1, <2>2, <2>3, <2>4, <2>5 DEF BookInv, IInv
<1>6. StoreInv'
  BY <1>1, <1>2, <1>4 DEF StoreInv
<1>7. RecordsInv'
  <2>1. ToSet(unwritten') = {}
    BY <1>1 DEF ToSet
  <2>2. RecordsOf(file') \subseteq RecordsOf(file) \cup ToSet(unwritten)
    BY <1>3, <1>4
  <2>3. IInv
    BY <1>2 DEF BookInv
  <2>4. /\ \A a, b \in RecordsOf(file') : Same(a, b)
        /\ \A a \in RecordsOf(file') : KnownAs(a)
    BY ONLY <1>1, <1>2, <2>2, <2>3, RecordsKept
  <2>5. \A a : KnownAs(a)' <=> KnownAs(a)
    BY <1>1 DEF KnownAs, Known
  <2>6. QED
    BY <2>1, <2>4, <2>5 DEF RecordsInv
<1>8. RebuildInv'
  BY <1>1 DEF RebuildInv
<1>9. PlacedInv'
  BY <1>1, <1>2, <1>4 DEF PlacedInv
<1>10. QED
  BY <1>5, <1>6, <1>7, <1>8, <1>9 DEF JInv

\* A kill leaves the journal and an empty memory.
LEMMA CrashKeeps ==
  ASSUME JInv, Crash
  PROVE  JInv'
<1> DEFINE r == Head(unwritten)
<1>1. /\ unwritten = <<>> => file' = file
      /\ unwritten # <<>> => Interrupted(r)
  BY DEF Crash
<1>2. /\ up' = FALSE /\ unwritten' = <<>> /\ behind' = FALSE
      /\ halted' = halted /\ flagged' = flagged /\ placed' = placed
  BY DEF Crash
<1>3. StoreInv /\ BookInv /\ RecordsInv /\ PlacedInv /\ FileOK(file) /\ up /\ halted \in BOOLEAN
  BY DEF JInv, StoreInv, BookInv, IInv, TypeOK, Crash
<1>4. BookInv'
  <2>1. Blank' /\ halted' \in BOOLEAN
    BY <1>2, <1>3 DEF Crash, Blank
  <2>2. BlankIsSound'
    BY BlankBook, PTL
  <2>3. QED
    BY <2>1, <2>2 DEF BlankIsSound
<1>5. /\ FileOK(file')
      /\ RecordsOf(file') \subseteq RecordsOf(file) \cup ToSet(unwritten)
      /\ Intact(file') => Intact(file) /\ RecordsOf(file) \subseteq RecordsOf(file')
  <2>1. CASE unwritten = <<>>
    BY <1>1, <1>3, <2>1
  <2>2. CASE unwritten # <<>>
    <3>1. r \in Written /\ r \in ToSet(unwritten)
      BY <1>3, <2>2, NextRecord DEF StoreInv
    <3> HIDE DEF r
    <3>2. Interrupted(r) /\ FileOK(file)
      BY <1>1, <1>3, <2>2
    <3>3. /\ FileOK(file')
          /\ RecordsOf(file') \subseteq RecordsOf(file) \cup {r}
          /\ Intact(file') => Intact(file) /\ RecordsOf(file) \subseteq RecordsOf(file')
      BY ONLY <3>1, <3>2, InterruptedFile
    <3>4. QED
      BY <3>1, <3>3
  <2>3. QED
    BY <2>1, <2>2
<1>6. StoreInv'
  <2>1. up' \in BOOLEAN /\ behind' \in BOOLEAN /\ unwritten' \in Seq(Written)
    <3>1. up' \in BOOLEAN /\ behind' \in BOOLEAN
      BY <1>2, Zenon
    <3>2. <<>> \in Seq(Written)
      OBVIOUS
    <3>3. QED
      BY ONLY <1>2, <3>1, <3>2
  <2>2. flagged' \in BOOLEAN /\ placed' \in SUBSET OrderIds
    BY <1>2, <1>3 DEF StoreInv
  <2>3. QED
    BY ONLY <1>2, <1>5, <2>1, <2>2 DEF StoreInv
<1>7. RecordsInv'
  <2>1. IInv
    BY <1>3 DEF BookInv
  <2>2. \A a, b \in RecordsOf(file') : Same(a, b)
    BY ONLY <1>3, <1>5, <2>1, RecordsKept
  <2>3. QED
    BY <1>2, <2>2 DEF RecordsInv
<1>8. RebuildInv'
  BY <1>2 DEF RebuildInv
<1>9. PlacedInv'
  BY <1>2, <1>3, <1>5 DEF PlacedInv
<1>10. QED
  BY <1>4, <1>6, <1>7, <1>8, <1>9 DEF JInv

\* A start adopts what the journal says.
LEMMA RestartKeeps ==
  ASSUME JInv, Restart
  PROVE  JInv'
<1> DEFINE rs == ReadAll(file)
<1>1. /\ ~up /\ Readable(file) /\ up' = TRUE
      /\ halted' = halted /\ quote' = quote /\ file' = file /\ unwritten' = unwritten
      /\ behind' = behind /\ placed' = placed
      /\ flagged' = (flagged \/ Adopted(rs).problems) /\ problems' = Adopted(rs).problems
  BY DEF Restart
<1>2. /\ StoreInv /\ BookInv /\ RecordsInv /\ PlacedInv /\ FileOK(file)
      /\ unwritten = <<>> /\ halted \in BOOLEAN /\ quote \in ServedType
  BY <1>1 DEF JInv, StoreInv, BookInv, IInv, TypeOK
<1>3. rs \in Seq(Written) /\ ToSet(rs) = RecordsOf(file)
  BY <1>1, <1>2, ReadRecords
<1>4. ASSUME NEW qs, qs = rs PROVE AdoptedState(qs)'
  BY <1>4 DEF Restart, AdoptedState
<1>5. BookInv' /\ Replayed(rs) = Memory' /\ \A a \in ToSet(rs) : KnownAs(a)'
  <2>1. \A a, b \in ToSet(rs) : Same(a, b)
    BY <1>2, <1>3 DEF RecordsInv
  <2>2. AdoptedIsSound'
    BY AdoptionIsSound, PTL
  <2>3. halted' \in BOOLEAN /\ quote' \in ServedType
    BY <1>1, <1>2
  <2>4. \A qs \in Seq(Written) :
          (\A a, b \in ToSet(qs) : Same(a, b)) /\ AdoptedState(qs)' /\ halted' \in BOOLEAN /\ quote' \in ServedType
            => BookInv' /\ Replayed(qs) = Memory' /\ \A a \in ToSet(qs) : KnownAs(a)'
    BY ONLY <2>2 DEF AdoptedIsSound
  <2>5. QED
    BY ONLY <1>3, <1>4, <2>1, <2>3, <2>4
<1>6. StoreInv'
  <2>1. problems' \in BOOLEAN
    BY <1>5 DEF BookInv, IInv, TypeOK
  <2>2. flagged' \in BOOLEAN
    BY <1>1, <1>2, <2>1 DEF StoreInv
  <2>3. QED
    BY <1>1, <1>2, <2>2 DEF StoreInv
<1>7. RecordsInv'
  <2>1. ToSet(unwritten') = {}
    BY <1>1, <1>2 DEF ToSet
  <2>2. \A a, b \in RecordsOf(file') : Same(a, b)
    BY <1>1, <1>2 DEF RecordsInv
  <2>3. \A a \in RecordsOf(file') : KnownAs(a)'
    BY <1>1, <1>3, <1>5
  <2>4. QED
    BY <2>1, <2>2, <2>3 DEF RecordsInv
<1>8. RebuildInv'
  <2>1. rs \o <<>> = rs
    BY <1>3
  <2>2. ReadAll(file') \o unwritten' = rs
    BY <1>1, <1>2, <2>1
  <2>3. QED
    BY <1>5, <2>2 DEF RebuildInv
<1>9. PlacedInv'
  BY <1>1, <1>2 DEF PlacedInv
<1>10. QED
  BY <1>5, <1>6, <1>7, <1>8, <1>9 DEF JInv

\* Nothing recorded changes: the invariant stays.
LEMMA BesidesJournal ==
  ASSUME JInv, [Step]_vars, orders' = orders, queue' = queue, fills' = fills,
         UNCHANGED <<file, unwritten, up, behind, flagged, placed>>
  PROVE  JInv'
<1>1. /\ StoreInv /\ BookInv /\ RecordsInv /\ RebuildInv /\ PlacedInv
      /\ UNCHANGED <<file, unwritten, up, behind, flagged, placed>>
      /\ [Step]_vars
  BY DEF JInv
<1>2. BookInv'
  BY ONLY <1>1, BookStep
<1>3. Memory' = Memory /\ \A a : KnownAs(a)' <=> KnownAs(a)
  BY DEF Memory, KnownAs, Known
<1>4. StoreInv'
  BY <1>1 DEF StoreInv
<1>5. RecordsInv'
  BY <1>1, <1>3 DEF RecordsInv
<1>6. RebuildInv'
  BY <1>1, <1>3 DEF RebuildInv
<1>7. PlacedInv'
  BY <1>1 DEF PlacedInv
<1>8. QED
  BY <1>2, <1>4, <1>5, <1>6, <1>7 DEF JInv

\* Every step keeps the invariant.
LEMMA JournalStep ==
  ASSUME JInv, [JNext]_jvars
  PROVE  JInv'
<1>1. CASE BrokerStep
  BY <1>1, BrokerStepKeeps
<1>2. CASE WriteRecord
  BY <1>2, WriteKeeps
<1>3. CASE RefuseWrite
  BY <1>3, RefusalKeeps
<1>4. CASE Crash
  BY <1>4, CrashKeeps
<1>5. CASE Restart
  BY <1>5, RestartKeeps
<1>6. CASE Switch
  <2>1. [Step]_vars
    BY <1>6 DEF Switch, Step
  <2>2. /\ orders' = orders /\ queue' = queue /\ fills' = fills
        /\ UNCHANGED <<file, unwritten, up, behind, flagged, placed>>
    BY <1>6 DEF Switch, Engage, Release
  <2>3. QED
    BY <2>1, <2>2, BesidesJournal
<1>7. CASE UNCHANGED jvars
  BY <1>7, BesidesJournal DEF jvars, vars
<1>8. QED
  BY <1>1, <1>2, <1>3, <1>4, <1>5, <1>6, <1>7 DEF JNext

\* The invariant holds in every run of the program.
LEMMA JournalInvariance == JSpec => []JInv
BY InitJournal, JournalStep, PTL DEF JSpec

\* A book that is not flagged is right, however many kills, refused writes and torn lines
\* it went through (adopt).
THEOREM RestartedBookIsSound == JSpec => []UnflaggedBookIsSound
<1>1. JInv => UnflaggedBookIsSound
  <2> SUFFICES ASSUME JInv, up, ~problems
               PROVE  StateMatchesFilled /\ OneOrderPerIntent /\ BooksAgree
    BY DEF UnflaggedBookIsSound
  <2>1. StateMatchesFilled /\ KeysAreRegistered /\ BooksAgree
    BY DEF JInv, BookInv, IInv
  <2>2. OneOrderPerIntent
    BY <2>1 DEF KeysAreRegistered, OneOrderPerIntent
  <2>3. QED
    BY <2>1, <2>2
<1>2. QED
  BY <1>1, JournalInvariance, PTL

\* A torn record costs itself only, as long as it was not cut inside a character and nothing
\* is appended after it: the journal can be read, and the orders callers were told of are
\* there (read_all, record_order).
THEOREM TornRecordIsSurvived == JSpec => []TornTailCostsOneRecord
<1>1. JInv => TornTailCostsOneRecord
  <2> SUFFICES ASSUME JInv, Intact(file)
               PROVE  Readable(file) /\ (up => AllPlacedKnown)
    BY DEF TornTailCostsOneRecord
  <2>1. FileOK(file) /\ RecordsInv /\ PlacedInv
    BY DEF JInv, StoreInv
  <2>2. Readable(file)
    BY <2>1, IntactIsReadable
  <2>3. ASSUME up, NEW i \in placed PROVE Known(i) /\ orders[i].state # "REJECTED"
    <3>1. PICK r \in RecordsOf(file) : r.kind = "order" /\ r.id = i /\ r.order.state # "REJECTED"
      BY <2>1 DEF PlacedInv
    <3>2. KnownAs(r)
      BY <2>1, <2>3 DEF RecordsInv
    <3>3. QED
      BY <3>1, <3>2 DEF KnownAs
  <2>4. QED
    BY <2>2, <2>3 DEF AllPlacedKnown
<1>2. QED
  BY <1>1, JournalInvariance, PTL

\* The key a start adopts is the one memory holds.
LEMMA AdoptedKeyIsKept ==
  ASSUME BookInv, NEW k \in Keys
  PROVE  AdoptedKey(orders, queue, k) = keys[k]
<1>1. /\ orders \in [OrderIds -> OrderType \cup {Unknown}] /\ queue \in Seq(OrderIds)
      /\ keys \in [Keys -> OrderIds \cup {NoOrder}]
      /\ KeysAreRegistered /\ MemoryInv
  BY DEF BookInv, IInv, TypeOK
<1>2. /\ \A i \in OrderIds : Known(i) <=> i \in ToSet(queue)
      /\ keys[k] # NoOrder =>
           Known(keys[k]) /\ orders[keys[k]].key = k /\ orders[keys[k]].state # "REJECTED"
  BY <1>1 DEF MemoryInv
<1>3. k # NoKey
  BY BrokerConstants
<1>4. /\ \A n \in DOMAIN queue : queue[n] \in OrderIds /\ Known(queue[n])
      /\ \A i \in OrderIds : Known(i) => \E n \in DOMAIN queue : queue[n] = i
  BY <1>1, <1>2 DEF ToSet
<1>5. \/ /\ AdoptedKey(orders, queue, k) = NoOrder
         /\ \A n \in DOMAIN queue : ~ (orders[queue[n]].key = k /\ orders[queue[n]].state # "REJECTED")
      \/ \E n \in DOMAIN queue : /\ AdoptedKey(orders, queue, k) = queue[n]
                                 /\ orders[queue[n]].key = k /\ orders[queue[n]].state # "REJECTED"
  BY ONLY <1>1, AdoptedKeyIsHeld
<1>6. CASE \E n \in DOMAIN queue : /\ AdoptedKey(orders, queue, k) = queue[n]
                                   /\ orders[queue[n]].key = k /\ orders[queue[n]].state # "REJECTED"
  BY <1>1, <1>3, <1>4, <1>6 DEF KeysAreRegistered
<1>7. CASE /\ AdoptedKey(orders, queue, k) = NoOrder
           /\ \A n \in DOMAIN queue : ~ (orders[queue[n]].key = k /\ orders[queue[n]].state # "REJECTED")
  BY <1>1, <1>2, <1>4, <1>7
<1>8. QED
  BY <1>5, <1>6, <1>7

\* Restarting loses nothing, if no record was ever appended to a torn one or cut inside a
\* character: once what is outstanding is written, and if this run had no write refused, a
\* replay of the journal rebuilds the book in memory, with its keys, its queue and its cash
\* (record_order, record_fill, replay, adopt).
THEOREM RestartRebuildsBook == JSpec => []ReplayRebuildsBook
<1>1. JInv => ReplayRebuildsBook
  <2> DEFINE rs == ReadAll(file)
             b == Adopted(rs)
  <2> SUFFICES ASSUME JInv, Settled, ~behind, Intact(file)
               PROVE  /\ b.orders = orders /\ b.queue = queue /\ b.fills = fills
                      /\ b.held = held /\ b.cash = cash /\ b.keys = keys
                      /\ b.problems => problems \/ \E s \in Symbols : held[s] < 0
    BY DEF ReplayRebuildsBook
  <2>1. FileOK(file) /\ BookInv /\ RebuildInv /\ up /\ unwritten = <<>>
    BY DEF JInv, StoreInv, Settled
  <2>2. rs \in Seq(Written)
    BY <2>1, IntactIsReadable, ReadRecords
  <2>3. Replayed(rs) = Memory
    <3>1. rs \o <<>> = rs
      BY <2>2
    <3>2. QED
      BY <2>1, <3>1 DEF RebuildInv
  <2>4. /\ Replayed(rs).orders = orders /\ Replayed(rs).queue = queue /\ Replayed(rs).fills = fills
    BY <2>3 DEF Memory
  <2> DEFINE heldThen == [s \in Symbols |-> HeldAfter(fills, s)]
  <2> HIDE DEF rs
  <2>5. /\ b.orders = orders /\ b.queue = queue /\ b.fills = fills
        /\ b.held = heldThen
        /\ b.cash = InitialCash - PaidSum(fills)
        /\ b.keys = [k \in Keys |-> AdoptedKey(orders, queue, k)]
        /\ b.problems = Discrepant(orders, queue, fills, heldThen)
    BY <2>4 DEF Adopted, PaidSum
  <2> HIDE DEF b
  <2>6. heldThen = held
    <3>1. held \in [Symbols -> Int] /\ \A s \in Symbols : held[s] = HeldSum(fills, s)
      BY <2>1 DEF BookInv, IInv, TypeOK, PositionsAgree
    <3>2. QED
      BY <3>1 DEF HeldAfter, HeldSum
  <2> HIDE DEF heldThen
  <2>7. b.cash = cash
    BY <2>1, <2>5 DEF BookInv, PositionsAgree
  <2>8. b.keys = keys
    <3>1. keys \in [Keys -> OrderIds \cup {NoOrder}]
      BY <2>1 DEF BookInv, IInv, TypeOK
    <3>2. \A k \in Keys : AdoptedKey(orders, queue, k) = keys[k]
      BY <2>1, AdoptedKeyIsKept
    <3>3. QED
      BY <2>5, <3>1, <3>2
  <2>9. ASSUME b.problems, ~problems PROVE \E s \in Symbols : held[s] < 0
    <3>1. /\ MemoryInv /\ BooksAgree /\ fills \in Seq(Fills) /\ queue \in Seq(OrderIds)
      BY <2>1, <2>9 DEF BookInv, IInv, TypeOK
    <3>2. ASSUME NEW n \in DOMAIN fills PROVE fills[n].order \in ToSet(queue)
      <4>1. fills[n] \in Fills
        BY ONLY <3>1
      <4>2. fills[n].order \in OrderIds
        BY ONLY <4>1 DEF Fills
      <4>3. QED
        BY <2>9, <3>1, <4>2 DEF MemoryInv
    <3>3. ASSUME NEW i \in ToSet(queue) PROVE FilledAfter(fills, i) = orders[i].filled
      <4>1. i \in OrderIds
        BY <3>1 DEF ToSet
      <4>2. QED
        BY <3>1, <4>1 DEF BooksAgree, FilledAfter
    <3>4. Discrepant(orders, queue, fills, held)
      BY <2>5, <2>6, <2>9
    <3>5. QED
      BY <3>2, <3>3, <3>4 DEF Discrepant
  <2>10. QED
    BY <2>5, <2>6, <2>7, <2>8, <2>9
<1>2. QED
  BY <1>1, JournalInvariance, PTL

(***************************************************************************)
(* What a restored book covers.                                            *)
(***************************************************************************)
\* The executions of an order never exceed what it says is filled.
NeverAhead(b) == \A i \in OrderIds : FilledSum(b.fills, i) <= b.orders[i].filled

\* Some order says more than its executions: the record of one was lost.
Lagging(b) == \E i \in OrderIds : FilledSum(b.fills, i) < b.orders[i].filled

FillsKnown(b) == \A n \in DOMAIN b.fills : b.orders[b.fills[n].order] # Unknown

\* The shares and the cash that are left after the fills cover the orders.
Covers(b) ==
  LET working == {i \in OrderIds : b.orders[i].state \in WorkingStates}
      left(i) == b.orders[i].quantity - b.orders[i].filled
      selling(s) == {i \in working : b.orders[i].side = "SELL" /\ b.orders[i].symbol = s}
      buying == {i \in working : b.orders[i].side = "BUY" /\ b.orders[i].limit # NoLimit}
  IN /\ \A s \in Symbols :
          HeldSum(b.fills, s) >= SumFunction([i \in selling(s) |-> left(i)])
     /\ EnforceCash =>
          InitialCash - PaidSum(b.fills) >= SumFunction([i \in buying |-> left(i) * b.orders[i].limit])
     /\ EnforceCash =>
          \A i \in working : b.orders[i].side = "BUY" => b.orders[i].limit # NoLimit

\* A book covers its orders unless it lags, which it does if it was ever flagged.
Fair(b, flag) ==
  /\ NeverAhead(b) /\ FillsKnown(b)
  /\ Lagging(b) \/ Covers(b)
  /\ flag => Lagging(b)

\* As the broker itself takes the sums.
CoversMeaning == PositionsAgree => (Covers(Memory) <=> SharesCovered /\ BuysAreLimited /\ CashSuffices)

\* The broker's sums are those.
LEMMA MeaningOfCovers == CoversMeaning
<1> SUFFICES ASSUME PositionsAgree
             PROVE  Covers(Memory) <=> SharesCovered /\ BuysAreLimited /\ CashSuffices
  BY DEF CoversMeaning
<1>1. Memory.orders = orders /\ Memory.fills = fills
  BY DEF Memory
<1>2. \A s \in Symbols :
        SumFunction([i \in {i \in {i \in OrderIds : orders[i].state \in WorkingStates} :
                              orders[i].side = "SELL" /\ orders[i].symbol = s}
                       |-> orders[i].quantity - orders[i].filled]) = CommittedShares(s)
  <2> TAKE s \in Symbols
  <2> DEFINE S == {i \in {i \in OrderIds : orders[i].state \in WorkingStates} :
                     orders[i].side = "SELL" /\ orders[i].symbol = s}
             T == {i \in OrderIds : Working(i) /\ orders[i].side = "SELL" /\ orders[i].symbol = s}
  <2>1. S = T
    BY DEF Working
  <2>2. [i \in T |-> orders[i].quantity - orders[i].filled] = [i \in T |-> Remaining(i)]
    BY DEF Remaining
  <2>3. CommittedShares(s) = SumFunction([i \in T |-> Remaining(i)])
    BY DEF CommittedShares
  <2> HIDE DEF S, T
  <2>4. SumFunction([i \in S |-> orders[i].quantity - orders[i].filled]) = CommittedShares(s)
    BY ONLY <2>1, <2>2, <2>3
  <2>5. QED
    BY <2>4 DEF S
<1>3. SumFunction([i \in {i \in {i \in OrderIds : orders[i].state \in WorkingStates} :
                            orders[i].side = "BUY" /\ orders[i].limit # NoLimit}
                     |-> (orders[i].quantity - orders[i].filled) * orders[i].limit]) = CommittedCash
  <2> DEFINE S == {i \in {i \in OrderIds : orders[i].state \in WorkingStates} :
                     orders[i].side = "BUY" /\ orders[i].limit # NoLimit}
             T == {i \in OrderIds : Working(i) /\ orders[i].side = "BUY" /\ orders[i].limit # NoLimit}
  <2>1. S = T
    BY DEF Working
  <2>2. [i \in T |-> (orders[i].quantity - orders[i].filled) * orders[i].limit]
          = [i \in T |-> Remaining(i) * orders[i].limit]
    BY DEF Remaining
  <2>3. CommittedCash = SumFunction([i \in T |-> Remaining(i) * orders[i].limit])
    BY DEF CommittedCash
  <2> HIDE DEF S, T
  <2>4. SumFunction([i \in S |-> (orders[i].quantity - orders[i].filled) * orders[i].limit]) = CommittedCash
    BY ONLY <2>1, <2>2, <2>3
  <2>5. QED
    BY <2>4 DEF S
<1>4. \A s \in Symbols : held[s] = HeldSum(fills, s)
  BY DEF PositionsAgree
<1>5. cash = InitialCash - PaidSum(fills)
  BY DEF PositionsAgree
<1>6. Covers(Memory) <=>
        /\ \A s \in Symbols : held[s] >= CommittedShares(s)
        /\ EnforceCash => cash >= CommittedCash
        /\ EnforceCash => \A i \in {i \in OrderIds : orders[i].state \in WorkingStates} :
             orders[i].side = "BUY" => orders[i].limit # NoLimit
  BY ONLY <1>1, <1>2, <1>3, <1>4, <1>5 DEF Covers
<1>7. QED
  BY <1>6 DEF SharesCovered, CashSuffices, BuysAreLimited, Working

\* A sum over executions of an order is a number.
LEMMA FilledIsInt ==
  ASSUME NEW fs \in Seq(Fills), NEW i
  PROVE  FilledSum(fs, i) \in Int
<1> DEFINE D == {n \in DOMAIN fs : fs[n].order = i}
           a == [n \in D |-> fs[n].quantity]
<1>1. DOMAIN fs = 1 .. Len(fs) /\ Len(fs) \in Nat
  OBVIOUS
<1>2. IsFiniteSet(1 .. Len(fs))
  BY <1>1, FS_Interval
<1>3. IsFiniteSet(D)
  BY <1>1, <1>2, FS_Subset
<1>4. \A n \in D : a[n] \in Int
  <2>1. \A x \in Fills : x.quantity \in Int
    BY DEF Fills
  <2>2. \A n \in DOMAIN fs : fs[n] \in Fills
    OBVIOUS
  <2>3. QED
    BY <2>1, <2>2
<1>5. FilledSum(fs, i) = SumFunctionOnSet(a, DOMAIN a) /\ DOMAIN a = D
  BY DEF FilledSum, SumFunction
<1> HIDE DEF a, D
<1>6. QED
  BY <1>3, <1>4, <1>5, SumIsInt

\* A step moves what an order says and what its executions sum up to together.
LEMMA DriftKept ==
  ASSUME BookInv, [Step]_vars, NEW i \in OrderIds
  PROVE  orders'[i].filled - FilledSum(fills', i) = orders[i].filled - FilledSum(fills, i)
<1>1. IInv /\ IInv' /\ fills \in Seq(Fills) /\ orders[i].filled \in Int /\ FilledSum(fills, i) \in Int
  <2>1. IInv /\ IInv' /\ fills \in Seq(Fills) /\ orders[i] \in OrderType \cup {Unknown}
    BY BookStep DEF BookInv, IInv, TypeOK
  <2>2. orders[i].filled \in Int
    BY <2>1 DEF OrderType, Unknown
  <2>3. QED
    BY <2>1, <2>2, FilledIsInt
<1>2. ASSUME orders'[i].filled = orders[i].filled, fills' = fills
      PROVE  orders'[i].filled - FilledSum(fills', i) = orders[i].filled - FilledSum(fills, i)
  BY <1>2
<1>3. CASE BookKept
  BY <1>2, <1>3 DEF BookKept
<1>4. ASSUME NEW k \in OrderIds, OneOrder(k), Placing(k)
      PROVE  orders'[i].filled - FilledSum(fills', i) = orders[i].filled - FilledSum(fills, i)
  <2>1. orders[k].filled = 0
    BY <1>1, <1>4 DEF Placing, Known, IInv, StateMatchesFilled
  <2>2. QED
    BY <1>2, <1>4, <2>1 DEF Placing, OneOrder
<1>5. ASSUME NEW k \in OrderIds, OneOrder(k), Cancelling(k)
      PROVE  orders'[i].filled - FilledSum(fills', i) = orders[i].filled - FilledSum(fills, i)
  BY <1>2, <1>5 DEF Cancelling, OneOrder
<1>6. ASSUME NEW k \in OrderIds, NEW q \in Nat, NEW p \in Nat, OneOrder(k), Filling(k, q, p)
      PROVE  orders'[i].filled - FilledSum(fills', i) = orders[i].filled - FilledSum(fills, i)
  <2> DEFINE e == Execution(k, q, p)
  <2>1. e \in Fills /\ fills' = Append(fills, e) /\ orders'[k].filled = orders[k].filled + q
    BY <1>6 DEF Filling
  <2>2. e.order = k /\ e.quantity = q
    BY DEF Execution
  <2> HIDE DEF e
  <2>3. FilledSum(Append(fills, e), i) = FilledSum(fills, i) + IF e.order = i THEN e.quantity ELSE 0
    BY <1>1, <2>1, SumsAppended
  <2>4. i # k => orders'[i] = orders[i]
    BY <1>6 DEF OneOrder
  <2>5. CASE i = k
    BY <1>1, <2>1, <2>2, <2>3, <2>5
  <2>6. CASE i # k
    BY <1>1, <2>1, <2>2, <2>3, <2>4, <2>6
  <2>7. QED
    BY <2>5, <2>6
<1>7. QED
  BY <1>1, <1>3, <1>4, <1>5, <1>6, StepForms DEF StepForm

\* A step of the broker keeps its book fair: what drifted stays, and what is covered
\* stays covered.
LEMMA FairStep ==
  ASSUME BookInv, [QuietStep]_vars, NEW flag \in BOOLEAN, Fair(Memory, flag), Lagging(Memory) => problems
  PROVE  Fair(Memory', flag) /\ (Lagging(Memory') => problems')
<1>0. [Step]_vars
  BY StepIsQuietOrReport
<1>1. /\ IInv /\ BookInv' /\ PositionsAgree /\ PositionsAgree'
      /\ fills \in Seq(Fills) /\ fills' \in Seq(Fills)
      /\ orders \in [OrderIds -> OrderType \cup {Unknown}]
      /\ orders' \in [OrderIds -> OrderType \cup {Unknown}]
  BY <1>0, BookStep DEF BookInv, IInv, TypeOK
<1>2. /\ Memory.orders = orders /\ Memory.fills = fills
      /\ Memory'.orders = orders' /\ Memory'.fills = fills'
  BY DEF Memory
<1>3. \A i \in OrderIds : /\ orders[i].filled \in Int /\ orders'[i].filled \in Int
                          /\ FilledSum(fills, i) \in Int /\ FilledSum(fills', i) \in Int
  <2>1. \A o \in OrderType \cup {Unknown} : o.filled \in Int
    BY DEF OrderType, Unknown
  <2>2. QED
    BY ONLY <1>1, <2>1, FilledIsInt
<1>4. \A i \in OrderIds :
        orders'[i].filled - FilledSum(fills', i) = orders[i].filled - FilledSum(fills, i)
  BY <1>0, DriftKept
<1>5. Lagging(Memory') <=> Lagging(Memory)
  BY ONLY <1>2, <1>3, <1>4 DEF Lagging
<1>6. NeverAhead(Memory')
  <2>1. \A i \in OrderIds : FilledSum(fills, i) <= orders[i].filled
    BY <1>2 DEF Fair, NeverAhead
  <2>2. QED
    BY ONLY <1>2, <1>3, <1>4, <2>1 DEF NeverAhead
<1>7. FillsKnown(Memory')
  <2>1. \A n \in DOMAIN fills : orders[fills[n].order] # Unknown
    BY <1>2 DEF Fair, FillsKnown
  <2>2. \A i \in OrderIds : orders[i] # Unknown => orders'[i] # Unknown
    <3>1. \A i \in OrderIds : OneOrder(i) => orders'[i] # Unknown /\ \A j \in OrderIds \ {i} : orders'[j] = orders[j]
      BY DEF OneOrder, Unknown
    <3>2. CASE BookKept
      BY <3>2 DEF BookKept
    <3>3. CASE \E i \in OrderIds : OneOrder(i)
      BY <3>1, <3>3
    <3>4. QED
      BY <1>0, <1>1, <3>2, <3>3, StepForms DEF StepForm, BookInv
  <2>3. CASE fills' = fills
    <3>1. \A n \in DOMAIN fills : fills[n].order \in OrderIds
      <4>1. \A n \in DOMAIN fills : fills[n] \in Fills
        BY ONLY <1>1
      <4>2. QED
        BY ONLY <4>1 DEF Fills
    <3>2. QED
      BY <1>2, <2>1, <2>2, <2>3, <3>1 DEF FillsKnown
  <2>4. ASSUME NEW i \in OrderIds, NEW e \in Fills, e.order = i, orders[i] # Unknown,
               fills' = Append(fills, e)
        PROVE  FillsKnown(Memory')
    <3> SUFFICES ASSUME NEW n \in DOMAIN fills' PROVE orders'[fills'[n].order] # Unknown
      BY <1>2 DEF FillsKnown
    <3>1. fills'[n].order \in OrderIds
      <4>1. fills'[n] \in Fills
        BY ONLY <1>1
      <4>2. QED
        BY ONLY <4>1 DEF Fills
    <3>2. CASE n \in DOMAIN fills
      <4>1. fills'[n] = fills[n]
        BY <1>1, <2>4, <3>2, AppendedSet
      <4>2. QED
        BY <2>1, <2>2, <3>1, <3>2, <4>1
    <3>3. CASE n \notin DOMAIN fills
      <4>1. n = Len(fills) + 1 /\ fills'[Len(fills) + 1] = e
        BY <1>1, <2>4, <3>3, AppendedSet
      <4>2. QED
        BY <2>2, <2>4, <4>1
    <3>4. QED
      BY <3>2, <3>3
  <2>5. ASSUME NEW i \in OrderIds, NEW q \in Nat, NEW p \in Nat, Filling(i, q, p)
        PROVE  FillsKnown(Memory')
    <3>1. /\ Execution(i, q, p) \in Fills /\ Known(i)
          /\ fills' = Append(fills, Execution(i, q, p))
      BY <2>5 DEF Filling
    <3>2. Execution(i, q, p).order = i
      BY DEF Execution
    <3>3. orders[i] # Unknown
      BY <3>1 DEF Known, Unknown
    <3>4. QED
      BY <2>4, <3>1, <3>2, <3>3
  <2>6. QED
    BY <1>0, <1>1, <2>3, <2>5, StepForms DEF StepForm, BookInv, BookKept, Placing, Cancelling
<1>8. Lagging(Memory') \/ Covers(Memory')
  <2> SUFFICES ASSUME ~Lagging(Memory) PROVE Covers(Memory')
    BY <1>5
  <2>1. Covers(Memory)
    BY DEF Fair
  <2>2. QuietCover
    BY <1>1, <2>1, MeaningOfCovers DEF CoversMeaning, QuietCover
  <2>3. QuietCover'
    BY <2>2, QuietStepCover
  <2>4. CoversMeaning'
    BY MeaningOfCovers, PTL
  <2>5. PositionsAgree' => (Covers(Memory') <=> SharesCovered' /\ BuysAreLimited' /\ CashSuffices')
    BY ONLY <2>4 DEF CoversMeaning
  <2>6. SharesCovered' /\ BuysAreLimited' /\ CashSuffices'
    BY ONLY <2>3 DEF QuietCover
  <2>7. QED
    BY ONLY <1>1, <2>5, <2>6
<1>9. Lagging(Memory') => problems'
  BY <1>0, <1>5, FlagStays
<1>10. flag => Lagging(Memory')
  BY <1>5 DEF Fair
<1>11. QED
  BY ONLY <1>6, <1>7, <1>8, <1>9, <1>10 DEF Fair

\* So is the book that has the order of a step and not its fill, which lags.
LEMMA HeadIsFair ==
  ASSUME BookInv, [Step]_vars, NEW flag \in BOOLEAN, Fair(Memory, flag)
  PROVE  /\ Len(Recorded) <= 2
         /\ \A rs \in Seq(Written) : Len(Recorded) = 2 /\ Replayed(rs) = Memory =>
              Fair(Replayed(Append(rs, Head(Recorded))), flag)
<1>1. /\ fills \in Seq(Fills)
      /\ orders \in [OrderIds -> OrderType \cup {Unknown}]
      /\ orders' \in [OrderIds -> OrderType \cup {Unknown}]
      /\ IInv /\ IInv'
  BY BookStep DEF BookInv, IInv, TypeOK
<1>2. Memory.orders = orders /\ Memory.fills = fills
  BY DEF Memory
<1>3. CASE BookKept
  <2>1. Recorded = <<>>
    BY <1>3, RecordedNothing DEF BookKept
  <2>2. QED
    BY <2>1
<1>4. ASSUME NEW i \in OrderIds, OneOrder(i), fills' = fills
      PROVE  Len(Recorded) = 1
  <2>1. Recorded = <<OrderRecord(i, orders'[i])>>
    BY <1>1, <1>4, RecordedOrder, RecordsAreWritten
  <2>2. QED
    BY <2>1
<1>5. CASE \E i \in OrderIds : OneOrder(i) /\ (Placing(i) \/ Cancelling(i))
  <2>1. Len(Recorded) = 1
    BY <1>4, <1>5 DEF Placing, Cancelling
  <2>2. QED
    BY <2>1
<1>6. ASSUME NEW i \in OrderIds, NEW q \in Nat, NEW p \in Nat, OneOrder(i), Filling(i, q, p),
             NEW rs \in Seq(Written), Replayed(rs) = Memory
      PROVE  Fair(Replayed(Append(rs, OrderRecord(i, orders'[i]))), flag)
  <2> DEFINE b == [orders |-> orders', queue |-> queue', fills |-> fills]
             r == OrderRecord(i, orders'[i])
  <2>1. /\ Known(i) /\ queue' = queue /\ q > 0
        /\ orders'[i].filled = orders[i].filled + q /\ orders'[i].state # "PENDING"
        /\ \A j \in OrderIds \ {i} : orders'[j] = orders[j]
    BY <1>6 DEF Filling, OneOrder
  <2>2. orders[i] # Unknown /\ orders'[i] # Unknown
    BY <2>1 DEF Known, Unknown
  <2>3. r \in Written /\ ReplayedRecord(Memory, r) = b
    BY <1>6, <2>1, <2>2, OrderReplays
  <2> HIDE DEF r
  <2>4. Replayed(Append(rs, r)) = ReplayedRecord(Replayed(rs), r)
    BY <2>3, ReplayedOneMore
  <2>5. Replayed(Append(rs, r)) = b
    BY ONLY <1>6, <2>3, <2>4
  <2>6. b.orders = orders' /\ b.fills = fills
    OBVIOUS
  <2> HIDE DEF b
  <2>7. \A j \in OrderIds : FilledSum(fills, j) <= orders[j].filled
    BY <1>2 DEF Fair, NeverAhead
  <2>8. \A j \in OrderIds : orders[j].filled \in Int /\ FilledSum(fills, j) \in Int
    <3>1. \A o \in OrderType \cup {Unknown} : o.filled \in Int
      BY DEF OrderType, Unknown
    <3>2. QED
      BY ONLY <1>1, <3>1, FilledIsInt
  <2>9. NeverAhead(b)
    <3>1. ASSUME NEW j \in OrderIds PROVE FilledSum(fills, j) <= orders'[j].filled
      <4>1. CASE j = i
        BY <2>1, <2>7, <2>8, <4>1
      <4>2. CASE j # i
        BY <2>1, <2>7, <4>2
      <4>3. QED
        BY <4>1, <4>2
    <3>2. QED
      BY <2>6, <3>1 DEF NeverAhead
  <2>10. FillsKnown(b)
    <3> SUFFICES ASSUME NEW n \in DOMAIN fills PROVE orders'[fills[n].order] # Unknown
      BY <2>6 DEF FillsKnown
    <3>1. orders[fills[n].order] # Unknown
      BY <1>2 DEF Fair, FillsKnown
    <3>2. fills[n].order \in OrderIds
      <4>1. fills[n] \in Fills
        BY ONLY <1>1
      <4>2. QED
        BY ONLY <4>1 DEF Fills
    <3>3. QED
      BY <2>1, <2>2, <3>1, <3>2
  <2>11. Lagging(b)
    <3>1. FilledSum(fills, i) < orders'[i].filled
      BY <2>1, <2>7, <2>8
    <3>2. QED
      BY <2>6, <3>1 DEF Lagging
  <2>12. Fair(b, flag)
    BY ONLY <2>9, <2>10, <2>11 DEF Fair
  <2>13. QED
    BY ONLY <2>5, <2>12 DEF r
<1>7. CASE \E i \in OrderIds, q \in Nat, p \in Nat : OneOrder(i) /\ Filling(i, q, p)
  <2>1. PICK i \in OrderIds, q \in Nat, p \in Nat : OneOrder(i) /\ Filling(i, q, p)
    BY <1>7
  <2> DEFINE r == OrderRecord(i, orders'[i])
             e == FillRecord(Execution(i, q, p))
  <2>2. Recorded = <<r, e>>
    <3>1. Execution(i, q, p) \in Fills /\ fills' = Append(fills, Execution(i, q, p))
      BY <2>1 DEF Filling
    <3>2. QED
      BY <1>1, <2>1, <3>1, RecordedOrder, RecordsAreWritten
  <2> HIDE DEF r, e
  <2>3. Len(Recorded) = 2 /\ Head(Recorded) = r
    BY <2>2
  <2>4. QED
    BY <1>6, <2>1, <2>3 DEF r
<1>8. QED
  BY <1>1, <1>3, <1>5, <1>7, StepForms DEF StepForm

\* A torn record at the end of a journal is skipped.
LEMMA TornIsSkipped ==
  ASSUME NEW f, FileOK(f), NEW piece \in {Cut, SplitChar}, Intact(Appended(f, piece, FALSE))
  PROVE  ReadAll(Appended(f, piece, FALSE)) = ReadAll(f)
<1> DEFINE new == [pieces |-> <<piece>>, ended |-> FALSE]
           N == Len(f)
<1>1. f \in Seq(Lines) /\ N \in Nat
  BY DEF FileOK
<1>2. /\ Intact(f)
      /\ N > 0 => f[N].ended
      /\ Appended(f, piece, FALSE) = Append(f, new)
  BY IntactAppend
<1> DEFINE g == Append(f, new)
<1>3. Len(g) = N + 1 /\ g[N + 1] = new /\ g # <<>> /\ \A n \in 1 .. N : g[n] = f[n]
  <2>1. new \in Lines
    BY DEF Lines, Pieces
  <2> HIDE DEF new
  <2>2. Len(g) = N + 1 /\ g[N + 1] = new /\ \A n \in 1 .. N : g[n] = f[n]
    BY <1>1, <2>1
  <2>3. Len(<<>>) = 0
    OBVIOUS
  <2> HIDE DEF g
  <2>4. g # <<>>
    BY <1>1, <2>2, <2>3
  <2>5. QED
    BY <2>2, <2>4
<1>4. ~Parses(new)
  BY DEF Parses
<1>5. f = <<>> \/ Parses(f[N])
  <2>1. CASE f # <<>>
    <3>1. N > 0 /\ N \in 1 .. N
      BY <1>1, <2>1
    <3>2. f[N].ended /\ Len(f[N].pieces) = 1
      BY <1>1, <1>2, <3>1 DEF Intact
    <3>3. QED
      BY <3>1, <3>2, EndedLineParses
  <2>2. QED
    BY <2>1
<1>6. ReadAll(f) = [k \in 1 .. N |-> f[k].pieces[1]]
  BY <1>5 DEF ReadAll
<1>7. ReadAll(g) = [k \in 1 .. N |-> g[k].pieces[1]]
  <2> DEFINE m == IF g = <<>> \/ Parses(g[Len(g)]) THEN Len(g) ELSE Len(g) - 1
  <2>1. ReadAll(g) = [k \in 1 .. m |-> g[k].pieces[1]]
    BY DEF ReadAll
  <2> HIDE DEF g, new
  <2>2. m = N
    <3>1. ~ (g = <<>> \/ Parses(g[Len(g)]))
      BY ONLY <1>3, <1>4
    <3>2. m = Len(g) - 1
      BY ONLY <3>1 DEF m
    <3>3. Len(g) = N + 1 /\ N \in Nat
      BY ONLY <1>1, <1>3
    <3>4. \A l, k : l = k + 1 /\ k \in Nat => l - 1 = k
      OBVIOUS
    <3> HIDE DEF N, m
    <3>5. QED
      BY ONLY <3>2, <3>3, <3>4
  <2> HIDE DEF m
  <2>3. QED
    BY ONLY <2>1, <2>2
<1> HIDE DEF g, new
<1>8. ReadAll(g) = ReadAll(f)
  BY ONLY <1>3, <1>6, <1>7
<1>9. QED
  BY <1>2, <1>8 DEF g

\* A write that did not return has written its record or has not, as a replay sees it.
LEMMA InterruptedReads ==
  ASSUME FileOK(file), NEW r \in Written, Interrupted(r), Intact(file')
  PROVE  ReadAll(file') = ReadAll(file) \/ ReadAll(file') = Append(ReadAll(file), r)
<1>1. TRUE \in BOOLEAN /\ FALSE \in BOOLEAN
  OBVIOUS
<1>2. CASE file' = file
  BY <1>2
<1>3. ASSUME NEW ended \in BOOLEAN, file' = Appended(file, r, ended)
      PROVE  ReadAll(file') = Append(ReadAll(file), r)
  <2>1. Intact(Appended(file, r, ended))
    BY <1>3
  <2>2. QED
    BY <1>3, <2>1, IntactAppendReads
<1>4. ASSUME NEW piece \in {Cut, SplitChar}, file' = Appended(file, piece, FALSE)
      PROVE  ReadAll(file') = ReadAll(file)
  <2>1. Intact(Appended(file, piece, FALSE))
    BY <1>4
  <2>2. QED
    BY <1>4, <2>1, TornIsSkipped
<1>5. QED
  BY <1>1, <1>2, <1>3, <1>4 DEF Interrupted, Torn

\* The flag a start finds is an order that lags, and nothing else.
AdoptedIsFair ==
  \A rs \in Seq(Written), flag \in BOOLEAN :
    AdoptedState(rs) /\ BookInv /\ Fair(Replayed(rs), flag)
      => Fair(Memory, flag \/ problems) /\ (Lagging(Memory) => problems)

\* The statement above holds.
LEMMA AdoptionIsFair == AdoptedIsFair
<1> SUFFICES ASSUME NEW rs \in Seq(Written), NEW flag \in BOOLEAN, AdoptedState(rs), BookInv,
                    Fair(Replayed(rs), flag)
             PROVE  Fair(Memory, flag \/ problems) /\ (Lagging(Memory) => problems)
  BY DEF AdoptedIsFair
<1>1. /\ Replayed(rs) = Memory
      /\ fills \in Seq(Fills) /\ queue \in Seq(OrderIds)
      /\ problems = Discrepant(orders, queue, fills, held)
  BY AdoptedParts
<1>2. /\ Memory.orders = orders /\ Memory.fills = fills
      /\ Fair(Memory, flag) /\ IInv /\ MemoryInv /\ PositionsAgree
  BY <1>1 DEF Memory, BookInv
<1>3. \A i \in OrderIds : orders[i].filled \in Int /\ FilledSum(fills, i) \in Int
  <2>1. \A o \in OrderType \cup {Unknown} : o.filled \in Int
    BY DEF OrderType, Unknown
  <2>2. orders \in [OrderIds -> OrderType \cup {Unknown}]
    BY <1>2 DEF IInv, TypeOK
  <2>3. QED
    BY ONLY <1>1, <2>1, <2>2, FilledIsInt
<1>4. /\ \A i \in OrderIds : FilledSum(fills, i) <= orders[i].filled
      /\ \A n \in DOMAIN fills : orders[fills[n].order] # Unknown
      /\ Lagging(Memory) \/ Covers(Memory)
  BY <1>2 DEF Fair, NeverAhead, FillsKnown
<1>5. ASSUME NEW n \in DOMAIN fills PROVE fills[n].order \in OrderIds
  <2>1. fills[n] \in Fills
    BY ONLY <1>1
  <2>2. QED
    BY ONLY <2>1 DEF Fills
<1>6. /\ \A i \in OrderIds : Known(i) <=> i \in ToSet(queue)
      /\ \A i \in OrderIds : Known(i) \/ orders[i] = Unknown
  BY <1>2 DEF MemoryInv
<1>7. ASSUME problems PROVE Lagging(Memory)
  <2>1. CASE \E n \in DOMAIN fills : fills[n].order \notin ToSet(queue)
    BY <1>4, <1>5, <1>6, <2>1
  <2>2. CASE \E i \in ToSet(queue) : FilledAfter(fills, i) # orders[i].filled
    <3>1. PICK i \in ToSet(queue) : FilledAfter(fills, i) # orders[i].filled
      BY <2>2
    <3>2. i \in OrderIds
      BY <1>1 DEF ToSet
    <3>3. FilledSum(fills, i) # orders[i].filled
      BY <3>1 DEF FilledAfter, FilledSum
    <3>4. FilledSum(fills, i) < orders[i].filled
      BY <1>3, <1>4, <3>2, <3>3
    <3>5. QED
      BY <1>2, <3>2, <3>4 DEF Lagging
  <2>3. CASE \E s \in Symbols : held[s] < 0
    <3> SUFFICES ASSUME Covers(Memory) PROVE FALSE
      BY <1>4
    <3>1. PICK s \in Symbols : held[s] < 0
      BY <2>3
    <3>2. SharesCovered
      BY <1>2, MeaningOfCovers DEF CoversMeaning
    <3>3. held[s] >= CommittedShares(s) /\ held[s] \in Int
      BY <1>2, <3>2 DEF SharesCovered, IInv, TypeOK
    <3>4. CommittedShares(s) >= 0 /\ CommittedShares(s) \in Int
      BY <1>2, CommittedIsNatural
    <3>5. QED
      BY ONLY <3>1, <3>3, <3>4
  <2>4. QED
    BY <1>1, <1>7, <2>1, <2>2, <2>3 DEF Discrepant
<1>8. ASSUME Lagging(Memory) PROVE problems
  <2>1. PICK i \in OrderIds : FilledSum(fills, i) < orders[i].filled
    BY <1>2, <1>8 DEF Lagging
  <2>2. Known(i)
    <3> SUFFICES ASSUME orders[i] = Unknown PROVE FALSE
      BY <1>6
    <3>1. orders[i].filled = 0
      BY DEF Unknown
    <3>2. \A n \in DOMAIN fills : fills[n].order # i
      BY <1>4
    <3>3. FilledSum(fills, i) = 0
      BY ONLY <1>1, <3>2, NothingFilled
    <3>4. QED
      BY ONLY <2>1, <3>1, <3>3
  <2>3. FilledAfter(fills, i) # orders[i].filled
    <3>1. FilledSum(fills, i) # orders[i].filled
      BY <1>3, <2>1
    <3>2. QED
      BY <3>1 DEF FilledAfter, FilledSum
  <2>4. i \in ToSet(queue)
    BY <1>6, <2>2
  <2>5. QED
    BY <1>1, <2>3, <2>4 DEF Discrepant
<1>9. QED
  BY <1>2, <1>7, <1>8 DEF Fair

\* Without a refused write, and as long as nothing was appended to a torn record, the
\* book of the journal and the one in memory are fair, and so is the one in between.
FaithfulInv ==
  /\ refusals \in Nat /\ (refusals = 0 => ~behind) /\ Len(unwritten) <= 2
  /\ refusals = 0 /\ Intact(file) =>
       /\ Fair(Replayed(ReadAll(file)), flagged)
       /\ up => Fair(Memory, flagged) /\ (Lagging(Memory) => problems)
       /\ up /\ Len(unwritten) = 2 => Fair(Replayed(Append(ReadAll(file), Head(unwritten))), flagged)

\* An empty book is fair.
LEMMA InitFaithful == JInit => FaithfulInv
<1> SUFFICES ASSUME JInit PROVE FaithfulInv
  OBVIOUS
<1>1. JInv
  BY InitJournal
<1>2. /\ Blank /\ file = <<>> /\ unwritten = <<>> /\ refusals = 0 /\ behind = FALSE /\ flagged = FALSE
      /\ problems = FALSE
  BY DEF JInit, Init, Blank
<1>3. Memory = NothingReplayed
  BY <1>2 DEF Memory, NothingReplayed, Blank
<1>4. Replayed(ReadAll(file)) = NothingReplayed
  <2>1. ReadAll(<<>>) = <<>>
    BY DEF ReadAll
  <2>2. QED
    BY <1>2, <2>1, ReplayedNothing
<1>5. Len(unwritten) = 0
  BY <1>2
<1>6. Memory.orders = [i \in OrderIds |-> Unknown] /\ Memory.fills = <<>>
  BY <1>3 DEF NothingReplayed
<1>7. \A i \in OrderIds : FilledSum(Memory.fills, i) = 0 /\ Memory.orders[i].filled = 0
  <2> TAKE i \in OrderIds
  <2>1. <<>> \in Seq(Fills) /\ \A n \in DOMAIN <<>> : <<>>[n].order # i
    OBVIOUS
  <2>2. FilledSum(<<>>, i) = 0
    BY <2>1, NothingFilled
  <2>3. QED
    BY <1>6, <2>2 DEF Unknown
<1>8. NeverAhead(Memory) /\ ~Lagging(Memory)
  BY <1>7 DEF NeverAhead, Lagging
<1>9. FillsKnown(Memory)
  BY <1>6 DEF FillsKnown
<1>10. Covers(Memory)
  <2>1. Init
    BY DEF JInit
  <2>2. QuietCover
    BY <2>1, InitCover
  <2>3. PositionsAgree
    BY <1>1 DEF JInv, BookInv
  <2>4. QED
    BY <2>2, <2>3, MeaningOfCovers DEF CoversMeaning, QuietCover
<1>11. Fair(Memory, flagged)
  BY <1>2, <1>8, <1>9, <1>10 DEF Fair
<1>12. QED
  BY <1>2, <1>3, <1>4, <1>5, <1>8, <1>11 DEF FaithfulInv

\* A step of the broker leaves records of a fair book.
LEMMA FaithfulBroker ==
  ASSUME JInv, FaithfulInv, BrokerStep
  PROVE  FaithfulInv'
<1>1. /\ up /\ unwritten = <<>> /\ unwritten' = Recorded
      /\ UNCHANGED <<file, up, crashes, refusals, behind, flagged, placed>>
      /\ [Step]_vars /\ [QuietStep]_vars
  BY OperationIsStep, OperationIsQuiet DEF BrokerStep
<1>2. /\ FileOK(file) /\ flagged \in BOOLEAN /\ BookInv /\ RebuildInv
      /\ refusals \in Nat /\ (refusals = 0 => ~behind)
  BY DEF JInv, StoreInv, FaithfulInv
<1>3. Len(Recorded) <= 2
  <2>1. fills \in Seq(Fills) /\ IInv /\ IInv'
    BY <1>1, <1>2, BookStep DEF BookInv, IInv, TypeOK
  <2>2. CASE BookKept
    <3>1. Recorded = <<>>
      BY <2>2, RecordedNothing DEF BookKept
    <3>2. QED
      BY <3>1
  <2>3. ASSUME NEW i \in OrderIds, OneOrder(i), fills' = fills
        PROVE  Len(Recorded) <= 2
    <3>1. Recorded = <<OrderRecord(i, orders'[i])>>
      BY <2>1, <2>3, RecordedOrder, RecordsAreWritten
    <3>2. QED
      BY <3>1
  <2>4. ASSUME NEW i \in OrderIds, OneOrder(i), NEW f \in Fills, fills' = Append(fills, f)
        PROVE  Len(Recorded) <= 2
    <3>1. Recorded = <<OrderRecord(i, orders'[i]), FillRecord(f)>>
      BY <2>1, <2>4, RecordedOrder, RecordsAreWritten
    <3>2. QED
      BY <3>1
  <2>5. StepForm
    BY <1>1, <2>1, StepForms
  <2>6. QED
    BY <2>2, <2>3, <2>4, <2>5 DEF StepForm, Placing, Cancelling, Filling
<1>4. CASE refusals = 0 /\ Intact(file)
  <2>1. /\ Fair(Replayed(ReadAll(file)), flagged)
        /\ Fair(Memory, flagged) /\ (Lagging(Memory) => problems)
    BY <1>1, <1>4 DEF FaithfulInv
  <2>2. Fair(Memory', flagged) /\ (Lagging(Memory') => problems')
    BY ONLY <1>1, <1>2, <2>1, FairStep
  <2>3. ReadAll(file) \in Seq(Written)
    BY <1>2, <1>4, IntactIsReadable, ReadRecords
  <2>4. Replayed(ReadAll(file)) = Memory
    <3>1. ReadAll(file) \o <<>> = ReadAll(file)
      BY <2>3
    <3>2. QED
      BY <1>1, <1>2, <1>4, <3>1 DEF RebuildInv
  <2>5. Len(Recorded) = 2 => Fair(Replayed(Append(ReadAll(file), Head(Recorded))), flagged)
    BY ONLY <1>1, <1>2, <2>1, <2>3, <2>4, HeadIsFair
  <2>6. QED
    BY <1>1, <1>2, <1>3, <2>1, <2>2, <2>5 DEF FaithfulInv
<1>5. CASE ~ (refusals = 0 /\ Intact(file))
  BY <1>1, <1>2, <1>3, <1>5 DEF FaithfulInv
<1>6. QED
  BY <1>4, <1>5

\* So does a record written of it.
LEMMA FaithfulWrite ==
  ASSUME JInv, FaithfulInv, WriteRecord
  PROVE  FaithfulInv'
<1> DEFINE r == Head(unwritten)
<1>1. /\ up /\ unwritten # <<>>
      /\ file' = Appended(file, r, TRUE) /\ unwritten' = Tail(unwritten)
      /\ up' = up /\ behind' = behind /\ flagged' = flagged /\ refusals' = refusals
      /\ problems' = problems /\ Memory' = Memory
  BY DEF WriteRecord, vars, Memory
<1>2. /\ FileOK(file) /\ unwritten \in Seq(Written) /\ RebuildInv
      /\ refusals \in Nat /\ (refusals = 0 => ~behind) /\ Len(unwritten) <= 2
  BY DEF JInv, StoreInv, FaithfulInv
<1>3. /\ Len(unwritten) \in 1 .. 2 /\ Len(Tail(unwritten)) = Len(unwritten) - 1
      /\ Len(unwritten') <= 1 /\ r \in Written
  <2>1. /\ Len(unwritten) \in Nat /\ Len(unwritten) > 0 /\ r \in Written
        /\ Len(Tail(unwritten)) = Len(unwritten) - 1
    BY <1>1, <1>2, NextRecord
  <2> HIDE DEF r
  <2>2. QED
    BY ONLY <1>1, <1>2, <2>1
<1>4. CASE refusals = 0 /\ Intact(file')
  <2>1. Intact(Appended(file, r, TRUE)) /\ TRUE \in BOOLEAN
    BY <1>1, <1>4
  <2> HIDE DEF r
  <2>2. Intact(file)
    BY ONLY <1>2, <2>1, IntactAppend
  <2>3. ReadAll(file') = Append(ReadAll(file), r)
    BY ONLY <1>1, <1>2, <1>3, <2>1, IntactAppendReads
  <2>4. Fair(Memory, flagged) /\ (Lagging(Memory) => problems)
    BY <1>1, <1>4, <2>2 DEF FaithfulInv
  <2>5. Fair(Replayed(ReadAll(file')), flagged)
    <3>1. CASE Len(unwritten) = 2
      BY <1>1, <1>4, <2>2, <2>3, <3>1 DEF FaithfulInv, r
    <3>2. CASE Len(unwritten) = 1
      <4>1. ReadAll(file) \in Seq(Written)
        BY <1>2, <2>2, IntactIsReadable, ReadRecords
      <4>2. unwritten = <<r>>
        BY <1>2, <3>2 DEF r
      <4>3. ReadAll(file) \o <<r>> = Append(ReadAll(file), r)
        BY <1>3, <4>1
      <4>4. Replayed(ReadAll(file) \o unwritten) = Memory
        BY <1>1, <1>2, <1>4, <2>2 DEF RebuildInv
      <4>5. QED
        BY ONLY <2>3, <2>4, <4>2, <4>3, <4>4
    <3>3. QED
      BY <1>3, <3>1, <3>2
  <2>6. Len(unwritten') # 2 /\ Len(unwritten') <= 2
    BY <1>1, <1>3
  <2>7. QED
    BY <1>1, <1>2, <2>4, <2>5, <2>6 DEF FaithfulInv
<1>5. CASE ~ (refusals = 0 /\ Intact(file'))
  <2>1. Len(unwritten') <= 2
    BY <1>1, <1>3
  <2>2. QED
    BY <1>1, <1>2, <1>5, <2>1 DEF FaithfulInv
<1>6. QED
  BY <1>4, <1>5

\* A kill at one of its records leaves a fair book in the journal.
LEMMA FaithfulCrash ==
  ASSUME JInv, FaithfulInv, Crash
  PROVE  FaithfulInv'
<1> DEFINE r == Head(unwritten)
<1>1. /\ up
      /\ unwritten = <<>> => file' = file
      /\ unwritten # <<>> => Interrupted(r)
      /\ up' = FALSE /\ unwritten' = <<>> /\ behind' = FALSE
      /\ flagged' = flagged /\ refusals' = refusals
  BY DEF Crash
<1>2. /\ FileOK(file) /\ unwritten \in Seq(Written) /\ RebuildInv
      /\ refusals \in Nat /\ (refusals = 0 => ~behind) /\ Len(unwritten) <= 2
  BY DEF JInv, StoreInv, FaithfulInv
<1>3. Len(unwritten') <= 2
  BY <1>1
<1>4. CASE refusals = 0 /\ Intact(file')
  <2>1. CASE unwritten = <<>>
    BY <1>1, <1>2, <1>3, <1>4, <2>1 DEF FaithfulInv
  <2>2. CASE unwritten # <<>>
    <3>1. r \in Written
      BY <1>2, <2>2, NextRecord
    <3>2. Interrupted(r)
      BY <1>1, <2>2
    <3>3. Len(unwritten) \in 1 .. 2
      <4>1. Len(unwritten) \in Nat /\ Len(unwritten) > 0
        BY <1>2, <2>2, NextRecord
      <4>2. Len(unwritten) <= 2
        BY <1>2
      <4>3. \A n \in Nat : n > 0 /\ n <= 2 => n \in 1 .. 2
        OBVIOUS
      <4>4. QED
        BY ONLY <4>1, <4>2, <4>3
    <3> HIDE DEF r
    <3>4. Intact(file)
      BY ONLY <1>2, <1>4, <3>1, <3>2, InterruptedFile
    <3>5. ReadAll(file') = ReadAll(file) \/ ReadAll(file') = Append(ReadAll(file), r)
      BY ONLY <1>2, <1>4, <3>1, <3>2, InterruptedReads
    <3>6. Fair(Replayed(ReadAll(file)), flagged) /\ Fair(Memory, flagged)
      BY <1>1, <1>4, <3>4 DEF FaithfulInv
    <3>7. Fair(Replayed(Append(ReadAll(file), r)), flagged)
      <4>1. CASE Len(unwritten) = 2
        BY <1>1, <1>4, <3>4, <4>1 DEF FaithfulInv, r
      <4>2. CASE Len(unwritten) = 1
        <5>1. ReadAll(file) \in Seq(Written)
          BY <1>2, <3>4, IntactIsReadable, ReadRecords
        <5>2. unwritten = <<r>>
          BY <1>2, <4>2 DEF r
        <5>3. ReadAll(file) \o <<r>> = Append(ReadAll(file), r)
          BY <3>1, <5>1
        <5>4. Replayed(ReadAll(file) \o unwritten) = Memory
          BY <1>1, <1>2, <1>4, <3>4 DEF RebuildInv
        <5>5. QED
          BY ONLY <3>6, <5>2, <5>3, <5>4
      <4>3. QED
        BY <3>3, <4>1, <4>2
    <3>8. Fair(Replayed(ReadAll(file')), flagged)
      BY ONLY <3>5, <3>6, <3>7
    <3>9. QED
      BY <1>1, <1>2, <1>3, <3>8 DEF FaithfulInv
  <2>3. QED
    BY <2>1, <2>2
<1>5. CASE ~ (refusals = 0 /\ Intact(file'))
  BY <1>1, <1>2, <1>3, <1>5 DEF FaithfulInv
<1>6. QED
  BY <1>4, <1>5

\* A start flags a book that lags.
LEMMA FaithfulRestart ==
  ASSUME JInv, FaithfulInv, Restart
  PROVE  FaithfulInv'
<1> DEFINE rs == ReadAll(file)
<1>1. /\ ~up /\ Readable(file) /\ up' = TRUE /\ file' = file /\ unwritten' = unwritten
      /\ behind' = behind /\ refusals' = refusals
      /\ flagged' = (flagged \/ Adopted(rs).problems) /\ problems' = Adopted(rs).problems
  BY DEF Restart
<1>2. /\ FileOK(file) /\ unwritten = <<>> /\ flagged \in BOOLEAN /\ BookInv' /\ RebuildInv'
      /\ refusals \in Nat /\ (refusals = 0 => ~behind) /\ Len(unwritten) <= 2
  BY <1>1, RestartKeeps DEF JInv, StoreInv, FaithfulInv
<1>3. rs \in Seq(Written)
  BY <1>1, <1>2, ReadRecords
<1>4. ASSUME NEW qs, qs = rs PROVE AdoptedState(qs)'
  BY <1>4 DEF Restart, AdoptedState
<1>5. CASE refusals = 0 /\ Intact(file)
  <2>1. Fair(Replayed(rs), flagged)
    BY <1>5 DEF FaithfulInv
  <2>2. AdoptedIsFair'
    BY AdoptionIsFair, PTL
  <2>3. \A qs \in Seq(Written), flag \in BOOLEAN :
          AdoptedState(qs)' /\ BookInv' /\ Fair(Replayed(qs), flag)
            => Fair(Memory', flag \/ problems') /\ (Lagging(Memory') => problems')
    BY ONLY <2>2 DEF AdoptedIsFair
  <2>4. Fair(Memory', flagged \/ problems') /\ (Lagging(Memory') => problems')
    BY ONLY <1>2, <1>3, <1>4, <2>1, <2>3
  <2>5. Fair(Memory', flagged')
    BY <1>1, <2>4
  <2>6. Replayed(rs) = Memory'
    <3>1. rs \o <<>> = rs
      BY <1>3
    <3>2. Replayed(ReadAll(file') \o unwritten') = Memory'
      BY <1>1, <1>2, <1>5 DEF RebuildInv
    <3>3. QED
      BY <1>1, <1>2, <3>1, <3>2
  <2>7. Fair(Replayed(ReadAll(file')), flagged')
    BY <1>1, <2>5, <2>6
  <2>8. Len(unwritten') # 2
    BY <1>1, <1>2
  <2>9. QED
    BY <1>1, <1>2, <2>4, <2>5, <2>7, <2>8 DEF FaithfulInv
<1>6. CASE ~ (refusals = 0 /\ Intact(file))
  BY <1>1, <1>2, <1>6 DEF FaithfulInv
<1>7. QED
  BY <1>5, <1>6

\* Every step keeps it.
LEMMA FaithfulStep ==
  ASSUME JInv, FaithfulInv, [JNext]_jvars
  PROVE  FaithfulInv'
<1>1. CASE BrokerStep
  BY <1>1, FaithfulBroker
<1>2. CASE WriteRecord
  BY <1>2, FaithfulWrite
<1>3. CASE RefuseWrite
  <2>1. refusals' = refusals + 1 /\ unwritten' = <<>> /\ refusals \in Nat
    BY <1>3 DEF RefuseWrite, FaithfulInv
  <2>2. refusals' \in Nat /\ refusals' # 0 /\ Len(unwritten') <= 2
    BY <2>1
  <2>3. QED
    BY <2>2 DEF FaithfulInv
<1>4. CASE Crash
  BY <1>4, FaithfulCrash
<1>5. CASE Restart
  BY <1>5, FaithfulRestart
<1>6. CASE Switch
  BY <1>6 DEF Switch, Engage, Release, FaithfulInv, Memory
<1>7. CASE UNCHANGED jvars
  BY <1>7 DEF jvars, vars, FaithfulInv, Memory
<1>8. QED
  BY <1>1, <1>2, <1>3, <1>4, <1>5, <1>6, <1>7 DEF JNext

\* Both invariants hold in every run of the program.
LEMMA FaithfulInvariance == JSpec => [](JInv /\ FaithfulInv)
<1>1. JInv /\ FaithfulInv /\ [JNext]_jvars => JInv' /\ FaithfulInv'
  BY JournalStep, FaithfulStep
<1>2. QED
  BY <1>1, InitJournal, InitFaithful, PTL DEF JSpec

\* A restored book that is not flagged covers the orders it restored, as long as no write
\* was refused and no record was appended to a torn one or cut inside a character: adopt does
\* not check shares and cash again, and need not.
THEOREM RestoredBookIsCovered == JSpec => []UnflaggedBookIsCovered
<1>1. JInv /\ FaithfulInv => UnflaggedBookIsCovered
  <2> SUFFICES ASSUME JInv, FaithfulInv, up, ~problems, refusals = 0, Intact(file)
               PROVE  SharesCovered /\ (EnforceCash => cash >= CommittedCash)
    BY DEF UnflaggedBookIsCovered
  <2>1. Fair(Memory, flagged) /\ ~Lagging(Memory)
    BY DEF FaithfulInv
  <2>2. Covers(Memory)
    BY <2>1 DEF Fair
  <2>3. PositionsAgree
    BY DEF JInv, BookInv
  <2>4. QED
    BY <2>2, <2>3, MeaningOfCovers DEF CoversMeaning, CashSuffices
<1>2. QED
  BY <1>1, FaithfulInvariance, PTL

\* A start that found the journal contradicting itself is followed by no start that finds
\* it sound, as long as no write was refused and no record was appended to one without its
\* newline or cut inside a character: an order that lags behind its record lags for good,
\* and its record is read by every start (adopt).
THEOREM DiscrepancyStays == JSpec => []DiscrepancyIsNotForgotten
<1>1. JInv /\ FaithfulInv => DiscrepancyIsNotForgotten
  <2> SUFFICES ASSUME JInv, FaithfulInv, up, flagged, refusals = 0, Intact(file)
               PROVE  problems
    BY DEF DiscrepancyIsNotForgotten
  <2>1. Fair(Memory, flagged) /\ (Lagging(Memory) => problems)
    BY DEF FaithfulInv
  <2>2. QED
    BY <2>1 DEF Fair
<1>2. QED
  BY <1>1, FaithfulInvariance, PTL
============================================================================
