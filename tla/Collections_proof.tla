-------------------------- MODULE Collections_proof --------------------------
(***************************************************************************)
(* What the sum of a function over a finite set is, and how the members of *)
(* a set of places are listed: lemmas about SumFunctionOnSet, in which the *)
(* accounts of the broker are kept, and about Ascending, by which lists    *)
(* are selected from.                                                      *)
(***************************************************************************)
EXTENDS Integers, FiniteSets, FiniteSetsExt, Selections, FiniteSetTheorems,
        WellFoundedInduction, TLAPS

\* Among subsets of a finite set one is least: none of the others is a part of it.
LEMMA LeastSubset ==
  ASSUME NEW S, IsFiniteSet(S), NEW B \in SUBSET (SUBSET S), B # {}
  PROVE  \E T \in B : \A U \in B : U \subseteq T => U = T
<1>. DEFINE R == StrictSubsetOrdering(S)
<1>1. IsWellFoundedOn(R, SUBSET S)
  BY FS_StrictSubsetOrderingWellFounded, FS_FiniteSubsetsOfFinite
<1>2. PICK T \in B : \A U \in B : ~ (<<U, T>> \in R)
  <2>. HIDE DEF R
  <2>. QED BY <1>1, WFMin
<1>3. \A U \in B : U \subseteq T => U = T
  <2>. SUFFICES ASSUME NEW U \in B, U \subseteq T, U # T PROVE FALSE
    OBVIOUS
  <2>1. <<U, T>> \in (SUBSET S) \X (SUBSET S)
    OBVIOUS
  <2>2. <<U, T>> \in R
    BY <2>1 DEF StrictSubsetOrdering
  <2>. QED BY <1>2, <2>2
<1>. QED BY <1>3

SomeOf(S) == CHOOSE x \in S : TRUE

\* g sums f over every part of S, the way the fold does.
Sums(f, S, g) == g = [T \in SUBSET S |-> IF T = {} THEN 0 ELSE f[SomeOf(T)] + g[T \ {SomeOf(T)}]]

\* SomeOf picks a member.
LEMMA SomeOfIsMember ==
  ASSUME NEW T, T # {}
  PROVE  SomeOf(T) \in T
BY DEF SomeOf

\* The sum of the library is the value, on the whole set, of what sums over it.
LEMMA SumIsFold ==
  ASSUME NEW f, NEW S
  PROVE  SumFunctionOnSet(f, S) = (CHOOSE g : Sums(f, S, g))[S]
BY Zenon DEF SumFunctionOnSet, FoldFunctionOnSet, MapThenFoldSet, Sums, SomeOf

\* What sums f over a set also does over a part of it, step by step.
LEMMA SumsUnfold ==
  ASSUME NEW f, NEW S, NEW g, Sums(f, S, g), NEW T \in SUBSET S
  PROVE  g[T] = IF T = {} THEN 0 ELSE f[SomeOf(T)] + g[T \ {SomeOf(T)}]
BY DEF Sums

\* So that it does not matter over which larger set.
LEMMA SumsAgree ==
  ASSUME NEW f, NEW S, IsFiniteSet(S), NEW g, Sums(f, S, g),
         NEW R, NEW h, Sums(f, R, h), NEW T \in SUBSET (S \cap R)
  PROVE  g[T] = h[T]
<1>. DEFINE B == {U \in SUBSET S : U \subseteq R /\ g[U] # h[U]}
<1>. SUFFICES ASSUME B # {} PROVE FALSE
  OBVIOUS
<1>1. PICK U \in B : \A V \in B : V \subseteq U => V = U
  <2>1. B \in SUBSET (SUBSET S)
    OBVIOUS
  <2>. HIDE DEF B
  <2>. QED BY <2>1, LeastSubset
<1>2. U # {}
  BY SumsUnfold
<1>3. /\ SomeOf(U) \in U
      /\ g[U] = f[SomeOf(U)] + g[U \ {SomeOf(U)}]
      /\ h[U] = f[SomeOf(U)] + h[U \ {SomeOf(U)}]
  <2>1. U \in SUBSET S /\ U \in SUBSET R
    OBVIOUS
  <2>2. SomeOf(U) \in U
    BY <1>2, SomeOfIsMember
  <2>3. g[U] = f[SomeOf(U)] + g[U \ {SomeOf(U)}]
    <3>1. g[U] = IF U = {} THEN 0 ELSE f[SomeOf(U)] + g[U \ {SomeOf(U)}]
      BY <2>1, SumsUnfold
    <3>. QED BY <1>2, <3>1
  <2>4. h[U] = f[SomeOf(U)] + h[U \ {SomeOf(U)}]
    <3>1. h[U] = IF U = {} THEN 0 ELSE f[SomeOf(U)] + h[U \ {SomeOf(U)}]
      BY <2>1, SumsUnfold
    <3>. QED BY <1>2, <3>1
  <2>. QED BY <2>2, <2>3, <2>4
<1>4. U \ {SomeOf(U)} \notin B
  BY <1>1, <1>3
<1>5. g[U \ {SomeOf(U)}] = h[U \ {SomeOf(U)}]
  BY <1>4
<1>. QED BY <1>3, <1>5

\* There is something that sums f over a finite set.
LEMMA SumsExist ==
  ASSUME NEW f, NEW S, IsFiniteSet(S)
  PROVE  \E g : Sums(f, S, g)
<1>. DEFINE B == {U \in SUBSET S : ~ \E g : Sums(f, U, g)}
<1>. SUFFICES ASSUME B # {} PROVE FALSE
  OBVIOUS
<1>1. PICK T \in B : \A V \in B : V \subseteq T => V = T
  <2>1. B \in SUBSET (SUBSET S)
    OBVIOUS
  <2>. HIDE DEF B
  <2>. QED BY <2>1, LeastSubset
<1>. DEFINE G(U) == CHOOSE g : Sums(f, U, g)
            h == [U \in SUBSET T |-> IF U = {} THEN 0 ELSE f[SomeOf(U)] + G(U \ {SomeOf(U)})[U \ {SomeOf(U)}]]
<1>2. ASSUME NEW U \in SUBSET T, U # T PROVE Sums(f, U, G(U)) /\ IsFiniteSet(U)
  <2>1. U \notin B /\ U \in SUBSET S
    BY <1>1, <1>2
  <2>2. \E g : Sums(f, U, g)
    BY <2>1
  <2>. QED BY <2>1, <2>2, FS_Subset
<1>3. ASSUME NEW U \in SUBSET T, U # T PROVE h[U] = G(U)[U]
  <2>0. Sums(f, U, G(U))
    BY <1>2, <1>3
  <2>1. CASE U = {}
    BY <2>0, <2>1, SumsUnfold
  <2>2. CASE U # {}
    <3>. DEFINE V == U \ {SomeOf(U)}
    <3>1. SomeOf(U) \in U
      BY <2>2, SomeOfIsMember
    <3>2. V \in SUBSET T /\ V # T /\ V \in SUBSET (U \cap V)
      BY <3>1
    <3>3. Sums(f, V, G(V)) /\ IsFiniteSet(U)
      BY <1>2, <1>3, <3>2
    <3>. HIDE DEF G
    <3>4. G(U)[V] = G(V)[V]
      BY <2>0, <3>2, <3>3, SumsAgree
    <3>5. G(U)[U] = f[SomeOf(U)] + G(U)[V]
      BY <2>0, <2>2, SumsUnfold
    <3>6. h[U] = f[SomeOf(U)] + G(V)[V]
      BY <2>2
    <3>. QED BY <3>4, <3>5, <3>6
  <2>. QED BY <2>1, <2>2
<1>4. h = [U \in SUBSET T |-> IF U = {} THEN 0 ELSE f[SomeOf(U)] + h[U \ {SomeOf(U)}]]
  <2>1. ASSUME NEW U \in SUBSET T, U # {}
        PROVE  h[U] = f[SomeOf(U)] + h[U \ {SomeOf(U)}]
    <3>1. SomeOf(U) \in U
      BY <2>1, SomeOfIsMember
    <3>2. U \ {SomeOf(U)} \in SUBSET T /\ U \ {SomeOf(U)} # T
      BY <3>1
    <3>3. h[U \ {SomeOf(U)}] = G(U \ {SomeOf(U)})[U \ {SomeOf(U)}]
      BY <1>3, <3>2
    <3>4. h[U] = f[SomeOf(U)] + G(U \ {SomeOf(U)})[U \ {SomeOf(U)}]
      BY <2>1
    <3>. QED BY <3>3, <3>4
  <2>2. h[{}] = 0
    OBVIOUS
  <2>3. h = [U \in SUBSET T |-> h[U]]
    OBVIOUS
  <2>. HIDE DEF h
  <2>. QED BY <2>1, <2>2, <2>3
<1>5. Sums(f, T, h)
  BY <1>4 DEF Sums
<1>. QED BY <1>1, <1>5

(***************************************************************************)
(* The sum.                                                                *)
(***************************************************************************)
\* Nothing sums up to 0, and a non-empty set to one value and the sum of the rest.
LEMMA SumUnfold ==
  ASSUME NEW f, NEW S, IsFiniteSet(S)
  PROVE  SumFunctionOnSet(f, S) =
           IF S = {} THEN 0 ELSE f[SomeOf(S)] + SumFunctionOnSet(f, S \ {SomeOf(S)})
<1>. DEFINE g(T) == CHOOSE h : Sums(f, T, h)
            R == S \ {SomeOf(S)}
<1>1. IsFiniteSet(R)
  BY FS_Subset
<1>2. Sums(f, S, g(S)) /\ Sums(f, R, g(R))
  BY <1>1, SumsExist
<1>3. SumFunctionOnSet(f, S) = g(S)[S] /\ SumFunctionOnSet(f, R) = g(R)[R]
  BY SumIsFold
<1>. HIDE DEF g
<1>4. R \in SUBSET (S \cap R)
  OBVIOUS
<1>5. g(S)[R] = g(R)[R]
  BY <1>2, <1>4, SumsAgree
<1>6. g(S)[S] = IF S = {} THEN 0 ELSE f[SomeOf(S)] + g(S)[R]
  BY <1>2, SumsUnfold
<1>. QED BY <1>3, <1>5, <1>6

\* A sum of integers is one.
LEMMA SumIsInt ==
  ASSUME NEW S, IsFiniteSet(S), NEW f, \A x \in S : f[x] \in Int
  PROVE  SumFunctionOnSet(f, S) \in Int
<1>. DEFINE B == {U \in SUBSET S : SumFunctionOnSet(f, U) \notin Int}
<1>. SUFFICES ASSUME B # {} PROVE FALSE
  OBVIOUS
<1>1. PICK T \in B : \A V \in B : V \subseteq T => V = T
  <2>1. B \in SUBSET (SUBSET S)
    OBVIOUS
  <2>. HIDE DEF B
  <2>. QED BY <2>1, LeastSubset
<1>2. IsFiniteSet(T)
  BY FS_Subset
<1>3. T # {}
  <2>1. SumFunctionOnSet(f, T) \notin Int
    OBVIOUS
  <2>2. T = {} => SumFunctionOnSet(f, T) = 0
    BY ONLY <1>2, SumUnfold
  <2>. QED BY ONLY <2>1, <2>2
<1>4. SomeOf(T) \in T
  BY <1>3, SomeOfIsMember
<1>5. SumFunctionOnSet(f, T \ {SomeOf(T)}) \in Int
  BY <1>1, <1>4
<1>6. SumFunctionOnSet(f, T) = f[SomeOf(T)] + SumFunctionOnSet(f, T \ {SomeOf(T)})
  BY <1>2, <1>3, SumUnfold
<1>. QED BY <1>4, <1>5, <1>6

\* Any member may be taken out first.
LEMMA SumRemove ==
  ASSUME NEW S, IsFiniteSet(S), NEW f, \A x \in S : f[x] \in Int, NEW x \in S
  PROVE  SumFunctionOnSet(f, S) = f[x] + SumFunctionOnSet(f, S \ {x})
<1>. DEFINE B == {U \in SUBSET S : \E y \in U : SumFunctionOnSet(f, U) # f[y] + SumFunctionOnSet(f, U \ {y})}
<1>. SUFFICES ASSUME B # {} PROVE FALSE
  OBVIOUS
<1>1. PICK T \in B : \A V \in B : V \subseteq T => V = T
  <2>1. B \in SUBSET (SUBSET S)
    OBVIOUS
  <2>. HIDE DEF B
  <2>. QED BY <2>1, LeastSubset
<1>2. PICK y \in T : SumFunctionOnSet(f, T) # f[y] + SumFunctionOnSet(f, T \ {y})
  OBVIOUS
<1>3. IsFiniteSet(T) /\ SomeOf(T) \in T
  BY FS_Subset, SomeOfIsMember
<1>. DEFINE z == SomeOf(T)
            R == (T \ {y}) \ {z}
<1>4. SumFunctionOnSet(f, T) = f[z] + SumFunctionOnSet(f, T \ {z})
  BY <1>3, SumUnfold
<1>5. z # y
  BY <1>2, <1>4
<1>6. T \ {y} \notin B /\ T \ {z} \notin B
  BY <1>1, <1>3
<1>7. SumFunctionOnSet(f, T \ {y}) = f[z] + SumFunctionOnSet(f, R)
  BY <1>3, <1>5, <1>6
<1>8. SumFunctionOnSet(f, T \ {z}) = f[y] + SumFunctionOnSet(f, R)
  <2>1. (T \ {z}) \ {y} = R /\ y \in T \ {z} /\ T \ {z} \in SUBSET S
    BY <1>5
  <2>2. SumFunctionOnSet(f, T \ {z}) = f[y] + SumFunctionOnSet(f, (T \ {z}) \ {y})
    BY <1>6, <2>1
  <2>. QED BY <2>1, <2>2
<1>9. f[y] \in Int /\ f[z] \in Int
  BY <1>3
<1>10. SumFunctionOnSet(f, R) \in Int
  <2>1. R \in SUBSET S
    OBVIOUS
  <2>2. IsFiniteSet(R) /\ \A w \in R : f[w] \in Int
    BY <2>1, FS_Subset
  <2>. HIDE DEF R
  <2>. QED BY <2>2, SumIsInt
<1>. HIDE DEF R, z
<1>. QED BY <1>2, <1>4, <1>7, <1>8, <1>9, <1>10

\* What a member adds.
LEMMA SumAdd ==
  ASSUME NEW S, IsFiniteSet(S), NEW x, x \notin S, NEW f, \A y \in S \cup {x} : f[y] \in Int
  PROVE  SumFunctionOnSet(f, S \cup {x}) = SumFunctionOnSet(f, S) + f[x]
<1>1. IsFiniteSet(S \cup {x}) /\ (S \cup {x}) \ {x} = S
  BY FS_AddElement
<1>2. SumFunctionOnSet(f, S \cup {x}) = f[x] + SumFunctionOnSet(f, S)
  <2>1. SumFunctionOnSet(f, S \cup {x}) = f[x] + SumFunctionOnSet(f, (S \cup {x}) \ {x})
    BY <1>1, SumRemove
  <2>. QED BY <1>1, <2>1
<1>3. SumFunctionOnSet(f, S) \in Int
  BY SumIsInt
<1>. QED BY <1>2, <1>3

\* Functions that are no greater on a set sum up to no more.
LEMMA SumIsMonotonic ==
  ASSUME NEW S, IsFiniteSet(S), NEW f, NEW g,
         \A x \in S : f[x] \in Int /\ g[x] \in Int /\ f[x] <= g[x]
  PROVE  SumFunctionOnSet(f, S) <= SumFunctionOnSet(g, S)
<1>. DEFINE B == {U \in SUBSET S : ~ (SumFunctionOnSet(f, U) <= SumFunctionOnSet(g, U))}
<1>. SUFFICES ASSUME B # {} PROVE FALSE
  OBVIOUS
<1>1. PICK T \in B : \A V \in B : V \subseteq T => V = T
  <2>1. B \in SUBSET (SUBSET S)
    OBVIOUS
  <2>. HIDE DEF B
  <2>. QED BY <2>1, LeastSubset
<1>2. IsFiniteSet(T)
  BY FS_Subset
<1>3. T # {}
  <2>1. SumFunctionOnSet(f, {}) = 0 /\ SumFunctionOnSet(g, {}) = 0
    BY FS_EmptySet, SumUnfold
  <2>. QED BY <2>1
<1>. DEFINE R == T \ {SomeOf(T)}
<1>4. SomeOf(T) \in T
  BY <1>3, SomeOfIsMember
<1>5. SumFunctionOnSet(f, R) <= SumFunctionOnSet(g, R)
  BY <1>1, <1>4
<1>6. /\ SumFunctionOnSet(f, T) = f[SomeOf(T)] + SumFunctionOnSet(f, R)
      /\ SumFunctionOnSet(g, T) = g[SomeOf(T)] + SumFunctionOnSet(g, R)
  BY <1>2, <1>3, SumUnfold
<1>7. SumFunctionOnSet(f, R) \in Int /\ SumFunctionOnSet(g, R) \in Int
  <2>1. IsFiniteSet(R) /\ \A x \in R : f[x] \in Int /\ g[x] \in Int
    BY <1>2, FS_Subset
  <2>. HIDE DEF R
  <2>. QED BY <2>1, SumIsInt
<1>8. f[SomeOf(T)] \in Int /\ g[SomeOf(T)] \in Int /\ f[SomeOf(T)] <= g[SomeOf(T)]
  BY <1>4
<1>. HIDE DEF R
<1>. QED BY <1>5, <1>6, <1>7, <1>8

\* A common factor comes out of a sum.
LEMMA SumScaled ==
  ASSUME NEW S, IsFiniteSet(S), NEW c \in Int, NEW f, NEW g,
         \A x \in S : f[x] \in Int /\ g[x] = f[x] * c
  PROVE  SumFunctionOnSet(g, S) = SumFunctionOnSet(f, S) * c
<1>. DEFINE B == {U \in SUBSET S : SumFunctionOnSet(g, U) # SumFunctionOnSet(f, U) * c}
<1>. SUFFICES ASSUME B # {} PROVE FALSE
  OBVIOUS
<1>1. PICK T \in B : \A V \in B : V \subseteq T => V = T
  <2>1. B \in SUBSET (SUBSET S)
    OBVIOUS
  <2>. HIDE DEF B
  <2>. QED BY <2>1, LeastSubset
<1>2. IsFiniteSet(T)
  BY FS_Subset
<1>3. T # {}
  <2>1. SumFunctionOnSet(f, {}) = 0 /\ SumFunctionOnSet(g, {}) = 0
    BY FS_EmptySet, SumUnfold
  <2>2. 0 * c = 0
    OBVIOUS
  <2>3. SumFunctionOnSet(g, {}) = SumFunctionOnSet(f, {}) * c
    BY <2>1, <2>2
  <2>. QED BY <2>3
<1>. DEFINE R == T \ {SomeOf(T)}
<1>4. SomeOf(T) \in T
  BY <1>3, SomeOfIsMember
<1>5. SumFunctionOnSet(g, R) = SumFunctionOnSet(f, R) * c
  BY <1>1, <1>4
<1>6. /\ SumFunctionOnSet(f, T) = f[SomeOf(T)] + SumFunctionOnSet(f, R)
      /\ SumFunctionOnSet(g, T) = g[SomeOf(T)] + SumFunctionOnSet(g, R)
  BY <1>2, <1>3, SumUnfold
<1>7. SumFunctionOnSet(f, R) \in Int
  <2>1. IsFiniteSet(R) /\ \A x \in R : f[x] \in Int
    BY <1>2, FS_Subset
  <2>. HIDE DEF R
  <2>. QED BY <2>1, SumIsInt
<1>8. f[SomeOf(T)] \in Int /\ g[SomeOf(T)] = f[SomeOf(T)] * c
  BY <1>4
<1>9. \A a, b \in Int : (a + b) * c = a * c + b * c
  OBVIOUS
<1>10. (f[SomeOf(T)] + SumFunctionOnSet(f, R)) * c
         = f[SomeOf(T)] * c + SumFunctionOnSet(f, R) * c
  BY <1>7, <1>8, <1>9
<1>11. SumFunctionOnSet(g, T) # SumFunctionOnSet(f, T) * c
  BY <1>1
<1>. HIDE DEF R
<1>. QED BY <1>5, <1>6, <1>8, <1>10, <1>11

\* Functions that agree on a set have the same sum there.
LEMMA SumIsLocal ==
  ASSUME NEW S, IsFiniteSet(S), NEW f, NEW g, \A x \in S : f[x] \in Int /\ f[x] = g[x]
  PROVE  SumFunctionOnSet(f, S) = SumFunctionOnSet(g, S)
<1>1. \A x \in S : f[x] \in Int /\ g[x] \in Int /\ f[x] <= g[x] /\ g[x] <= f[x]
  OBVIOUS
<1>2. SumFunctionOnSet(f, S) \in Int /\ SumFunctionOnSet(g, S) \in Int
  BY <1>1, SumIsInt
<1>3. SumFunctionOnSet(f, S) <= SumFunctionOnSet(g, S)
  BY <1>1, SumIsMonotonic
<1>4. SumFunctionOnSet(g, S) <= SumFunctionOnSet(f, S)
  BY <1>1, SumIsMonotonic
<1>. QED BY <1>2, <1>3, <1>4

\* A sum changes by as much as the one value that changes.
LEMMA SumChange ==
  ASSUME NEW S, IsFiniteSet(S), NEW f, NEW g, NEW x \in S,
         \A y \in S : f[y] \in Int /\ g[y] \in Int,
         \A y \in S \ {x} : f[y] = g[y]
  PROVE  SumFunctionOnSet(g, S) = SumFunctionOnSet(f, S) - f[x] + g[x]
<1>. DEFINE R == S \ {x}
<1>1. IsFiniteSet(R) /\ \A y \in R : f[y] \in Int /\ f[y] = g[y]
  BY FS_Subset
<1>2. /\ SumFunctionOnSet(f, S) = f[x] + SumFunctionOnSet(f, R)
      /\ SumFunctionOnSet(g, S) = g[x] + SumFunctionOnSet(g, R)
  BY SumRemove
<1>. HIDE DEF R
<1>3. SumFunctionOnSet(f, R) = SumFunctionOnSet(g, R) /\ SumFunctionOnSet(f, R) \in Int
  BY <1>1, SumIsLocal, SumIsInt
<1>. QED BY <1>2, <1>3

\* Zeros sum up to zero.
LEMMA SumOfZeros ==
  ASSUME NEW S, IsFiniteSet(S), NEW f, \A x \in S : f[x] = 0
  PROVE  SumFunctionOnSet(f, S) = 0
<1>. DEFINE B == {U \in SUBSET S : SumFunctionOnSet(f, U) # 0}
<1>. SUFFICES ASSUME B # {} PROVE FALSE
  OBVIOUS
<1>1. PICK T \in B : \A V \in B : V \subseteq T => V = T
  <2>1. B \in SUBSET (SUBSET S)
    OBVIOUS
  <2>. HIDE DEF B
  <2>. QED BY <2>1, LeastSubset
<1>2. IsFiniteSet(T)
  BY FS_Subset
<1>3. T # {}
  BY <1>2, SumUnfold
<1>4. SomeOf(T) \in T
  BY <1>3, SomeOfIsMember
<1>5. SumFunctionOnSet(f, T \ {SomeOf(T)}) = 0
  BY <1>1, <1>4
<1>6. SumFunctionOnSet(f, T) = f[SomeOf(T)] + SumFunctionOnSet(f, T \ {SomeOf(T)})
  BY <1>2, <1>3, SumUnfold
<1>. QED BY <1>4, <1>5, <1>6

\* Members that count for nothing can be left out of a sum.
LEMMA SumWhere ==
  ASSUME NEW S, IsFiniteSet(S), NEW T \in SUBSET S, NEW f, \A x \in T : f[x] \in Int,
         NEW g, \A x \in T : g[x] = f[x], \A x \in S \ T : g[x] = 0
  PROVE  SumFunctionOnSet(g, S) = SumFunctionOnSet(f, T)
<1>. DEFINE B == {U \in SUBSET (S \ T) : SumFunctionOnSet(g, T \cup U) # SumFunctionOnSet(f, T)}
<1>1. IsFiniteSet(T) /\ IsFiniteSet(S \ T)
  BY FS_Subset
<1>2. B = {}
  <2>. SUFFICES ASSUME B # {} PROVE FALSE
    OBVIOUS
  <2>1. PICK U \in B : \A V \in B : V \subseteq U => V = U
    <3>1. B \in SUBSET (SUBSET (S \ T))
      OBVIOUS
    <3>. HIDE DEF B
    <3>. QED BY <1>1, <3>1, LeastSubset
  <2>2. U # {}
    <3>1. SumFunctionOnSet(f, T) = SumFunctionOnSet(g, T)
      BY <1>1, SumIsLocal
    <3>2. T \cup {} = T
      OBVIOUS
    <3>. QED BY <3>1, <3>2
  <2>3. PICK y \in U : TRUE
    BY <2>2
  <2>. DEFINE R == T \cup (U \ {y})
  <2>4. SumFunctionOnSet(g, R) = SumFunctionOnSet(f, T)
    <3>1. U \ {y} \in SUBSET (S \ T) /\ U \ {y} # U /\ U \ {y} \subseteq U
      BY <2>3
    <3>2. U \ {y} \notin B
      BY <2>1, <3>1
    <3>. QED BY <3>1, <3>2
  <2>5. IsFiniteSet(R) /\ y \notin R /\ R \cup {y} = T \cup U /\ \A x \in R \cup {y} : g[x] \in Int
    <3>1. R \in SUBSET S /\ U \in SUBSET (S \ T)
      OBVIOUS
    <3>2. \A x \in S : g[x] \in Int
      OBVIOUS
    <3>. QED BY <3>1, <3>2, FS_Subset
  <2>6. SumFunctionOnSet(g, T \cup U) = SumFunctionOnSet(g, R) + g[y]
    <3>. HIDE DEF R
    <3>1. SumFunctionOnSet(g, R \cup {y}) = SumFunctionOnSet(g, R) + g[y]
      BY <2>5, SumAdd
    <3>. QED BY <2>5, <3>1
  <2>7. SumFunctionOnSet(f, T) \in Int /\ g[y] = 0
    BY <1>1, SumIsInt
  <2>8. SumFunctionOnSet(g, T \cup U) # SumFunctionOnSet(f, T)
    OBVIOUS
  <2>. HIDE DEF R
  <2>. QED BY <2>4, <2>6, <2>7, <2>8
<1>3. S \ T \notin B
  BY <1>2
<1>4. T \cup (S \ T) = S
  OBVIOUS
<1>. QED BY <1>3, <1>4

\* A function with one more argument sums up to its value there more.
LEMMA SumExtended ==
  ASSUME NEW f, NEW g, NEW x, IsFiniteSet(DOMAIN f), x \notin DOMAIN f,
         DOMAIN g = DOMAIN f \cup {x}, g[x] \in Int,
         \A y \in DOMAIN f : f[y] \in Int /\ g[y] = f[y]
  PROVE  SumFunction(g) = SumFunction(f) + g[x]
<1>1. SumFunctionOnSet(g, DOMAIN f \cup {x}) = SumFunctionOnSet(g, DOMAIN f) + g[x]
  BY SumAdd
<1>2. SumFunctionOnSet(f, DOMAIN f) = SumFunctionOnSet(g, DOMAIN f)
  BY SumIsLocal
<1>. QED BY <1>1, <1>2 DEF SumFunction
(***************************************************************************)
(* The order of places.                                                    *)
(***************************************************************************)
\* A finite set of places is listed in ascending order, each once.
LEMMA PlacesInOrder ==
  ASSUME NEW S \in SUBSET Nat, IsFiniteSet(S),
         NEW order, order = Ascending(S)
  PROVE  /\ Cardinality(S) \in Nat
         /\ order \in [1 .. Cardinality(S) -> S]
         /\ \A x \in S : \E i \in 1 .. Cardinality(S) : order[i] = x
         /\ \A i, j \in 1 .. Cardinality(S) : i < j => order[i] < order[j]
<1> DEFINE below(x) == {y \in S : y < x}
           r == [x \in S |-> Cardinality(below(x))]
<1>1. PICK n \in Nat : n = Cardinality(S)
  BY FS_CardinalityType
<1>2. \A x \in S : IsFiniteSet(below(x)) /\ r[x] \in Nat /\ r[x] <= n
  BY <1>1, FS_Subset, FS_CardinalityType
<1>3. ASSUME NEW x \in S, NEW y \in S, x < y
      PROVE  r[x] < r[y]
  <2>1. below(x) \subseteq below(y) /\ below(x) # below(y)
    <3>1. x \in Nat /\ y \in Nat
      OBVIOUS
    <3>2. \A z \in below(x) : z \in S /\ z \in Nat /\ z < y
      BY <1>3, <3>1
    <3>3. x \in below(y) /\ x \notin below(x)
      BY <1>3, <3>1
    <3>4. QED
      BY <3>2, <3>3
  <2>2. Cardinality(below(x)) <= Cardinality(below(y)) /\ Cardinality(below(x)) # Cardinality(below(y))
    BY <1>2, <2>1, FS_Subset
  <2>3. r[x] \in Nat /\ r[y] \in Nat /\ r[x] <= r[y] /\ r[x] # r[y]
    BY <1>2, <2>2
  <2> HIDE DEF r
  <2>4. QED
    BY <2>3
<1>4. \A x \in S : r[x] # n
  <2> SUFFICES ASSUME NEW x \in S PROVE Cardinality(below(x)) # Cardinality(S)
    BY <1>1
  <2>1. below(x) \subseteq S /\ below(x) # S
    OBVIOUS
  <2>2. QED
    BY <2>1, FS_Subset
<1>5. \A x \in S : \A i \in 1 .. n : Cardinality({y \in S : y < x}) = i - 1 <=> r[x] = i - 1
  OBVIOUS
<1>6. order = [i \in 1 .. n |-> CHOOSE x \in S : Cardinality({y \in S : y < x}) = i - 1]
  BY <1>1 DEF Ascending
<1>7. r \in [S -> 0 .. n - 1]
  BY <1>1, <1>2, <1>4
<1> HIDE DEF r, below
<1>8. \A x, y \in S : r[x] = r[y] => x = y
  <2> SUFFICES ASSUME NEW x \in S, NEW y \in S, r[x] = r[y], x # y PROVE FALSE
    OBVIOUS
  <2>1. x < y \/ y < x
    OBVIOUS
  <2>2. r[x] \in Nat /\ r[y] \in Nat
    BY <1>2
  <2>3. QED
    BY <1>3, <2>1, <2>2
<1>9. r \in Surjection(S, 0 .. n - 1)
  <2>1. r \in Injection(S, 0 .. n - 1)
    BY <1>7, <1>8 DEF Injection, IsInjective
  <2>2. IsFiniteSet(0 .. n - 1) /\ Cardinality(0 .. n - 1) = n
    <3>1. 0 \in Int /\ n - 1 \in Int
      OBVIOUS
    <3>2. IsFiniteSet(0 .. n - 1)
          /\ Cardinality(0 .. n - 1) = IF 0 > n - 1 THEN 0 ELSE (n - 1) - 0 + 1
      BY ONLY <3>1, FS_Interval
    <3>3. (IF 0 > n - 1 THEN 0 ELSE (n - 1) - 0 + 1) = n
      OBVIOUS
    <3>4. QED
      BY <3>2, <3>3
  <2>3. QED
    BY <1>1, <2>1, <2>2, FS_Injection
<1>10. ASSUME NEW i \in 1 .. n
       PROVE  order[i] \in S /\ r[order[i]] = i - 1
  <2>1. i - 1 \in 0 .. n - 1
    OBVIOUS
  <2>2. \E x \in S : r[x] = i - 1
    BY <1>9, <2>1 DEF Surjection
  <2>3. \E x \in S : Cardinality({y \in S : y < x}) = i - 1
    BY <1>5, <2>2
  <2>4. order[i] = CHOOSE x \in S : Cardinality({y \in S : y < x}) = i - 1
    BY <1>6
  <2>5. order[i] \in S /\ Cardinality({y \in S : y < order[i]}) = i - 1
    BY <2>3, <2>4
  <2>6. QED
    BY <1>5, <2>5
<1>11. order \in [1 .. n -> S]
  BY <1>6, <1>10
<1>12. ASSUME NEW x \in S
       PROVE  \E i \in 1 .. n : order[i] = x
  <2>1. r[x] \in 0 .. n - 1
    BY <1>7
  <2>2. r[x] + 1 \in 1 .. n /\ (r[x] + 1) - 1 = r[x]
    BY <2>1
  <2>3. order[r[x] + 1] \in S /\ r[order[r[x] + 1]] = r[x]
    BY <1>10, <2>2
  <2>4. order[r[x] + 1] = x
    BY <1>8, <2>3
  <2>5. QED
    BY <2>2, <2>4
<1>13. ASSUME NEW i \in 1 .. n, NEW j \in 1 .. n, i < j
       PROVE  order[i] < order[j]
  <2>1. order[i] \in S /\ order[j] \in S /\ r[order[i]] = i - 1 /\ r[order[j]] = j - 1
    BY <1>10
  <2>2. order[i] < order[j] \/ order[j] < order[i] \/ order[i] = order[j]
    <3>1. order[i] \in Nat /\ order[j] \in Nat
      BY <2>1
    <3>2. QED
      BY ONLY <3>1
  <2>3. order[j] < order[i] => r[order[j]] < r[order[i]]
    BY <1>3, <2>1
  <2>4. QED
    BY <1>13, <2>1, <2>2, <2>3
<1>14. QED
  BY <1>1, <1>11, <1>12, <1>13
==============================================================================
