------------------------- MODULE RateLimiterProofs -------------------------
(***************************************************************************)
(* Proofs about RateLimiter for every set of keys and costs, all limits,   *)
(* windows and budgets.                                                    *)
(***************************************************************************)
EXTENDS RateLimiter, FiniteSetTheorems, SequenceTheorems, WellFoundedInduction, TLAPS

\* The entries are in the order of time, one for each moment.
Ascending(s) == \A i, j \in 1..Len(s) : i < j => s[i].timestamp < s[j].timestamp

\* The reports of one moment, in a log of reports.
ReportsOf(reports, t) == {l \in DOMAIN reports : reports[l].timestamp = t}

\* What a log's reports cost together.
CostOf(reports) == Total([l \in DOMAIN reports |-> reports[l].cost], DOMAIN reports)

\* The record has one entry for every moment of the last day at which there was
\* a report, and each entry it has counts all reports of its moment.
Exact(d, reports, t) ==
    /\ Ascending(d.entries)
    /\ \A i \in 1..Len(d.entries) :
          /\ d.entries[i].timestamp <= t
          /\ d.entries[i].count = Cardinality(ReportsOf(reports, d.entries[i].timestamp))
    /\ \A l \in DOMAIN reports :
          InWindow(reports[l], t, dayWindowMs) =>
              \E i \in 1..Len(d.entries) : d.entries[i].timestamp = reports[l].timestamp
    /\ d.totalCost = CostOf(reports)

\* The log of a key's reports.
Log == Seq([timestamp : 0..MaxTime, cost : Costs])

\* The stored record is exact, and so is a loaded one, although the one is
\* pruned and the other is not.
RecordsExact ==
    /\ loaded \subseteq Keys
    /\ mem \in [Keys -> RateLimiterData] /\ disk \in [Keys -> RateLimiterData]
    /\ now \in 0..MaxTime
    /\ log \in [Keys -> Log]
    /\ \A k \in Keys \ loaded : mem[k] = createDefaultRateLimiterData
    /\ \A k \in Keys : Exact(disk[k], log[k], now)
    /\ \A k \in loaded : Exact(mem[k], log[k], now)

\* The inductive invariant.
IndInv ==
    /\ RecordsExact
    /\ pending \in [Keys -> 0..MaxPending]
    /\ OvershootBounded

-----------------------------------------------------------------------------
(* Sums over finite sets: Total *)

\* The element that the sum takes off a set first.
Pick(s) == CHOOSE x \in s : TRUE

\* g sums f over every subset of S, by the recursion of MapThenFoldSet.
Sums(f, S, g) ==
    g = [s \in SUBSET S |-> IF s = {} THEN 0 ELSE f[Pick(s)] + g[s \ {Pick(s)}]]

\* The sum that this recursion defines.
SumOver(f, S) == (CHOOSE g : Sums(f, S, g))[S]

\* Total, with its recursion in sight.
LEMMA TotalIsSum ==
    ASSUME NEW f, NEW S
    PROVE  Total(f, S) = SumOver(f, S)
BY DEF Total, SumOver, Sums, Pick, MapThenSumSet, MapThenFoldSet

\* A set of subsets of a finite set has a member that holds no other: induction,
\* in the form of the smallest counterexample.
LEMMA Smallest ==
    ASSUME NEW S, IsFiniteSet(S), NEW B, B \subseteq SUBSET S, B # {}
    PROVE  \E T \in B : \A U \in B : U \subseteq T => U = T
<1>1. B \subseteq FiniteSubsetsOf(S)
  BY FS_FiniteSubsetsOfFinite
<1>2. IsWellFoundedOn(StrictSubsetOrdering(S), FiniteSubsetsOf(S))
  BY FS_StrictSubsetOrderingWellFounded
<1>3. PICK T \in B : \A U \in B : ~(<<U, T>> \in StrictSubsetOrdering(S))
  BY <1>1, <1>2, WFMin
<1>4. ASSUME NEW U \in B, U \subseteq T, U # T
      PROVE  FALSE
  <2>1. <<U, T>> \in StrictSubsetOrdering(S)
    BY <1>4 DEF StrictSubsetOrdering
  <2>. QED  BY <1>3, <2>1
<1>. QED  BY <1>4

\* Two solutions agree where both are defined.
LEMMA SumsUnique ==
    ASSUME NEW f, NEW S, IsFiniteSet(S), NEW R, IsFiniteSet(R),
           NEW g, Sums(f, S, g), NEW h, Sums(f, R, h)
    PROVE  \A T \in (SUBSET S) \cap (SUBSET R) : g[T] = h[T]
<1>. DEFINE B == {T \in SUBSET S : T \subseteq R /\ g[T] # h[T]}
<1>. SUFFICES ASSUME B # {} PROVE FALSE
  OBVIOUS
<1>1. PICK T \in B : \A U \in B : U \subseteq T => U = T
  <2>. B \subseteq SUBSET S  OBVIOUS
  <2>. HIDE DEF B
  <2>. QED  BY Smallest
<1>2. T # {}
  BY DEF Sums
<1>3. Pick(T) \in T
  BY <1>2 DEF Pick
<1>4. g[T \ {Pick(T)}] = h[T \ {Pick(T)}]
  BY <1>1, <1>3
<1>5. g[T] = f[Pick(T)] + g[T \ {Pick(T)}] /\ h[T] = f[Pick(T)] + h[T \ {Pick(T)}]
  BY <1>2 DEF Sums
<1>. QED  BY <1>4, <1>5

\* The recursion has a solution.
LEMMA SumsExist ==
    ASSUME NEW f, NEW S, IsFiniteSet(S)
    PROVE  \E g : Sums(f, S, g)
<1>. DEFINE B == {T \in SUBSET S : ~\E g : Sums(f, T, g)}
<1>. SUFFICES ASSUME B # {} PROVE FALSE
  OBVIOUS
<1>1. PICK T \in B : \A U \in B : U \subseteq T => U = T
  <2>. B \subseteq SUBSET S  OBVIOUS
  <2>. HIDE DEF B
  <2>. QED  BY Smallest
<1>. DEFINE Sol(U) == CHOOSE g : Sums(f, U, g)
            g == [U \in SUBSET T |->
                     IF U = {} THEN 0
                     ELSE f[Pick(U)] + Sol(U \ {Pick(U)})[U \ {Pick(U)}]]
<1>2. \A U \in SUBSET T : IsFiniteSet(U) /\ (U # {} => Pick(U) \in U)
  BY FS_Subset DEF Pick
<1>3. \A U \in SUBSET T : U # T => Sums(f, U, Sol(U))
  <2>1. \A U \in SUBSET T : U # T => \E h : Sums(f, U, h)
    BY <1>1
  <2>. QED  BY <2>1
<1>4. ASSUME NEW U \in SUBSET T, U # T
      PROVE  g[U] = Sol(U)[U]
  <2>1. CASE U = {}
    <3>. DEFINE h == Sol(U)
    <3>1. Sums(f, U, h)
      BY <1>3, <1>4
    <3>. HIDE DEF h
    <3>2. h[U] = 0
      BY <2>1, <3>1 DEF Sums
    <3>. QED  BY <2>1, <3>2 DEF h
  <2>2. CASE U # {}
    <3>. DEFINE V == U \ {Pick(U)}
    <3>1. V \in SUBSET U /\ V # T /\ V \in SUBSET T
      BY <1>2, <2>2, <1>4
    <3>2. Sums(f, U, Sol(U)) /\ Sums(f, V, Sol(V))
      BY <1>3, <1>4, <3>1
    <3>3. Sol(U)[U] = f[Pick(U)] + Sol(U)[V]
      BY <3>2, <2>2 DEF Sums
    <3>4. Sol(U)[V] = Sol(V)[V]
      <4>1. IsFiniteSet(U) /\ IsFiniteSet(V) /\ V \in (SUBSET U) \cap (SUBSET V)
        BY <1>2, <3>1
      <4>. DEFINE a == Sol(U)  b == Sol(V)
      <4>2. Sums(f, U, a) /\ Sums(f, V, b)
        BY <3>2
      <4>. HIDE DEF a, b, V
      <4>3. a[V] = b[V]
        BY <4>1, <4>2, SumsUnique
      <4>. QED  BY <4>3 DEF a, b
    <3>. QED  BY <3>3, <3>4, <2>2
  <2>. QED  BY <2>1, <2>2
<1>5. g = [U \in SUBSET T |-> IF U = {} THEN 0 ELSE f[Pick(U)] + g[U \ {Pick(U)}]]
  <2>1. ASSUME NEW U \in SUBSET T, U # {}
        PROVE  Sol(U \ {Pick(U)})[U \ {Pick(U)}] = g[U \ {Pick(U)}]
    <3>1. U \ {Pick(U)} \in SUBSET T /\ U \ {Pick(U)} # T
      BY <1>2, <2>1
    <3>. HIDE DEF g, Sol
    <3>. QED  BY <1>4, <3>1
  <2>. DEFINE h == [U \in SUBSET T |-> IF U = {} THEN 0 ELSE f[Pick(U)] + g[U \ {Pick(U)}]]
  <2>2. \A U \in SUBSET T : g[U] = h[U]
    <3>. TAKE U \in SUBSET T
    <3>1. CASE U = {}
      BY <3>1
    <3>2. CASE U # {}
      <4>. DEFINE V == U \ {Pick(U)}
      <4>1. g[U] = f[Pick(U)] + Sol(V)[V]
        BY <3>2
      <4>2. Sol(V)[V] = g[V]
        BY <3>2, <2>1
      <4>3. h[U] = f[Pick(U)] + g[V]
        <5>. HIDE DEF g
        <5>. QED  BY <3>2
      <4>. HIDE DEF g, h, V
      <4>. QED  BY <4>1, <4>2, <4>3
    <3>. QED  BY <3>1, <3>2
  <2>. QED  BY <2>2
<1>6. Sums(f, T, g)
  BY <1>5 DEF Sums
<1>. QED  BY <1>1, <1>6

\* What the sum is.
LEMMA SumUnfold ==
    ASSUME NEW f, NEW S, IsFiniteSet(S)
    PROVE  /\ SumOver(f, {}) = 0
           /\ S # {} => Pick(S) \in S /\ SumOver(f, S) = f[Pick(S)] + SumOver(f, S \ {Pick(S)})
<1>. DEFINE Sol(U) == CHOOSE g : Sums(f, U, g)
<1>1. Sums(f, {}, Sol({})) /\ Sums(f, S, Sol(S))
  BY SumsExist, FS_EmptySet
<1>2. SumOver(f, {}) = 0
  BY <1>1 DEF SumOver, Sums
<1>3. ASSUME S # {}
      PROVE  Pick(S) \in S /\ SumOver(f, S) = f[Pick(S)] + SumOver(f, S \ {Pick(S)})
  <2>1. Pick(S) \in S
    BY <1>3 DEF Pick
  <2>. DEFINE V == S \ {Pick(S)}
  <2>2. IsFiniteSet(V) /\ V \subseteq S
    BY FS_Subset
  <2>3. Sums(f, V, Sol(V))
    BY <2>2, SumsExist
  <2>4. Sol(S)[V] = Sol(V)[V]
    <3>. DEFINE a == Sol(S)  b == Sol(V)
    <3>1. Sums(f, S, a) /\ Sums(f, V, b) /\ V \in (SUBSET S) \cap (SUBSET V)
      BY <1>1, <2>2, <2>3
    <3>. HIDE DEF a, b, V
    <3>2. a[V] = b[V]
      BY <2>2, <3>1, SumsUnique
    <3>. QED  BY <3>2 DEF a, b
  <2>5. Sol(S)[S] = f[Pick(S)] + Sol(S)[V]
    BY <1>1, <1>3 DEF Sums
  <2>. QED  BY <2>1, <2>4, <2>5 DEF SumOver
<1>. QED  BY <1>2, <1>3

\* A sum of naturals is one.
LEMMA SumType ==
    ASSUME NEW f, NEW S, IsFiniteSet(S), \A x \in S : f[x] \in Nat
    PROVE  SumOver(f, S) \in Nat
<1>. DEFINE B == {T \in SUBSET S : SumOver(f, T) \notin Nat}
<1>. SUFFICES ASSUME B # {} PROVE FALSE
  OBVIOUS
<1>1. PICK T \in B : \A U \in B : U \subseteq T => U = T
  <2>. B \subseteq SUBSET S  OBVIOUS
  <2>. HIDE DEF B
  <2>. QED  BY Smallest
<1>2. IsFiniteSet(T) /\ T \subseteq S
  BY FS_Subset
<1>3. T # {}
  <2>1. SumOver(f, {}) = 0
    BY SumUnfold, FS_EmptySet
  <2>. QED  BY <2>1
<1>4. Pick(T) \in T /\ SumOver(f, T) = f[Pick(T)] + SumOver(f, T \ {Pick(T)})
  BY SumUnfold, <1>2, <1>3
<1>5. SumOver(f, T \ {Pick(T)}) \in Nat
  BY <1>1, <1>4
<1>. QED  BY <1>2, <1>4, <1>5

\* Any element may be taken off first.
LEMMA SumTakeOff ==
    ASSUME NEW f, NEW S, IsFiniteSet(S), \A x \in S : f[x] \in Nat, NEW e \in S
    PROVE  SumOver(f, S) = f[e] + SumOver(f, S \ {e})
<1>. DEFINE B == {T \in SUBSET S : \E x \in T : SumOver(f, T) # f[x] + SumOver(f, T \ {x})}
<1>. SUFFICES ASSUME B # {} PROVE FALSE
  OBVIOUS
<1>1. PICK T \in B : \A U \in B : U \subseteq T => U = T
  <2>. B \subseteq SUBSET S  OBVIOUS
  <2>. HIDE DEF B
  <2>. QED  BY Smallest
<1>2. PICK x \in T : SumOver(f, T) # f[x] + SumOver(f, T \ {x})
  OBVIOUS
<1>3. IsFiniteSet(T) /\ T \subseteq S /\ T # {} /\ IsFiniteSet(T \ {x})
  BY FS_Subset
<1>. DEFINE c == Pick(T)
<1>4. c \in T /\ SumOver(f, T) = f[c] + SumOver(f, T \ {c})
  BY SumUnfold, <1>3
<1>5. x # c
  BY <1>2, <1>4
<1>. DEFINE R == T \ {x, c}
<1>6. SumOver(f, T \ {c}) = f[x] + SumOver(f, R)
  <2>1. T \ {c} \in SUBSET S /\ T \ {c} \notin B
    BY <1>1, <1>4
  <2>2. (T \ {c}) \ {x} = R
    OBVIOUS
  <2>. QED  BY <2>1, <2>2, <1>5
<1>7. SumOver(f, T \ {x}) = f[c] + SumOver(f, R)
  <2>1. T \ {x} \in SUBSET S /\ T \ {x} \notin B
    BY <1>1
  <2>2. (T \ {x}) \ {c} = R
    OBVIOUS
  <2>. QED  BY <2>1, <2>2, <1>4, <1>5
<1>8. SumOver(f, R) \in Nat /\ f[x] \in Nat /\ f[c] \in Nat
  <2>1. IsFiniteSet(R) /\ R \subseteq S
    BY <1>3, FS_Subset
  <2>. HIDE DEF R
  <2>. QED  BY <2>1, SumType, <1>3, <1>4
<1>. HIDE DEF R, c
<1>. QED  BY <1>2, <1>4, <1>6, <1>7, <1>8

\* An element that joins adds its value.
LEMMA SumAdd ==
    ASSUME NEW f, NEW S, IsFiniteSet(S), NEW e, e \notin S,
           \A x \in S \cup {e} : f[x] \in Nat
    PROVE  SumOver(f, S \cup {e}) = SumOver(f, S) + f[e]
<1>1. IsFiniteSet(S \cup {e}) /\ (S \cup {e}) \ {e} = S /\ e \in S \cup {e}
  BY FS_AddElement
<1>2. SumOver(f, S \cup {e}) = f[e] + SumOver(f, (S \cup {e}) \ {e})
  BY <1>1, SumTakeOff
<1>3. SumOver(f, S) \in Nat
  BY SumType
<1>4. f[e] \in Nat
  OBVIOUS
<1>. QED  BY <1>1, <1>2, <1>3, <1>4

\* Two functions that agree on a set have the same sum over it.
LEMMA SumSame ==
    ASSUME NEW f, NEW g, NEW S, IsFiniteSet(S), \A x \in S : f[x] = g[x] /\ f[x] \in Nat
    PROVE  SumOver(f, S) = SumOver(g, S)
<1>. DEFINE B == {T \in SUBSET S : SumOver(f, T) # SumOver(g, T)}
<1>. SUFFICES ASSUME B # {} PROVE FALSE
  OBVIOUS
<1>1. PICK T \in B : \A U \in B : U \subseteq T => U = T
  <2>. B \subseteq SUBSET S  OBVIOUS
  <2>. HIDE DEF B
  <2>. QED  BY Smallest
<1>2. IsFiniteSet(T) /\ T \subseteq S
  BY FS_Subset
<1>3. T # {}
  <2>1. SumOver(f, {}) = 0 /\ SumOver(g, {}) = 0
    BY SumUnfold, FS_EmptySet
  <2>. QED  BY <2>1
<1>4. /\ Pick(T) \in T /\ SumOver(f, T) = f[Pick(T)] + SumOver(f, T \ {Pick(T)})
      /\ SumOver(g, T) = g[Pick(T)] + SumOver(g, T \ {Pick(T)})
  BY SumUnfold, <1>2, <1>3
<1>5. SumOver(f, T \ {Pick(T)}) = SumOver(g, T \ {Pick(T)})
  BY <1>1, <1>4
<1>. QED  BY <1>2, <1>4, <1>5

\* Of finitely many numbers one is the first.
LEMMA Least ==
    ASSUME NEW n \in Nat, NEW T, T \subseteq 1..n, T # {}
    PROVE  \E m \in T : \A j \in T : m <= j
<1>. DEFINE B == {1..i : i \in T}
<1>1. IsFiniteSet(1..n)
  BY FS_Interval
<1>2. PICK U \in B : \A V \in B : V \subseteq U => V = U
  <2>1. \A i \in T : 1..i \subseteq 1..n
    OBVIOUS
  <2>2. B \subseteq SUBSET (1..n)
    BY <2>1
  <2>3. B # {}
    OBVIOUS
  <2>. DEFINE R == 1..n
  <2>4. IsFiniteSet(R) /\ B \subseteq SUBSET R
    BY <1>1, <2>2
  <2>. HIDE DEF B, R
  <2>. QED  BY <2>3, <2>4, Smallest
<1>3. PICK m \in T : U = 1..m
  OBVIOUS
<1>4. ASSUME NEW j \in T, ~(m <= j)
      PROVE  FALSE
  <2>1. 1..j \in B /\ 1..j \subseteq 1..m
    BY <1>4
  <2>2. 1..j = 1..m
    BY <1>2, <1>3, <2>1
  <2>. QED  BY <1>4, <2>2
<1>. QED  BY <1>4

-----------------------------------------------------------------------------
(* Filters and lists in the order of time *)

\* The places a filter is asked for, in order, each once.
LEMMA ThroughPlaces ==
    ASSUME NEW n \in Nat, NEW P, P \subseteq 1..n, NEW s
    PROVE  /\ IsFiniteSet(P) /\ Cardinality(P) \in Nat
           /\ \E at \in [1..Cardinality(P) -> P] :
                 /\ \A i, j \in 1..Cardinality(P) : i < j => at[i] < at[j]
                 /\ \A p \in P : \E i \in 1..Cardinality(P) : at[i] = p
                 /\ Through(s, P) = [j \in 1..Cardinality(P) |-> s[at[j]]]
<1>. DEFINE m == Cardinality(P)
            Upto(i) == {h \in P : h <= i}
            rank == [i \in P |-> Cardinality(Upto(i))]
            at == [j \in 1..m |-> CHOOSE i \in P : Cardinality(Upto(i)) = j]
<1>1. IsFiniteSet(P) /\ m \in Nat
  <2>1. IsFiniteSet(1..n)
    BY FS_Interval
  <2>. QED  BY <2>1, FS_Subset, FS_CardinalityType
<1>2. ASSUME NEW i \in P
      PROVE  /\ IsFiniteSet(Upto(i)) /\ Cardinality(Upto(i)) \in 1..m
  <2>1. Upto(i) \in SUBSET P /\ i \in Upto(i)
    OBVIOUS
  <2>. HIDE DEF Upto
  <2>2. IsFiniteSet(Upto(i)) /\ Cardinality(Upto(i)) <= m
    BY <1>1, <2>1, FS_Subset
  <2>3. Cardinality(Upto(i)) \in Nat /\ Cardinality(Upto(i)) # 0
    BY <2>1, <2>2, FS_CardinalityType, FS_EmptySet
  <2>. QED  BY <1>1, <2>2, <2>3
<1>3. ASSUME NEW i \in P, NEW j \in P, i < j
      PROVE  Cardinality(Upto(i)) < Cardinality(Upto(j))
  <2>1. Upto(i) \in SUBSET Upto(j) /\ Upto(i) # Upto(j)
    <3>1. i \in Int /\ j \in Int /\ P \subseteq Int
      OBVIOUS
    <3>2. j \in Upto(j) /\ j \notin Upto(i)
      BY <1>3, <3>1
    <3>3. \A h \in P : h <= i => h <= j
      BY <1>3, <3>1
    <3>. QED  BY <3>2, <3>3
  <2>. HIDE DEF Upto
  <2>2. IsFiniteSet(Upto(j)) /\ Cardinality(Upto(i)) \in 1..m /\ Cardinality(Upto(j)) \in 1..m
    BY <1>2
  <2>3. /\ Cardinality(Upto(i)) <= Cardinality(Upto(j))
        /\ Cardinality(Upto(i)) # Cardinality(Upto(j))
    BY <2>1, <2>2, FS_Subset
  <2>. QED  BY <1>1, <2>2, <2>3
<1>4. rank \in Surjection(P, 1..m)
  <2>1. rank \in [P -> 1..m]
    <3>. HIDE DEF Upto
    <3>. QED  BY <1>2
  <2>2. \A i, j \in P : rank[i] = rank[j] => i = j
    <3>. SUFFICES ASSUME NEW i \in P, NEW j \in P, rank[i] = rank[j], i # j
                  PROVE  FALSE
      OBVIOUS
    <3>1. i \in Int /\ j \in Int /\ (i < j \/ j < i)
      OBVIOUS
    <3>2. rank[i] < rank[j] \/ rank[j] < rank[i]
      BY <1>3, <3>1
    <3>3. rank[i] \in Int /\ rank[j] \in Int
      BY <1>1, <2>1
    <3>. QED  BY <3>2, <3>3
  <2>3. rank \in Injection(P, 1..m)
    <3>. HIDE DEF rank, m
    <3>. QED  BY <2>1, <2>2 DEF Injection, IsInjective
  <2>4. IsFiniteSet(1..m) /\ Cardinality(1..m) = m
    BY <1>1, FS_Interval
  <2>5. rank \in Surjection(P, 1..m) <=> Cardinality(P) = Cardinality(1..m)
    <3>. DEFINE R == 1..m
    <3>1. rank \in Injection(P, R) /\ IsFiniteSet(R)
      BY <2>3, <2>4
    <3>2. rank \in Surjection(P, R) <=> Cardinality(P) = Cardinality(R)
      <4>. HIDE DEF rank, R
      <4>. QED  BY ONLY <3>1, FS_Injection
    <3>. QED  BY <3>2
  <2>. QED  BY <2>4, <2>5
<1>5. \A j \in 1..m : at[j] \in P /\ rank[at[j]] = j
  <2>1. \A j \in 1..m : \E i \in P : rank[i] = j
    <3>. HIDE DEF rank
    <3>. QED  BY <1>4 DEF Surjection
  <2>. HIDE DEF Upto
  <2>. QED  BY <2>1
<1>6. at \in [1..m -> P]
  BY <1>5
<1>7. ASSUME NEW i \in 1..m, NEW j \in 1..m, i < j
      PROVE  at[i] < at[j]
  <2>1. at[i] \in P /\ at[j] \in P /\ rank[at[i]] = i /\ rank[at[j]] = j
    BY <1>5
  <2>2. at[i] \in Int /\ at[j] \in Int /\ i \in Int /\ j \in Int
    <3>1. P \subseteq Int
      OBVIOUS
    <3>2. i \in Int /\ j \in Int
      <4>. HIDE DEF m
      <4>. QED  BY <1>1
    <3>3. at[i] \in P /\ at[j] \in P
      BY <2>1
    <3>. HIDE DEF at
    <3>. QED  BY <3>1, <3>2, <3>3
  <2>3. at[j] < at[i] => rank[at[j]] < rank[at[i]]
    <3>. HIDE DEF at, Upto
    <3>. QED  BY <1>3, <2>1
  <2>4. at[i] # at[j]
    <3>. HIDE DEF at, rank
    <3>. QED  BY <1>7, <2>1, <2>2
  <2>. HIDE DEF at, rank
  <2>. QED  BY <1>7, <2>1, <2>2, <2>3, <2>4
<1>8. ASSUME NEW p \in P
      PROVE  \E i \in 1..m : at[i] = p
  <2>. DEFINE r == rank[p]
  <2>1. r \in 1..m
    BY <1>2
  <2>2. at[r] \in P /\ rank[at[r]] = rank[p]
    BY <1>5, <2>1
  <2>3. at[r] = p
    <3>1. p \in Int /\ at[r] \in Int
      <4>1. P \subseteq Int
        OBVIOUS
      <4>. HIDE DEF at, rank, r
      <4>. QED  BY <2>2, <4>1
    <3>2. at[r] < p => rank[at[r]] < rank[p]
      <4>. HIDE DEF at, Upto, r
      <4>. QED  BY <1>3, <2>2
    <3>3. p < at[r] => rank[p] < rank[at[r]]
      <4>. HIDE DEF at, Upto, r
      <4>. QED  BY <1>3, <2>2
    <3>4. rank[p] \in Int
      BY <1>1, <2>1
    <3>. HIDE DEF at, r, rank
    <3>. QED  BY <2>2, <3>1, <3>2, <3>3, <3>4
  <2>. QED  BY <2>1, <2>3
<1>9. Through(s, P) = [j \in 1..m |-> s[at[j]]]
  <2>1. \A j \in 1..m : at[j] = CHOOSE i \in P : Cardinality({h \in P : h <= i}) = j
    OBVIOUS
  <2>2. Through(s, P) =
            [j \in 1..m |-> s[CHOOSE i \in P : Cardinality({h \in P : h <= i}) = j]]
    BY DEF Through
  <2>. HIDE DEF at, m
  <2>3. \A j \in 1..m : s[CHOOSE i \in P : Cardinality({h \in P : h <= i}) = j] = s[at[j]]
    BY <2>1
  <2>. QED  BY <2>2, <2>3
<1>. HIDE DEF at
<1>. QED  BY <1>1, <1>6, <1>7, <1>8, <1>9

\* What is known of a list of entries.
LEMMA EntryList ==
    ASSUME NEW s \in Seq(RateLimitEntry)
    PROVE  /\ Len(s) \in Nat /\ DOMAIN s = 1..Len(s) /\ s \in [1..Len(s) -> RateLimitEntry]
           /\ \A i \in 1..Len(s) : s[i].timestamp \in Nat /\ s[i].count \in Nat \ {0}
<1>1. Len(s) \in Nat /\ DOMAIN s = 1..Len(s) /\ s \in [1..Len(s) -> RateLimitEntry]
  BY LenProperties
<1>. QED  BY <1>1 DEF RateLimitEntry

\* The entries within a window are, in order, those of the list that are in it.
LEMMA LiveList ==
    ASSUME NEW s \in Seq(RateLimitEntry), Ascending(s), NEW t \in Int, NEW size \in Int
    PROVE  /\ Live(s, t, size) \in Seq(RateLimitEntry)
           /\ Ascending(Live(s, t, size))
           /\ \A i \in 1..Len(Live(s, t, size)) :
                 /\ InWindow(Live(s, t, size)[i], t, size)
                 /\ \E j \in 1..Len(s) : Live(s, t, size)[i] = s[j]
           /\ \A j \in 1..Len(s) : InWindow(s[j], t, size) =>
                 \E i \in 1..Len(Live(s, t, size)) : Live(s, t, size)[i] = s[j]
<1>. DEFINE P == {i \in 1..Len(s) : InWindow(s[i], t, size)}
            m == Cardinality(P)
            l == Live(s, t, size)
<1>1. /\ Len(s) \in Nat /\ DOMAIN s = 1..Len(s)
      /\ \A i \in 1..Len(s) : s[i] \in RateLimitEntry
  BY EntryList
<1>2. P \subseteq 1..Len(s) /\ l = Through(s, P)
  BY <1>1 DEF Live
<1>3. /\ m \in Nat
      /\ \E at \in [1..m -> P] :
            /\ \A i, j \in 1..m : i < j => at[i] < at[j]
            /\ \A p \in P : \E i \in 1..m : at[i] = p
            /\ Through(s, P) = [j \in 1..m |-> s[at[j]]]
  <2>. HIDE DEF P
  <2>. QED  BY <1>1, <1>2, ThroughPlaces
<1>4. PICK at \in [1..m -> P] :
          /\ \A i, j \in 1..m : i < j => at[i] < at[j]
          /\ \A p \in P : \E i \in 1..m : at[i] = p
          /\ Through(s, P) = [j \in 1..m |-> s[at[j]]]
  BY <1>3
<1>5. l = [j \in 1..m |-> s[at[j]]]
  BY <1>2, <1>4
<1>6. \A i \in 1..m : at[i] \in P /\ at[i] \in 1..Len(s) /\ l[i] = s[at[i]]
  <2>. HIDE DEF l
  <2>. QED  BY <1>2, <1>4, <1>5
<1>. HIDE DEF l, m
<1>7. l \in Seq(RateLimitEntry) /\ Len(l) = m
  <2>1. l \in [1..m -> RateLimitEntry]
    BY <1>1, <1>5, <1>6
  <2>2. l \in Seq(RateLimitEntry)
    BY <1>3, <2>1, SeqDef
  <2>3. DOMAIN l = 1..m /\ DOMAIN l = 1..Len(l) /\ Len(l) \in Nat
    BY <2>1, <2>2, LenProperties
  <2>. QED  BY <1>3, <2>2, <2>3
<1>8. Ascending(l)
  <2>1. ASSUME NEW i \in 1..m, NEW j \in 1..m, i < j
        PROVE  l[i].timestamp < l[j].timestamp
    <3>1. at[i] \in 1..Len(s) /\ at[j] \in 1..Len(s) /\ at[i] < at[j]
      BY <1>4, <1>6, <2>1
    <3>2. s[at[i]].timestamp < s[at[j]].timestamp
      BY <3>1 DEF Ascending
    <3>. QED  BY <1>6, <3>2
  <2>. QED  BY <1>7, <2>1 DEF Ascending
<1>9. \A i \in 1..Len(l) : InWindow(l[i], t, size) /\ \E j \in 1..Len(s) : l[i] = s[j]
  BY <1>6, <1>7
<1>10. \A j \in 1..Len(s) : InWindow(s[j], t, size) => \E i \in 1..Len(l) : l[i] = s[j]
  <2>1. \A p \in P : \E i \in 1..m : l[i] = s[p]
    BY <1>4, <1>6
  <2>. QED  BY <1>7, <2>1
<1>. QED  BY <1>7, <1>8, <1>9, <1>10 DEF l

\* Two lists, the second in the order of the numbers ta and tb, as the first,
\* that have the same elements.
SameElements(n, a, ta, m, b, tb) ==
    /\ n \in Nat /\ ta \in [1..n -> Int] /\ \A i, j \in 1..n : i < j => ta[i] < ta[j]
    /\ m \in Nat /\ tb \in [1..m -> Int] /\ \A i, j \in 1..m : i < j => tb[i] < tb[j]
    /\ \A i \in 1..n : \E j \in 1..m : a[i] = b[j] /\ ta[i] = tb[j]
    /\ \A j \in 1..m : \E i \in 1..n : tb[j] = ta[i]

\* The one begins with the other.
LEMMA BeginsWith ==
    ASSUME NEW n, NEW a, NEW ta, NEW m, NEW b, NEW tb, SameElements(n, a, ta, m, b, tb)
    PROVE  \A i \in 1..n : i <= m /\ a[i] = b[i]
<1>0. /\ n \in Nat /\ ta \in [1..n -> Int] /\ \A i, j \in 1..n : i < j => ta[i] < ta[j]
      /\ m \in Nat /\ tb \in [1..m -> Int] /\ \A i, j \in 1..m : i < j => tb[i] < tb[j]
      /\ \A i \in 1..n : \E j \in 1..m : a[i] = b[j] /\ ta[i] = tb[j]
      /\ \A j \in 1..m : \E i \in 1..n : tb[j] = ta[i]
  BY DEF SameElements
<1>. USE <1>0
<1>. DEFINE D == {i \in 1..n : ~(i <= m /\ a[i] = b[i] /\ ta[i] = tb[i])}
<1>. SUFFICES ASSUME D # {} PROVE FALSE
  OBVIOUS
<1>1. PICK i \in D : \A j \in D : i <= j
  <2>1. D \subseteq 1..n
    OBVIOUS
  <2>. HIDE DEF D
  <2>. QED  BY <2>1, Least
<1>2. i \in 1..n /\ \A h \in 1..n : h < i => h <= m /\ ta[h] = tb[h]
  <2>1. D \subseteq 1..n
    OBVIOUS
  <2>2. \A h \in 1..n : h < i => h \notin D
    <3>. HIDE DEF D
    <3>. QED  BY <1>1, <2>1
  <2>. QED  BY <2>1, <2>2
<1>3. PICK j \in 1..m : a[i] = b[j] /\ ta[i] = tb[j]
  BY <1>2
<1>4. i <= j
  <2>. SUFFICES ASSUME ~(i <= j) PROVE FALSE
    OBVIOUS
  <2>1. j < i /\ j \in 1..n
    BY <1>2
  <2>2. ta[j] = ta[i] /\ ta[j] < ta[i] /\ ta[i] \in Int
    BY <1>2, <1>3, <2>1
  <2>. QED  BY <2>2
<1>5. i \in 1..m
  BY <1>2, <1>4
<1>6. PICK h \in 1..n : tb[i] = ta[h]
  BY <1>5
<1>7. i <= h
  <2>. SUFFICES ASSUME ~(i <= h) PROVE FALSE
    OBVIOUS
  <2>1. h < i /\ h \in 1..m
    BY <1>2, <1>5
  <2>2. tb[h] = tb[i] /\ tb[h] < tb[i] /\ tb[i] \in Int
    BY <1>2, <1>5, <1>6, <2>1
  <2>. QED  BY <2>2
<1>8. i = j
  <2>. SUFFICES ASSUME i # j PROVE FALSE
    OBVIOUS
  <2>1. i < j
    BY <1>2, <1>4
  <2>2. tb[i] < tb[j]
    BY <1>5, <2>1
  <2>3. ta[i] \in Int /\ ta[h] \in Int
    BY <1>2
  <2>4. i = h \/ i < h
    BY <1>2, <1>7
  <2>5. i = h \/ ta[i] < ta[h]
    BY <1>2, <2>4
  <2>6. ta[i] <= ta[h]
    <3>1. CASE i = h
      <4>1. ta[i] = ta[h]
        BY <3>1
      <4>. HIDE DEF D
      <4>. QED  BY ONLY <2>3, <4>1
    <3>2. CASE ta[i] < ta[h]
      <4>. HIDE DEF D
      <4>. QED  BY ONLY <2>3, <3>2
    <3>. QED  BY <2>5, <3>1, <3>2
  <2>. QED  BY <1>3, <1>6, <2>2, <2>3, <2>6
<1>. QED  BY <1>1, <1>3, <1>5, <1>8

\* Two lists in the order of time that have the same entries are the same.
LEMMA SameList ==
    ASSUME NEW a \in Seq(RateLimitEntry), Ascending(a),
           NEW b \in Seq(RateLimitEntry), Ascending(b),
           \A i \in 1..Len(a) : \E j \in 1..Len(b) : a[i] = b[j],
           \A j \in 1..Len(b) : \E i \in 1..Len(a) : b[j] = a[i]
    PROVE  a = b
<1>. DEFINE n == Len(a)  ta == [i \in 1..n |-> a[i].timestamp]
            m == Len(b)  tb == [i \in 1..m |-> b[i].timestamp]
<1>1. n \in Nat /\ m \in Nat /\ ta \in [1..n -> Int] /\ tb \in [1..m -> Int]
  BY EntryList
<1>2. /\ \A i, j \in 1..n : i < j => ta[i] < ta[j]
      /\ \A i, j \in 1..m : i < j => tb[i] < tb[j]
  BY DEF Ascending
<1>3. /\ \A i \in 1..n : \E j \in 1..m : a[i] = b[j] /\ ta[i] = tb[j]
      /\ \A j \in 1..m : \E i \in 1..n : b[j] = a[i] /\ tb[j] = ta[i]
  OBVIOUS
<1>. HIDE DEF n, m, ta, tb
<1>4. \A i \in 1..n : i <= m /\ a[i] = b[i]
  <2>1. SameElements(n, a, ta, m, b, tb)
    BY <1>1, <1>2, <1>3 DEF SameElements
  <2>. QED  BY <2>1, BeginsWith
<1>5. \A i \in 1..m : i <= n /\ b[i] = a[i]
  <2>1. SameElements(m, b, tb, n, a, ta)
    BY <1>1, <1>2, <1>3 DEF SameElements
  <2>. QED  BY <2>1, BeginsWith
<1>6. n = m
  <2>1. (n # 0 => n \in 1..n) /\ (m # 0 => m \in 1..m)
    BY <1>1
  <2>2. n <= m
    BY ONLY <1>1, <1>4, <2>1
  <2>3. m <= n
    BY ONLY <1>1, <1>5, <2>1
  <2>. QED  BY <1>1, <2>2, <2>3
<1>. QED  BY <1>4, <1>6, SeqEqual DEF n, m

-----------------------------------------------------------------------------
(* Counting reports *)

\* Each number is the size of a set, and the sets are disjoint.
Sizes(P, D, f, of) ==
    /\ IsFiniteSet(P) /\ IsFiniteSet(D)
    /\ \A i \in P : of[i] \subseteq D /\ f[i] = Cardinality(of[i])
    /\ \A i, j \in P : i # j => of[i] \cap of[j] = {}

\* The sum of such numbers is the size of the union.
LEMMA SumOfSizes ==
    ASSUME NEW P, NEW D, NEW f, NEW of, Sizes(P, D, f, of)
    PROVE  SumOver(f, P) = Cardinality(UNION {of[i] : i \in P})
<1>. DEFINE All(T) == UNION {of[i] : i \in T}
            B == {T \in SUBSET P : SumOver(f, T) # Cardinality(All(T))}
<1>0. /\ IsFiniteSet(P) /\ IsFiniteSet(D)
      /\ \A i \in P : of[i] \subseteq D /\ f[i] = Cardinality(of[i])
      /\ \A i, j \in P : i # j => of[i] \cap of[j] = {}
  BY DEF Sizes
<1>. USE <1>0
<1>. SUFFICES ASSUME B # {} PROVE FALSE
  <2>1. P \in SUBSET P
    OBVIOUS
  <2>. QED  BY <2>1
<1>1. PICK T \in B : \A U \in B : U \subseteq T => U = T
  <2>. B \subseteq SUBSET P  OBVIOUS
  <2>. HIDE DEF B
  <2>. QED  BY Smallest
<1>2. IsFiniteSet(T) /\ T \subseteq P
  BY FS_Subset
<1>3. T # {}
  <2>1. SumOver(f, {}) = 0
    BY SumUnfold, FS_EmptySet
  <2>2. All({}) = {} /\ Cardinality({}) = 0
    BY FS_EmptySet
  <2>. QED  BY <2>1, <2>2
<1>. DEFINE c == Pick(T)
            U == T \ {c}
<1>4. c \in T /\ SumOver(f, T) = f[c] + SumOver(f, U)
  BY SumUnfold, <1>2, <1>3
<1>5. SumOver(f, U) = Cardinality(All(U))
  <2>1. U \in SUBSET P /\ U # T /\ U \subseteq T
    BY <1>2, <1>4
  <2>. QED  BY <1>1, <2>1
<1>6. All(T) = of[c] \cup All(U) /\ of[c] \cap All(U) = {}
  <2>1. \A i \in U : i \in P /\ c \in P /\ i # c
    BY <1>2, <1>4
  <2>2. \A i \in U : of[i] \cap of[c] = {}
    BY <2>1
  <2>3. T = U \cup {c}
    BY <1>4
  <2>. HIDE DEF c, U
  <2>. QED  BY <2>2, <2>3
<1>7. IsFiniteSet(of[c]) /\ IsFiniteSet(All(U)) /\ f[c] = Cardinality(of[c])
  <2>1. of[c] \subseteq D /\ f[c] = Cardinality(of[c])
    BY <1>2, <1>4
  <2>2. All(U) \subseteq D
    BY <1>2
  <2>. QED  BY <2>1, <2>2, FS_Subset
<1>8. Cardinality(All(T)) = Cardinality(of[c]) + Cardinality(All(U))
  <2>. DEFINE X == of[c]
              Y == All(U)
  <2>1. IsFiniteSet(X) /\ IsFiniteSet(Y) /\ X \cap Y = {} /\ All(T) = X \cup Y
    BY <1>6, <1>7
  <2>. HIDE DEF X, Y, All
  <2>2. Cardinality(X \cup Y) = Cardinality(X) + Cardinality(Y) - Cardinality({})
    BY <2>1, FS_Union
  <2>3. Cardinality(X) \in Nat /\ Cardinality(Y) \in Nat /\ Cardinality({}) = 0
    BY <2>1, FS_CardinalityType, FS_EmptySet
  <2>4. Cardinality(All(T)) = Cardinality(X) + Cardinality(Y)
    BY <2>1, <2>2, <2>3
  <2>. QED  BY <2>4 DEF X, Y
<1>9. SumOver(f, T) = Cardinality(All(T))
  BY <1>4, <1>5, <1>7, <1>8
<1>. QED  BY <1>1, <1>9

\* What is known of a log.
LEMMA LogList ==
    ASSUME NEW r \in Log
    PROVE  /\ Len(r) \in Nat /\ DOMAIN r = 1..Len(r) /\ IsFiniteSet(DOMAIN r)
           /\ \A l \in 1..Len(r) : r[l].timestamp \in 0..MaxTime /\ r[l].cost \in Costs
<1>1. /\ Len(r) \in Nat /\ DOMAIN r = 1..Len(r)
      /\ r \in [1..Len(r) -> [timestamp : 0..MaxTime, cost : Costs]]
  BY LenProperties DEF Log
<1>2. IsFiniteSet(1..Len(r))
  BY <1>1, FS_Interval
<1>. QED  BY <1>1, <1>2

\* The reports of a window, of any log.
Window(r, t, size) == {l \in DOMAIN r : InWindow(r[l], t, size)}

\* The entries of a window count the reports of the window.
LEMMA CountIsExact ==
    ASSUME NEW d \in RateLimiterData, NEW r \in Log, NEW t \in Nat, Exact(d, r, t),
           NEW size \in Nat, size <= dayWindowMs
    PROVE  CountAt(d.entries, {i \in DOMAIN d.entries : InWindow(d.entries[i], t, size)})
              = Cardinality(Window(r, t, size))
<1>. DEFINE s == d.entries
            n == Len(s)
            P == {i \in DOMAIN s : InWindow(s[i], t, size)}
            ts == [i \in 1..n |-> s[i].timestamp]
            rs == [l \in DOMAIN r |-> r[l].timestamp]
            f == [i \in DOMAIN s |-> s[i].count]
            of == [i \in 1..n |-> {l \in DOMAIN r : rs[l] = ts[i]}]
<1>1. s \in Seq(RateLimitEntry)
  BY DEF RateLimiterData
<1>2. n \in Nat /\ DOMAIN s = 1..n /\ ts \in [1..n -> Nat]
  BY <1>1, EntryList
<1>3. IsFiniteSet(DOMAIN r) /\ rs \in [DOMAIN r -> Nat]
  BY LogList, BoundAssumption
<1>4. \A i \in 1..n : f[i] = Cardinality(of[i])
  BY <1>2 DEF Exact, ReportsOf
<1>5. \A i, j \in 1..n : i < j => ts[i] < ts[j]
  BY DEF Exact, Ascending
<1>6. P = {i \in 1..n : ts[i] > t - size}
  BY <1>2 DEF InWindow
<1>7. Window(r, t, size) = {l \in DOMAIN r : rs[l] > t - size}
  BY DEF Window, InWindow
<1>8. \A l \in DOMAIN r : rs[l] > t - dayWindowMs => \E i \in 1..n : ts[i] = rs[l]
  BY DEF Exact, InWindow
<1>9. CountAt(s, P) = SumOver(f, P)
  BY TotalIsSum DEF CountAt
<1>. HIDE DEF s, n, P, ts, rs, f
<1>10. IsFiniteSet(P) /\ P \subseteq 1..n
  <2>1. IsFiniteSet(1..n)
    BY <1>2, FS_Interval
  <2>. QED  BY <1>6, <2>1, FS_Subset
<1>11. \A i, j \in 1..n : i # j => ts[i] # ts[j]
  <2>. SUFFICES ASSUME NEW i \in 1..n, NEW j \in 1..n, i # j, ts[i] = ts[j]
                PROVE  FALSE
    OBVIOUS
  <2>1. i < j \/ j < i
    BY <1>2
  <2>2. ts[i] < ts[j] \/ ts[j] < ts[i]
    BY <1>5, <2>1
  <2>3. ts[i] \in Int /\ ts[j] \in Int
    BY <1>2
  <2>. QED  BY <2>2, <2>3
<1>12. Sizes(P, DOMAIN r, f, of)
  <2>1. \A i \in P : i \in 1..n /\ of[i] = {l \in DOMAIN r : rs[l] = ts[i]}
    BY <1>10
  <2>. HIDE DEF of
  <2>2. \A i \in P : of[i] \subseteq DOMAIN r /\ f[i] = Cardinality(of[i])
    BY <1>4, <2>1
  <2>3. \A i, j \in P : i # j => of[i] \cap of[j] = {}
    BY <1>11, <2>1
  <2>. QED  BY <1>3, <1>10, <2>2, <2>3 DEF Sizes
<1>13. UNION {of[i] : i \in P} = Window(r, t, size)
  <2>1. ASSUME NEW i \in P, NEW l \in of[i]
        PROVE  l \in Window(r, t, size)
    BY <1>6, <1>7, <1>10, <2>1
  <2>2. ASSUME NEW l \in Window(r, t, size)
        PROVE  \E i \in P : l \in of[i]
    <3>1. l \in DOMAIN r /\ rs[l] > t - size /\ rs[l] \in Nat
      BY <1>3, <1>7
    <3>2. rs[l] > t - dayWindowMs
      BY <3>1, WindowAssumption
    <3>3. PICK i \in 1..n : ts[i] = rs[l]
      BY <1>8, <3>1, <3>2
    <3>. QED  BY <1>6, <3>1, <3>3
  <2>. HIDE DEF of
  <2>. QED  BY <2>1, <2>2
<1>14. SumOver(f, P) = Cardinality(UNION {of[i] : i \in P})
  <2>. HIDE DEF of
  <2>. QED  BY <1>12, SumOfSizes
<1>15. CountAt(s, P) = Cardinality(Window(r, t, size))
  BY <1>9, <1>13, <1>14
<1>. QED  BY <1>15 DEF s, P

\* Since the entries are in the order of time, the scan from the newest one
\* stops after the last one that is in the window.
LEMMA ScanStops ==
    ASSUME NEW s \in Seq(RateLimitEntry), Ascending(s), NEW t \in Int, NEW size \in Int
    PROVE  {i \in DOMAIN s : \A j \in i..Len(s) : InWindow(s[j], t, size)}
              = {i \in DOMAIN s : InWindow(s[i], t, size)}
<1>. DEFINE n == Len(s)
            ts == [i \in 1..n |-> s[i].timestamp]
<1>1. n \in Nat /\ DOMAIN s = 1..n /\ ts \in [1..n -> Nat]
  BY EntryList
<1>2. \A i, j \in 1..n : i < j => ts[i] < ts[j]
  BY DEF Ascending
<1>3. \A i \in 1..n : InWindow(s[i], t, size) <=> ts[i] > t - size
  BY DEF InWindow
<1>. HIDE DEF n, ts
<1>4. ASSUME NEW i \in 1..n, ts[i] > t - size, NEW j \in i..n
      PROVE  j \in 1..n /\ ts[j] > t - size
  <2>1. j \in 1..n /\ (i = j \/ i < j)
    BY <1>1
  <2>2. i = j \/ ts[i] < ts[j]
    BY <1>2, <2>1
  <2>3. ts[i] \in Int /\ ts[j] \in Int
    BY <1>1, <2>1
  <2>. QED  BY <1>4, <2>1, <2>2, <2>3
<1>5. \A i \in 1..n : i \in i..n
  BY <1>1
<1>6. {i \in 1..n : \A j \in i..n : InWindow(s[j], t, size)}
         = {i \in 1..n : InWindow(s[i], t, size)}
  <2>1. ASSUME NEW i \in 1..n, InWindow(s[i], t, size), NEW j \in i..n
        PROVE  InWindow(s[j], t, size)
    BY <1>3, <1>4, <2>1
  <2>. QED  BY <1>5, <2>1
<1>. QED  BY <1>1, <1>6 DEF n

-----------------------------------------------------------------------------
(* What the operations do to an exact record *)

\* A record is given by its two fields.
LEMMA RecordFields ==
    ASSUME NEW d \in RateLimiterData
    PROVE  /\ d = [entries |-> d.entries, totalCost |-> d.totalCost]
           /\ d.entries \in Seq(RateLimitEntry) /\ d.totalCost \in Nat
BY DEF RateLimiterData

\* An entry is given by its moment and its count.
LEMMA EntryFields ==
    ASSUME NEW e \in RateLimitEntry, NEW h \in RateLimitEntry,
           e.timestamp = h.timestamp, e.count = h.count
    PROVE  e = h
BY DEF RateLimitEntry

\* Pruning keeps a record exact, and leaves nothing that is out of the day.
LEMMA PruneExact ==
    ASSUME NEW d \in RateLimiterData, NEW r \in Log, NEW t \in Nat, Exact(d, r, t)
    PROVE  /\ pruneExpiredEntries(d, t) \in RateLimiterData
           /\ pruneExpiredEntries(d, t) =
                 [entries |-> Live(d.entries, t, dayWindowMs), totalCost |-> d.totalCost]
           /\ Exact(pruneExpiredEntries(d, t), r, t)
<1>. DEFINE s == d.entries
            l == Live(s, t, dayWindowMs)
            p == [entries |-> l, totalCost |-> d.totalCost]
<1>1. s \in Seq(RateLimitEntry) /\ d.totalCost \in Nat
  BY RecordFields
<1>2. Ascending(s) /\ t \in Int /\ dayWindowMs \in Int
  BY WindowAssumption DEF Exact
<1>3. pruneExpiredEntries(d, t) = p
  BY RecordFields DEF pruneExpiredEntries
<1>4. /\ l \in Seq(RateLimitEntry) /\ Ascending(l)
      /\ \A i \in 1..Len(l) : \E j \in 1..Len(s) : l[i] = s[j]
      /\ \A j \in 1..Len(s) : InWindow(s[j], t, dayWindowMs) => \E i \in 1..Len(l) : l[i] = s[j]
  <2>. HIDE DEF s
  <2>. QED  BY <1>1, <1>2, LiveList
<1>5. p \in RateLimiterData /\ p.entries = l /\ p.totalCost = d.totalCost
  BY <1>1, <1>4 DEF RateLimiterData
<1>6. \A i \in 1..Len(s) :
         s[i].timestamp <= t /\ s[i].count = Cardinality(ReportsOf(r, s[i].timestamp))
  BY DEF Exact
<1>7. \A k \in DOMAIN r : InWindow(r[k], t, dayWindowMs) =>
         \E i \in 1..Len(s) : s[i].timestamp = r[k].timestamp
  BY DEF Exact
<1>8. \A i \in 1..Len(s), k \in DOMAIN r :
         s[i].timestamp = r[k].timestamp =>
            (InWindow(s[i], t, dayWindowMs) <=> InWindow(r[k], t, dayWindowMs))
  BY DEF InWindow
<1>. HIDE DEF l, s
<1>9. \A i \in 1..Len(l) :
         l[i].timestamp <= t /\ l[i].count = Cardinality(ReportsOf(r, l[i].timestamp))
  BY <1>4, <1>6
<1>10. \A k \in DOMAIN r : InWindow(r[k], t, dayWindowMs) =>
          \E i \in 1..Len(l) : l[i].timestamp = r[k].timestamp
  <2>. SUFFICES ASSUME NEW k \in DOMAIN r, InWindow(r[k], t, dayWindowMs)
                PROVE  \E i \in 1..Len(l) : l[i].timestamp = r[k].timestamp
    OBVIOUS
  <2>1. PICK j \in 1..Len(s) : s[j].timestamp = r[k].timestamp
    BY <1>7
  <2>2. PICK i \in 1..Len(l) : l[i] = s[j]
    BY <1>4, <1>8, <2>1
  <2>. QED  BY <2>1, <2>2
<1>11. d.totalCost = CostOf(r)
  BY DEF Exact
<1>12. Exact(p, r, t)
  <2>. HIDE DEF p
  <2>. QED  BY <1>4, <1>5, <1>9, <1>10, <1>11 DEF Exact
<1>. QED  BY <1>3, <1>5, <1>12 DEF l, s

\* Two exact records are the same once they are pruned.
LEMMA PrunedAgree ==
    ASSUME NEW d \in RateLimiterData, NEW e \in RateLimiterData, NEW r \in Log, NEW t \in Nat,
           Exact(d, r, t), Exact(e, r, t)
    PROVE  pruneExpiredEntries(d, t) = pruneExpiredEntries(e, t)
<1>1. ASSUME NEW x \in RateLimiterData, NEW y \in RateLimiterData,
             Exact(x, r, t), Exact(y, r, t),
             NEW i \in 1..Len(Live(x.entries, t, dayWindowMs))
      PROVE  \E j \in 1..Len(Live(y.entries, t, dayWindowMs)) :
                 Live(x.entries, t, dayWindowMs)[i] = Live(y.entries, t, dayWindowMs)[j]
  <2>. DEFINE a == x.entries
              b == y.entries
              w == Live(a, t, dayWindowMs)[i]
  <2>1. /\ a \in Seq(RateLimitEntry) /\ Ascending(a) /\ b \in Seq(RateLimitEntry)
        /\ Ascending(b) /\ t \in Int /\ dayWindowMs \in Int
    BY RecordFields, <1>1, WindowAssumption DEF Exact
  <2>2. InWindow(w, t, dayWindowMs) /\ \E h \in 1..Len(a) : w = a[h]
    <3>1. i \in 1..Len(Live(a, t, dayWindowMs))
      OBVIOUS
    <3>. HIDE DEF a
    <3>2. \A g \in 1..Len(Live(a, t, dayWindowMs)) :
             /\ InWindow(Live(a, t, dayWindowMs)[g], t, dayWindowMs)
             /\ \E h \in 1..Len(a) : Live(a, t, dayWindowMs)[g] = a[h]
      BY <2>1, LiveList
    <3>. QED  BY <3>1, <3>2
  <2>3. PICK h \in 1..Len(a) : w = a[h]
    BY <2>2
  <2>4. w \in RateLimitEntry /\ w.count \in Nat \ {0}
    <3>. HIDE DEF a, w
    <3>. QED  BY <2>1, <2>3, EntryList
  <2>5. w.count = Cardinality(ReportsOf(r, w.timestamp))
    <3>1. a[h].count = Cardinality(ReportsOf(r, a[h].timestamp))
      BY <1>1 DEF Exact
    <3>. HIDE DEF a, w
    <3>. QED  BY <2>3, <3>1
  <2>6. PICK k \in DOMAIN r : r[k].timestamp = w.timestamp
    <3>. HIDE DEF w
    <3>1. ReportsOf(r, w.timestamp) # {}
      <4>. SUFFICES ASSUME ReportsOf(r, w.timestamp) = {} PROVE FALSE
        OBVIOUS
      <4>1. w.count = 0
        BY <2>5, FS_EmptySet
      <4>. QED  BY <2>4, <4>1
    <3>. QED  BY <3>1 DEF ReportsOf
  <2>7. PICK g \in 1..Len(b) : b[g].timestamp = r[k].timestamp
    <3>1. InWindow(r[k], t, dayWindowMs)
      <4>. HIDE DEF w
      <4>. QED  BY <2>2, <2>6 DEF InWindow
    <3>. QED  BY <1>1, <3>1 DEF Exact
  <2>8. b[g] = w
    <3>1. b[g].count = Cardinality(ReportsOf(r, b[g].timestamp))
      BY <1>1 DEF Exact
    <3>. HIDE DEF b, w
    <3>2. b[g] \in RateLimitEntry
      BY <2>1, EntryList
    <3>3. b[g].timestamp = w.timestamp
      BY <2>6, <2>7
    <3>4. b[g].count = w.count
      BY <2>5, <3>1, <3>3
    <3>. QED  BY <2>4, <3>2, <3>3, <3>4, EntryFields
  <2>9. \E j \in 1..Len(Live(b, t, dayWindowMs)) : Live(b, t, dayWindowMs)[j] = b[g]
    <3>1. InWindow(b[g], t, dayWindowMs)
      <4>. HIDE DEF b, w
      <4>. QED  BY <2>2, <2>8
    <3>. HIDE DEF b
    <3>. QED  BY <2>1, <3>1, LiveList
  <2>. QED  BY <2>8, <2>9
<1>. DEFINE a == Live(d.entries, t, dayWindowMs)
            b == Live(e.entries, t, dayWindowMs)
<1>2. \A i \in 1..Len(a) : \E j \in 1..Len(b) : a[i] = b[j]
  BY <1>1
<1>3. \A j \in 1..Len(b) : \E i \in 1..Len(a) : b[j] = a[i]
  BY <1>1
<1>4. a \in Seq(RateLimitEntry) /\ Ascending(a) /\ b \in Seq(RateLimitEntry) /\ Ascending(b)
  <2>1. /\ d.entries \in Seq(RateLimitEntry) /\ Ascending(d.entries)
        /\ e.entries \in Seq(RateLimitEntry) /\ Ascending(e.entries)
        /\ t \in Int /\ dayWindowMs \in Int
    BY RecordFields, WindowAssumption DEF Exact
  <2>. QED  BY <2>1, LiveList
<1>5. a = b
  <2>. HIDE DEF a, b
  <2>. QED  BY <1>2, <1>3, <1>4, SameList
<1>6. d.totalCost = e.totalCost
  BY DEF Exact
<1>. QED  BY <1>5, <1>6, PruneExact

\* A report that is counted is one more of its moment, and adds its cost.
LEMMA LogAppend ==
    ASSUME NEW r \in Log, NEW t \in 0..MaxTime, NEW cost \in Costs,
           NEW e, e = [timestamp |-> t, cost |-> cost]
    PROVE  /\ Append(r, e) \in Log /\ CostOf(Append(r, e)) = CostOf(r) + cost
           /\ CostOf(r) \in Nat
           /\ Len(Append(r, e)) = Len(r) + 1 /\ DOMAIN Append(r, e) = 1..(Len(r) + 1)
           /\ \A l \in 1..Len(r) : Append(r, e)[l] = r[l]
           /\ Append(r, e)[Len(r) + 1] = e
<1>. DEFINE q == Append(r, e)
            n == Len(r)
            f == [l \in DOMAIN r |-> r[l].cost]
            g == [l \in DOMAIN q |-> q[l].cost]
<1>1. /\ n \in Nat /\ DOMAIN r = 1..n /\ IsFiniteSet(DOMAIN r)
      /\ \A l \in 1..n : r[l].cost \in Nat
  BY LogList, BoundAssumption
<1>2. e \in [timestamp : 0..MaxTime, cost : Costs] /\ e.cost = cost /\ cost \in Nat
  BY BoundAssumption
<1>3. /\ q \in Log /\ Len(q) = n + 1
      /\ (\A l \in 1..n : q[l] = r[l]) /\ q[n + 1] = e
  <2>. DEFINE T == [timestamp : 0..MaxTime, cost : Costs]
  <2>1. r \in Seq(T) /\ e \in T
    BY <1>2 DEF Log
  <2>2. q \in Seq(T) /\ Len(q) = n + 1 /\ (\A l \in 1..n : q[l] = r[l]) /\ q[n + 1] = e
    <3>. HIDE DEF T
    <3>. QED  BY <2>1, AppendProperties
  <2>. QED  BY <2>2 DEF Log
<1>4. DOMAIN q = 1..(n + 1)
  <2>1. DOMAIN q = 1..Len(q)
    BY <1>3, LogList
  <2>. QED  BY <1>3, <2>1
<1>5. CostOf(r) = SumOver(f, 1..n) /\ CostOf(q) = SumOver(g, 1..(n + 1))
  BY <1>1, <1>4, TotalIsSum DEF CostOf
<1>6. /\ \A l \in 1..n : f[l] \in Nat /\ f[l] = g[l]
      /\ g[n + 1] = cost
  <2>1. \A l \in 1..n : f[l] = r[l].cost /\ l \in 1..(n + 1)
    BY <1>1
  <2>2. \A l \in 1..(n + 1) : g[l] = q[l].cost
    BY <1>4
  <2>3. n + 1 \in 1..(n + 1)
    BY <1>1
  <2>. HIDE DEF f, g, q, n
  <2>4. g[n + 1] = cost
    BY <1>2, <1>3, <2>2, <2>3
  <2>. QED  BY <1>1, <1>3, <2>1, <2>2, <2>4
<1>. HIDE DEF f, g, q, n
<1>. DEFINE P == 1..n
<1>7. IsFiniteSet(P) /\ (n + 1) \notin P /\ P \cup {n + 1} = 1..(n + 1)
  <2>1. IsFiniteSet(P)
    BY <1>1, FS_Interval
  <2>2. \A x : x \in 1..(n + 1) <=> x \in 1..n \/ x = n + 1
    BY <1>1
  <2>3. (n + 1) \notin 1..n
    BY <1>1
  <2>. QED  BY <2>1, <2>2, <2>3
<1>8. /\ \A l \in P : f[l] \in Nat /\ f[l] = g[l]
      /\ \A l \in P \cup {n + 1} : g[l] \in Nat
  BY <1>2, <1>6
<1>. HIDE DEF P
<1>9. SumOver(g, P \cup {n + 1}) = SumOver(g, P) + g[n + 1]
  BY <1>7, <1>8, SumAdd
<1>10. SumOver(f, P) = SumOver(g, P) /\ SumOver(f, P) \in Nat
  BY <1>7, <1>8, SumSame, SumType
<1>11. CostOf(q) = CostOf(r) + cost /\ CostOf(r) \in Nat
  BY <1>5, <1>6, <1>7, <1>9, <1>10 DEF P
<1>. QED  BY <1>3, <1>4, <1>11 DEF q, n

\* A list that is s up to before its m-th place, and ends there with an entry
\* that counts one report more of the moment t.
EndsAt(q, s, m, r, t) ==
    /\ q \in Seq(RateLimitEntry) /\ Len(q) = m /\ m \in Nat \ {0}
    /\ \A i \in 1..m : i # m => i \in 1..Len(s) /\ q[i] = s[i] /\ s[i].timestamp < t
    /\ q[m].timestamp = t /\ q[m].count = Cardinality(ReportsOf(r, t)) + 1
    /\ \A i \in 1..Len(s) : i < m \/ (i = m /\ s[i].timestamp = t)

\* A report merged into the last entry.
LEMMA MergeEnds ==
    ASSUME NEW d \in RateLimiterData, NEW r \in Log, NEW t \in Nat, Exact(d, r, t),
           d.entries # <<>>, d.entries[Len(d.entries)].timestamp = t
    PROVE  EndsAt([d.entries EXCEPT ![Len(d.entries)].count = @ + 1],
                  d.entries, Len(d.entries), r, t)
<1>. DEFINE s == d.entries
            m == Len(s)
            w == [timestamp |-> t, count |-> s[m].count + 1]
            q == [s EXCEPT ![m].count = @ + 1]
<1>1. /\ s \in Seq(RateLimitEntry) /\ m \in Nat \ {0} /\ DOMAIN s = 1..m
      /\ s \in [1..m -> RateLimitEntry]
  <2>1. s \in Seq(RateLimitEntry)
    BY RecordFields
  <2>2. Len(s) # 0
    BY <2>1, EmptySeq
  <2>. QED  BY <2>1, <2>2, EntryList
<1>2. s[m] \in RateLimitEntry /\ m \in 1..m
  BY <1>1
<1>3. /\ s[m].timestamp = t /\ s[m].count \in Nat
      /\ s[m].count = Cardinality(ReportsOf(r, t))
  <2>1. s[m].count = Cardinality(ReportsOf(r, s[m].timestamp))
    BY <1>2 DEF Exact
  <2>. QED  BY <1>2, <2>1 DEF RateLimitEntry
<1>4. w \in RateLimitEntry /\ [s[m] EXCEPT !.count = @ + 1] = w
  <2>1. w \in RateLimitEntry
    BY <1>3 DEF RateLimitEntry
  <2>2. s[m] = [timestamp |-> t, count |-> s[m].count]
    BY <1>2, <1>3 DEF RateLimitEntry
  <2>. QED  BY <2>1, <2>2
<1>5. q = [i \in 1..m |-> IF i = m THEN w ELSE s[i]]
  <2>1. q = [s EXCEPT ![m] = [s[m] EXCEPT !.count = @ + 1]]
    OBVIOUS
  <2>2. q = [s EXCEPT ![m] = w]
    <3>. HIDE DEF q, w
    <3>. QED  BY <1>4, <2>1
  <2>. HIDE DEF q, w, s, m
  <2>. QED  BY <1>1, <2>2
<1>6. \A i, j \in 1..m : i < j => s[i].timestamp < s[j].timestamp
  BY DEF Exact, Ascending
<1>. HIDE DEF q, w, s, m
<1>7. q \in Seq(RateLimitEntry) /\ Len(q) = m
  <2>1. q \in [1..m -> RateLimitEntry]
    BY <1>1, <1>4, <1>5
  <2>2. q \in Seq(RateLimitEntry)
    BY <1>1, <2>1, SeqDef
  <2>3. DOMAIN q = 1..m /\ DOMAIN q = 1..Len(q) /\ Len(q) \in Nat
    BY <2>1, <2>2, LenProperties
  <2>. QED  BY <1>1, <2>2, <2>3
<1>8. \A i \in 1..m : i # m => q[i] = s[i] /\ s[i].timestamp < t
  <2>. SUFFICES ASSUME NEW i \in 1..m, i # m PROVE q[i] = s[i] /\ s[i].timestamp < t
    OBVIOUS
  <2>1. i < m
    BY <1>1
  <2>2. s[i].timestamp < s[m].timestamp
    BY <1>2, <1>6, <2>1
  <2>3. q[i] = s[i]
    BY <1>5
  <2>. QED  BY <1>3, <2>2, <2>3
<1>9. q[m] = w
  BY <1>2, <1>5
<1>10. q[m].timestamp = t /\ q[m].count = Cardinality(ReportsOf(r, t)) + 1
  BY <1>3, <1>9 DEF w
<1>11. \A i \in 1..m : i < m \/ (i = m /\ s[i].timestamp = t)
  BY <1>1, <1>3
<1>12. EndsAt(q, s, m, r, t)
  BY <1>1, <1>7, <1>8, <1>10, <1>11 DEF EndsAt, m
<1>. QED  BY <1>12 DEF q, s, m

\* A report that gets an entry of its own.
LEMMA AppendEnds ==
    ASSUME NEW d \in RateLimiterData, NEW r \in Log, NEW t \in Nat, Exact(d, r, t),
           ~(d.entries # <<>> /\ d.entries[Len(d.entries)].timestamp = t)
    PROVE  EndsAt(Append(d.entries, [timestamp |-> t, count |-> 1]),
                  d.entries, Len(d.entries) + 1, r, t)
<1>. DEFINE s == d.entries
            n == Len(s)
            w == [timestamp |-> t, count |-> 1]
            q == Append(s, w)
            ts == [i \in 1..n |-> s[i].timestamp]
<1>1. /\ s \in Seq(RateLimitEntry) /\ n \in Nat /\ DOMAIN s = 1..n
      /\ ts \in [1..n -> Nat]
  <2>1. s \in Seq(RateLimitEntry)
    BY RecordFields
  <2>. QED  BY <2>1, EntryList
<1>2. w \in RateLimitEntry /\ w.timestamp = t /\ w.count = 1
  BY DEF RateLimitEntry
<1>3. n # 0 => ts[n] # t
  <2>1. n # 0 => s # <<>> /\ n \in 1..n
    BY <1>1, EmptySeq
  <2>. QED  BY <2>1
<1>4. /\ \A i, j \in 1..n : i < j => ts[i] < ts[j]
      /\ \A i \in 1..n : ts[i] <= t
  BY DEF Exact, Ascending
<1>5. \A l \in DOMAIN r : r[l].timestamp = t => \E i \in 1..n : ts[i] = t
  <2>1. ASSUME NEW l \in DOMAIN r, r[l].timestamp = t
        PROVE  InWindow(r[l], t, dayWindowMs)
    BY <2>1, WindowAssumption DEF InWindow
  <2>2. ASSUME NEW l \in DOMAIN r, r[l].timestamp = t
        PROVE  \E i \in 1..n : s[i].timestamp = r[l].timestamp
    BY <2>1, <2>2 DEF Exact
  <2>. QED  BY <2>2
<1>6. \A i \in 1..n : s[i].timestamp = ts[i]
  OBVIOUS
<1>7. /\ q \in Seq(RateLimitEntry) /\ Len(q) = n + 1
      /\ (\A i \in 1..n : q[i] = s[i]) /\ q[n + 1] = w
  <2>. HIDE DEF s, w
  <2>. QED  BY <1>1, <1>2, AppendProperties
<1>. HIDE DEF q, w, s, n, ts
<1>8. \A i \in 1..n : ts[i] < t
  <2>. SUFFICES ASSUME NEW i \in 1..n PROVE ts[i] < t
    OBVIOUS
  <2>1. ts[i] \in Int /\ ts[n] \in Int /\ n # 0 /\ n \in 1..n
    BY <1>1
  <2>2. ts[i] <= t /\ ts[n] <= t /\ ts[n] # t
    BY <1>3, <1>4, <2>1
  <2>3. i = n \/ i < n
    BY <1>1
  <2>4. i = n \/ ts[i] < ts[n]
    BY <1>4, <2>1, <2>3
  <2>. QED  BY <2>1, <2>2, <2>4
<1>9. ReportsOf(r, t) = {}
  <2>. SUFFICES ASSUME ReportsOf(r, t) # {} PROVE FALSE
    OBVIOUS
  <2>1. PICK l \in DOMAIN r : r[l].timestamp = t
    BY DEF ReportsOf
  <2>2. PICK i \in 1..n : ts[i] = t
    BY <1>5, <2>1
  <2>3. ts[i] < t
    BY <1>8
  <2>. QED  BY <2>2, <2>3
<1>10. q[n + 1].timestamp = t /\ q[n + 1].count = Cardinality(ReportsOf(r, t)) + 1
  BY <1>2, <1>7, <1>9, FS_EmptySet
<1>11. \A i \in 1..(n + 1) : i # n + 1 => i \in 1..n /\ q[i] = s[i] /\ s[i].timestamp < t
  BY <1>1, <1>6, <1>7, <1>8
<1>12. \A i \in 1..n : i < n + 1
  BY <1>1
<1>13. n + 1 \in Nat \ {0}
  BY <1>1
<1>14. EndsAt(q, s, n + 1, r, t)
  BY <1>7, <1>10, <1>11, <1>12, <1>13 DEF EndsAt, n
<1>. QED  BY <1>14 DEF q, s, w, n

\* An increment keeps a record exact.
LEMMA AppendExact ==
    ASSUME NEW d \in RateLimiterData, NEW r \in Log, NEW t \in 0..MaxTime, Exact(d, r, t),
           NEW cost \in Costs, NEW e, e = [timestamp |-> t, cost |-> cost]
    PROVE  append(d, t, cost) \in RateLimiterData /\ Exact(append(d, t, cost), Append(r, e), t)
<1>. DEFINE s == d.entries
            R == Append(r, e)
            q == append(d, t, cost).entries
<1>1. s \in Seq(RateLimitEntry) /\ d.totalCost \in Nat /\ t \in Nat /\ cost \in Nat
  BY RecordFields, BoundAssumption
<1>2. /\ R \in Log /\ CostOf(R) = CostOf(r) + cost /\ DOMAIN R = 1..(Len(r) + 1)
      /\ \A l \in 1..Len(r) : R[l] = r[l]
      /\ R[Len(r) + 1] = e
  BY LogAppend
<1>3. Len(r) \in Nat /\ DOMAIN r = 1..Len(r) /\ IsFiniteSet(DOMAIN r)
  BY LogList
<1>4. \E m : EndsAt(q, s, m, r, t)
  <2>. DEFINE merges == s # <<>> /\ s[Len(s)].timestamp = t
  <2>1. q = IF merges THEN [s EXCEPT ![Len(s)].count = @ + 1]
                      ELSE Append(s, [timestamp |-> t, count |-> 1])
    BY DEF append
  <2>2. CASE merges
    <3>1. EndsAt([s EXCEPT ![Len(s)].count = @ + 1], s, Len(s), r, t)
      BY <1>1, <2>2, MergeEnds
    <3>. HIDE DEF s, q
    <3>. QED  BY <2>1, <2>2, <3>1
  <2>3. CASE ~merges
    <3>1. EndsAt(Append(s, [timestamp |-> t, count |-> 1]), s, Len(s) + 1, r, t)
      BY <1>1, <2>3, AppendEnds
    <3>. HIDE DEF s, q
    <3>. QED  BY <2>1, <2>3, <3>1
  <2>. QED  BY <2>2, <2>3
<1>5. PICK m : EndsAt(q, s, m, r, t)
  BY <1>4
<1>6. append(d, t, cost) = [entries |-> q, totalCost |-> d.totalCost + cost]
  BY DEF append
<1>7. /\ \A i, j \in 1..Len(s) : i < j => s[i].timestamp < s[j].timestamp
      /\ \A i \in 1..Len(s) :
            s[i].timestamp <= t /\ s[i].count = Cardinality(ReportsOf(r, s[i].timestamp))
      /\ \A l \in DOMAIN r : InWindow(r[l], t, dayWindowMs) =>
            \E i \in 1..Len(s) : s[i].timestamp = r[l].timestamp
      /\ d.totalCost = CostOf(r)
  BY DEF Exact, Ascending
<1>8. e.timestamp = t
  OBVIOUS
<1>. DEFINE qs == [i \in 1..m |-> q[i].timestamp]
            ss == [i \in 1..Len(s) |-> s[i].timestamp]
<1>9. /\ q \in Seq(RateLimitEntry) /\ Len(q) = m /\ m \in Nat \ {0} /\ m \in 1..m
      /\ \A i \in 1..m : i # m => i \in 1..Len(s) /\ q[i] = s[i] /\ qs[i] = ss[i] /\ ss[i] < t
      /\ qs[m] = t /\ q[m].count = Cardinality(ReportsOf(r, t)) + 1
      /\ \A i \in 1..Len(s) : i < m \/ (i = m /\ ss[i] = t)
  <2>. HIDE DEF q, s
  <2>. QED  BY <1>5 DEF EndsAt
<1>10. /\ \A i, j \in 1..Len(s) : i < j => ss[i] < ss[j]
       /\ ss \in [1..Len(s) -> Nat]
  <2>. HIDE DEF s
  <2>. QED  BY <1>1, <1>7, EntryList
<1>11. \A i \in 1..m : q[i].timestamp = qs[i]
  OBVIOUS
<1>. HIDE DEF q, s, R, qs
<1>12. /\ ReportsOf(R, t) = ReportsOf(r, t) \cup {Len(r) + 1}
       /\ \A x : x # t => ReportsOf(R, x) = ReportsOf(r, x)
  <2>1. \A l : l \in 1..(Len(r) + 1) <=> l \in 1..Len(r) \/ l = Len(r) + 1
    BY <1>3
  <2>. QED  BY <1>2, <1>3, <1>8, <2>1 DEF ReportsOf
<1>13. Cardinality(ReportsOf(R, t)) = Cardinality(ReportsOf(r, t)) + 1
  <2>1. IsFiniteSet(ReportsOf(r, t)) /\ (Len(r) + 1) \notin ReportsOf(r, t)
    <3>1. ReportsOf(r, t) \subseteq DOMAIN r
      BY DEF ReportsOf
    <3>2. (Len(r) + 1) \notin DOMAIN r
      BY <1>3
    <3>. QED  BY <1>3, <3>1, <3>2, FS_Subset
  <2>. QED  BY <1>12, <2>1, FS_AddElement
<1>14. Ascending(q)
  <2>. SUFFICES ASSUME NEW i \in 1..m, NEW j \in 1..m, i < j PROVE qs[i] < qs[j]
    BY <1>9, <1>11 DEF Ascending
  <2>. HIDE DEF ss
  <2>0. i # m
    <3>1. m \in Int /\ i \in Int /\ j \in Int /\ j <= m
      BY <1>9
    <3>. QED  BY <3>1
  <2>1. i # m /\ i \in 1..Len(s) /\ qs[i] = ss[i] /\ ss[i] < t
    BY <1>9, <2>0
  <2>2. CASE j = m
    BY <1>9, <2>1, <2>2
  <2>3. CASE j # m
    <3>1. j \in 1..Len(s) /\ qs[j] = ss[j]
      BY <1>9, <2>3
    <3>. QED  BY <1>10, <2>1, <3>1
  <2>. QED  BY <2>2, <2>3
<1>15. \A i \in 1..m : qs[i] <= t /\ q[i].count = Cardinality(ReportsOf(R, qs[i]))
  <2>. TAKE i \in 1..m
  <2>1. CASE i = m
    <3>1. qs[i] = t /\ q[i].count = Cardinality(ReportsOf(R, t))
      BY <1>9, <1>13, <2>1
    <3>. QED  BY <1>1, <3>1
  <2>2. CASE i # m
    <3>1. i \in 1..Len(s) /\ q[i] = s[i] /\ qs[i] = ss[i] /\ ss[i] < t
      BY <1>9, <2>2
    <3>2. ss[i] = s[i].timestamp /\ s[i].count = Cardinality(ReportsOf(r, s[i].timestamp))
      BY <1>7, <3>1
    <3>3. ss[i] \in Nat
      BY <1>10, <3>1
    <3>4. ss[i] # t /\ qs[i] <= t
      BY <1>1, <3>1, <3>3
    <3>5. ReportsOf(R, ss[i]) = ReportsOf(r, ss[i])
      BY <1>12, <3>4
    <3>. QED  BY <3>1, <3>2, <3>4, <3>5
  <2>. QED  BY <2>1, <2>2
<1>16. \A l \in DOMAIN R : InWindow(R[l], t, dayWindowMs) =>
          \E i \in 1..m : qs[i] = R[l].timestamp
  <2>. SUFFICES ASSUME NEW l \in DOMAIN R, InWindow(R[l], t, dayWindowMs)
                PROVE  \E i \in 1..m : qs[i] = R[l].timestamp
    OBVIOUS
  <2>1. CASE l = Len(r) + 1
    <3>1. R[l].timestamp = t
      BY <1>2, <1>8, <2>1
    <3>. QED  BY <1>9, <3>1
  <2>2. CASE l # Len(r) + 1
    <3>1. l \in 1..Len(r) /\ R[l] = r[l]
      BY <1>2, <1>3, <2>2
    <3>2. PICK i \in 1..Len(s) : s[i].timestamp = r[l].timestamp
      BY <1>3, <1>7, <3>1
    <3>3. ss[i] = r[l].timestamp
      BY <3>2
    <3>4. CASE i = m /\ ss[i] = t
      BY <1>9, <3>1, <3>3, <3>4
    <3>5. CASE i < m
      <4>1. i \in 1..m /\ i # m
        BY <1>9, <3>5
      <4>2. qs[i] = ss[i]
        BY <1>9, <4>1
      <4>. QED  BY <3>1, <3>3, <4>1, <4>2
    <3>. QED  BY <1>9, <3>4, <3>5
  <2>. QED  BY <2>1, <2>2
<1>. DEFINE p == [entries |-> q, totalCost |-> d.totalCost + cost]
<1>17. p \in RateLimiterData /\ p.entries = q /\ p.totalCost = CostOf(R)
  <2>1. d.totalCost + cost \in Nat
    BY <1>1
  <2>. QED  BY <1>2, <1>7, <1>9, <2>1 DEF RateLimiterData
<1>18. Exact(p, R, t)
  <2>. HIDE DEF p
  <2>. QED  BY <1>9, <1>11, <1>14, <1>15, <1>16, <1>17 DEF Exact
<1>. QED  BY <1>6, <1>17, <1>18 DEF R

\* The empty record is exact for an empty log.
LEMMA EmptyExact ==
    ASSUME NEW t \in Nat
    PROVE  /\ createDefaultRateLimiterData \in RateLimiterData
           /\ <<>> \in Log /\ Exact(createDefaultRateLimiterData, <<>>, t)
<1>. DEFINE d == createDefaultRateLimiterData
<1>1. d.entries = <<>> /\ d.totalCost = 0
  BY DEF createDefaultRateLimiterData
<1>2. <<>> \in Seq(RateLimitEntry) /\ <<>> \in Log /\ Len(<<>>) = 0 /\ DOMAIN <<>> = {}
  BY EmptySeq, LogList DEF Log
<1>3. d \in RateLimiterData
  BY <1>2 DEF createDefaultRateLimiterData, RateLimiterData
<1>4. CostOf(<<>>) = 0
  <2>. DEFINE f == [l \in DOMAIN <<>> |-> <<>>[l].cost]
  <2>1. CostOf(<<>>) = SumOver(f, {})
    BY <1>2, TotalIsSum DEF CostOf
  <2>. HIDE DEF f
  <2>. QED  BY <2>1, SumUnfold, FS_EmptySet
<1>. HIDE DEF d
<1>5. Exact(d, <<>>, t)
  BY <1>1, <1>2, <1>4 DEF Exact, Ascending
<1>. QED  BY <1>2, <1>3, <1>5 DEF d

\* An exact record stays so as time passes.
LEMMA LaterExact ==
    ASSUME NEW d \in RateLimiterData, NEW r \in Log, NEW t \in Nat, Exact(d, r, t)
    PROVE  Exact(d, r, t + 1)
<1>1. \A l \in DOMAIN r : InWindow(r[l], t + 1, dayWindowMs) => InWindow(r[l], t, dayWindowMs)
  <2>. SUFFICES ASSUME NEW l \in DOMAIN r, InWindow(r[l], t + 1, dayWindowMs)
                PROVE  InWindow(r[l], t, dayWindowMs)
    OBVIOUS
  <2>1. r[l].timestamp \in Int /\ dayWindowMs \in Int
    BY LogList, BoundAssumption, WindowAssumption
  <2>. DEFINE u == t + 1
  <2>2. u \in Int /\ t <= u /\ InWindow(r[l], u, dayWindowMs)
    OBVIOUS
  <2>. HIDE DEF u
  <2>3. r[l].timestamp > u - dayWindowMs
    BY <2>2 DEF InWindow
  <2>4. r[l].timestamp > t - dayWindowMs
    BY <2>1, <2>2, <2>3
  <2>. QED  BY <2>4 DEF InWindow
<1>2. \A i \in 1..Len(d.entries) : d.entries[i].timestamp <= t + 1
  <2>. TAKE i \in 1..Len(d.entries)
  <2>1. d.entries[i].timestamp \in Nat
    BY RecordFields, EntryList
  <2>2. d.entries[i].timestamp <= t
    BY DEF Exact
  <2>. QED  BY <2>1, <2>2
<1>. QED  BY <1>1, <1>2 DEF Exact

-----------------------------------------------------------------------------
(* The invariant *)

\* What the assumptions say of each constant.
LEMMA Constants ==
    /\ dayWindowMs \in Nat /\ windowSizeMs \in Nat /\ windowSizeMs <= dayWindowMs
    /\ 1 <= windowSizeMs /\ rpmLimit \in Nat \ {0} /\ rpdLimit \in Nat \ {0}
    /\ MsPerSecond \in Nat \ {0} /\ MaxPending \in Nat /\ MaxTime \in Nat
    /\ ReportsPerRequest \in Nat \ {0} /\ Costs \subseteq Nat
BY WindowAssumption, BoundAssumption

\* What is known of the record that getData returns.
LEMMA ViewExact ==
    ASSUME IndInv, NEW k \in Keys
    PROVE  /\ now \in Nat /\ now \in 0..MaxTime /\ log[k] \in Log
           /\ View(k) \in RateLimiterData /\ Exact(View(k), log[k], now)
           /\ pruneExpiredEntries(disk[k], now) = View(k)
<1>1. now \in Nat /\ now \in 0..MaxTime /\ log[k] \in Log
  <2>1. now \in 0..MaxTime /\ log[k] \in Log
    BY DEF IndInv, RecordsExact
  <2>. QED  BY <2>1
<1>2. disk[k] \in RateLimiterData /\ mem[k] \in RateLimiterData
  BY DEF IndInv, RecordsExact
<1>3. Exact(disk[k], log[k], now) /\ (k \in loaded => Exact(mem[k], log[k], now))
  BY DEF IndInv, RecordsExact
<1>. DEFINE d == IF k \in loaded THEN mem[k] ELSE disk[k]
<1>4. d \in RateLimiterData /\ Exact(d, log[k], now)
  BY <1>2, <1>3
<1>5. View(k) = pruneExpiredEntries(d, now)
  BY DEF View
<1>. HIDE DEF d
<1>6. View(k) \in RateLimiterData /\ Exact(View(k), log[k], now)
  BY <1>1, <1>4, <1>5, PruneExact
<1>7. pruneExpiredEntries(disk[k], now) = View(k)
  BY <1>1, <1>2, <1>3, <1>4, <1>5, PrunedAgree
<1>. QED  BY <1>1, <1>6, <1>7

\* The counters of the record that getData returns.
LEMMA CountersExact ==
    ASSUME IndInv, NEW k \in Keys
    PROVE  /\ calculateRpm(View(k), now) = Cardinality(Recorded(k, now, windowSizeMs))
           /\ calculateRpd(View(k), now) = Cardinality(Recorded(k, now, dayWindowMs))
           /\ View(k).totalCost = CostOf(log[k])
           /\ \A size : IsFiniteSet(Recorded(k, now, size))
           /\ \A size : Cardinality(Recorded(k, now, size)) \in Nat
<1>. DEFINE d == View(k)
            r == log[k]
            t == now
<1>1. d \in RateLimiterData /\ r \in Log /\ t \in Nat /\ Exact(d, r, t)
  BY ViewExact
<1>2. \A size : Recorded(k, t, size) = Window(r, t, size)
  BY DEF Recorded, Window
<1>. HIDE DEF d, r, t
<1>3. d.entries \in Seq(RateLimitEntry) /\ Ascending(d.entries)
  BY <1>1, RecordFields DEF Exact
<1>4. calculateRpm(d, t)
         = CountAt(d.entries, {i \in DOMAIN d.entries : InWindow(d.entries[i], t, windowSizeMs)})
  <2>1. t \in Int /\ windowSizeMs \in Int
    BY <1>1, Constants
  <2>. DEFINE s == d.entries
              P == {i \in DOMAIN s : \A j \in i..Len(s) : InWindow(s[j], t, windowSizeMs)}
              Q == {i \in DOMAIN s : InWindow(s[i], t, windowSizeMs)}
  <2>2. P = Q
    <3>. HIDE DEF s
    <3>. QED  BY <1>3, <2>1, ScanStops DEF s
  <2>3. calculateRpm(d, t) = CountAt(s, P)
    BY DEF calculateRpm
  <2>. HIDE DEF P
  <2>. QED  BY <2>2, <2>3
<1>5. calculateRpm(d, t) = Cardinality(Window(r, t, windowSizeMs))
  BY <1>1, <1>4, CountIsExact, Constants
<1>6. calculateRpd(d, t) = Cardinality(Window(r, t, dayWindowMs))
  <2>1. dayWindowMs \in Nat /\ dayWindowMs <= dayWindowMs
    BY Constants
  <2>. QED  BY <1>1, <2>1, CountIsExact DEF calculateRpd
<1>7. \A size : IsFiniteSet(Window(r, t, size)) /\ Cardinality(Window(r, t, size)) \in Nat
  <2>. TAKE size
  <2>1. IsFiniteSet(DOMAIN r) /\ Window(r, t, size) \subseteq DOMAIN r
    BY <1>1, LogList DEF Window
  <2>. QED  BY <2>1, FS_Subset, FS_CardinalityType
<1>8. d.totalCost = CostOf(r)
  BY <1>1 DEF Exact
<1>. QED  BY <1>2, <1>5, <1>6, <1>7, <1>8 DEF d, r, t

\* The invariant holds at first.
LEMMA InitInv == Init => IndInv
<1>. SUFFICES ASSUME Init PROVE IndInv
  OBVIOUS
<1>1. createDefaultRateLimiterData \in RateLimiterData /\ <<>> \in Log
      /\ Exact(createDefaultRateLimiterData, <<>>, 0)
  BY EmptyExact
<1>2. RecordsExact
  <2>1. 0 \in 0..MaxTime
    BY Constants
  <2>2. mem \in [Keys -> RateLimiterData] /\ disk \in [Keys -> RateLimiterData]
    BY <1>1 DEF Init
  <2>3. log \in [Keys -> Log] /\ \A k \in Keys : mem[k] = createDefaultRateLimiterData
    BY <1>1 DEF Init
  <2>4. \A k \in Keys : Exact(disk[k], log[k], now)
    BY <1>1 DEF Init
  <2>. QED  BY <2>1, <2>2, <2>3, <2>4 DEF Init, RecordsExact
<1>3. pending \in [Keys -> 0..MaxPending]
  <2>1. 0 \in 0..MaxPending
    BY Constants
  <2>. QED  BY <2>1 DEF Init
<1>4. OvershootBounded
  <2>. SUFFICES ASSUME NEW k \in Keys
                PROVE  /\ Cardinality(Recorded(k, now, windowSizeMs)) + pending[k]
                             < rpmLimit + MaxPending
                       /\ Cardinality(Recorded(k, now, dayWindowMs)) + pending[k]
                             < rpdLimit + MaxPending
    BY DEF OvershootBounded
  <2>1. log[k] = <<>> /\ pending[k] = 0
    BY DEF Init
  <2>2. \A size : Recorded(k, now, size) = {}
    BY <2>1 DEF Recorded
  <2>3. \A size : Cardinality(Recorded(k, now, size)) = 0
    BY <2>2, FS_EmptySet
  <2>. QED  BY <2>1, <2>3, Constants
<1>. QED  BY <1>2, <1>3, <1>4 DEF IndInv

\* A record that is loaded, or pruned in memory, is exact.
LEMMA LoadStep ==
    ASSUME IndInv, NEW k \in Keys, UNCHANGED <<disk, now, log>>,
           loaded' = loaded \cup {k}, mem' = [mem EXCEPT ![k] = View(k)]
    PROVE  RecordsExact'
<1>1. RecordsExact
  BY DEF IndInv
<1>2. View(k) \in RateLimiterData /\ Exact(View(k), log[k], now)
  BY ViewExact
<1>3. mem' \in [Keys -> RateLimiterData]
  BY <1>1, <1>2 DEF RecordsExact
<1>4. \A j \in loaded' : Exact(mem'[j], log'[j], now')
  <2>. SUFFICES ASSUME NEW j \in loaded' PROVE Exact(mem'[j], log[j], now)
    OBVIOUS
  <2>1. CASE j = k
    <3>1. mem'[j] = View(k)
      BY <1>1, <2>1 DEF RecordsExact
    <3>. QED  BY <1>2, <2>1, <3>1
  <2>2. CASE j # k
    <3>1. j \in loaded /\ mem'[j] = mem[j]
      BY <1>1, <2>2 DEF RecordsExact
    <3>. QED  BY <1>1, <3>1 DEF RecordsExact
  <2>. QED  BY <2>1, <2>2
<1>5. \A j \in Keys \ loaded' : mem'[j] = createDefaultRateLimiterData
  <2>. SUFFICES ASSUME NEW j \in Keys \ loaded' PROVE mem'[j] = mem[j] /\ j \notin loaded
    BY <1>1 DEF RecordsExact
  <2>. QED  BY <1>1 DEF RecordsExact
<1>. QED  BY <1>1, <1>3, <1>4, <1>5 DEF RecordsExact

\* A record that is stored is exact if it is so for the log to come.
LEMMA StoreStep ==
    ASSUME IndInv, NEW k \in Keys, NEW d \in RateLimiterData, NEW r \in Log, Exact(d, r, now),
           Store(k, d), log' = [log EXCEPT ![k] = r], UNCHANGED now
    PROVE  RecordsExact'
<1>1. RecordsExact
  BY DEF IndInv
<1>2. /\ mem' \in [Keys -> RateLimiterData] /\ disk' \in [Keys -> RateLimiterData]
      /\ log' \in [Keys -> Log] /\ loaded' \subseteq Keys
      /\ mem'[k] = d /\ disk'[k] = d /\ log'[k] = r
      /\ \A j \in Keys \ {k} : /\ mem'[j] = mem[j] /\ disk'[j] = disk[j] /\ log'[j] = log[j]
                               /\ j \in loaded' <=> j \in loaded
      /\ k \in loaded'
  BY <1>1 DEF RecordsExact, Store
<1>3. \A j \in Keys : Exact(disk'[j], log'[j], now')
  BY <1>1, <1>2 DEF RecordsExact
<1>4. \A j \in loaded' : Exact(mem'[j], log'[j], now')
  BY <1>1, <1>2 DEF RecordsExact
<1>5. \A j \in Keys \ loaded' : mem'[j] = createDefaultRateLimiterData
  BY <1>1, <1>2 DEF RecordsExact
<1>. QED  BY <1>1, <1>2, <1>3, <1>4, <1>5 DEF RecordsExact

\* How large a log and the reports to come may be together.
Fits(r, t, p) ==
    /\ Cardinality(Window(r, t, windowSizeMs)) + p < rpmLimit + MaxPending
    /\ Cardinality(Window(r, t, dayWindowMs)) + p < rpdLimit + MaxPending

\* OvershootBounded, before and after a step.
LEMMA Bounds ==
    /\ OvershootBounded <=> \A k \in Keys : Fits(log[k], now, pending[k])
    /\ OvershootBounded' <=> \A k \in Keys : Fits(log'[k], now', pending'[k])
BY DEF OvershootBounded, Fits, Recorded, Window

\* Fewer outstanding reports fit, too, and so does the same log later.
LEMMA FitsLess ==
    ASSUME NEW r \in Log, NEW t \in Nat, NEW p \in Nat, NEW q \in Nat, q <= p,
           Fits(r, t, p)
    PROVE  Fits(r, t, q) /\ Fits(r, t + 1, q)
<1>1. \A size, u : /\ IsFiniteSet(Window(r, u, size))
                   /\ Cardinality(Window(r, u, size)) \in Nat
  <2>. TAKE size, u
  <2>1. IsFiniteSet(DOMAIN r) /\ Window(r, u, size) \subseteq DOMAIN r
    BY LogList DEF Window
  <2>. QED  BY <2>1, FS_Subset, FS_CardinalityType
<1>2. ASSUME NEW size \in Nat
      PROVE  Cardinality(Window(r, t + 1, size)) <= Cardinality(Window(r, t, size))
  <2>1. ASSUME NEW l \in Window(r, t + 1, size)
        PROVE  l \in Window(r, t, size)
    <3>. DEFINE u == t + 1
    <3>1. u \in Int /\ t <= u /\ l \in Window(r, u, size)
      BY <2>1
    <3>. HIDE DEF u
    <3>2. l \in DOMAIN r /\ r[l].timestamp > u - size
      BY <3>1 DEF Window, InWindow
    <3>3. r[l].timestamp \in Int
      BY <3>2, LogList, Constants
    <3>4. r[l].timestamp > t - size
      BY <3>1, <3>2, <3>3
    <3>. QED  BY <3>2, <3>4 DEF Window, InWindow
  <2>. DEFINE W == Window(r, t, size)
              V == Window(r, t + 1, size)
  <2>2. IsFiniteSet(W) /\ V \in SUBSET W
    BY <1>1, <2>1
  <2>. HIDE DEF W, V
  <2>3. Cardinality(V) <= Cardinality(W)
    BY <2>2, FS_Subset
  <2>. QED  BY <2>3 DEF V, W
<1>. DEFINE a == Cardinality(Window(r, t, windowSizeMs))
            b == Cardinality(Window(r, t, dayWindowMs))
            c == Cardinality(Window(r, t + 1, windowSizeMs))
            e == Cardinality(Window(r, t + 1, dayWindowMs))
<1>3. /\ a \in Nat /\ b \in Nat /\ c \in Nat /\ e \in Nat /\ c <= a /\ e <= b
      /\ rpmLimit + MaxPending \in Nat /\ rpdLimit + MaxPending \in Nat
  <2>1. c <= a /\ e <= b
    BY <1>2, Constants
  <2>2. rpmLimit + MaxPending \in Nat /\ rpdLimit + MaxPending \in Nat
    BY Constants
  <2>. QED  BY <1>1, <2>1, <2>2
<1>4. a + p < rpmLimit + MaxPending /\ b + p < rpdLimit + MaxPending
  BY DEF Fits
<1>. HIDE DEF a, b, c, e
<1>5. /\ a + q < rpmLimit + MaxPending /\ b + q < rpdLimit + MaxPending
      /\ c + q < rpmLimit + MaxPending /\ e + q < rpdLimit + MaxPending
  BY <1>3, <1>4
<1>. QED  BY <1>5 DEF Fits, a, b, c, e

\* A report that is counted is one that is no longer to come.
LEMMA FitsCounted ==
    ASSUME NEW r \in Log, NEW t \in 0..MaxTime, NEW cost \in Costs,
           NEW e, e = [timestamp |-> t, cost |-> cost],
           NEW p \in Nat \ {0}, Fits(r, t, p)
    PROVE  Fits(Append(r, e), t, p - 1)
<1>. DEFINE R == Append(r, e)
            n == Len(r)
<1>1. /\ DOMAIN R = 1..(n + 1) /\ (\A l \in 1..n : R[l] = r[l])
      /\ n \in Nat /\ DOMAIN r = 1..n /\ IsFiniteSet(DOMAIN r)
  BY LogAppend, LogList
<1>. HIDE DEF R, n
<1>2. ASSUME NEW size
      PROVE  /\ Cardinality(Window(R, t, size)) \in Nat /\ Cardinality(Window(r, t, size)) \in Nat
             /\ Cardinality(Window(R, t, size)) <= Cardinality(Window(r, t, size)) + 1
  <2>. DEFINE V == Window(R, t, size)
              W == Window(r, t, size)
  <2>1. \A l \in V : l = n + 1 \/ l \in W
    <3>. SUFFICES ASSUME NEW l \in V, l # n + 1 PROVE l \in W
      OBVIOUS
    <3>1. l \in 1..(n + 1) /\ InWindow(R[l], t, size)
      BY <1>1 DEF Window
    <3>2. l \in 1..n
      BY <1>1, <3>1
    <3>. QED  BY <1>1, <3>1, <3>2 DEF Window
  <2>2. IsFiniteSet(W)
    <3>1. W \subseteq DOMAIN r
      BY DEF Window
    <3>. QED  BY <1>1, <3>1, FS_Subset
  <2>. HIDE DEF V, W
  <2>3. /\ IsFiniteSet(W \cup {n + 1}) /\ Cardinality(W) \in Nat
        /\ Cardinality(W \cup {n + 1}) <= Cardinality(W) + 1
    <3>1. Cardinality(W) \in Nat
      BY <2>2, FS_CardinalityType
    <3>2. /\ IsFiniteSet(W \cup {n + 1})
          /\ \/ Cardinality(W \cup {n + 1}) = Cardinality(W)
             \/ Cardinality(W \cup {n + 1}) = Cardinality(W) + 1
      BY <2>2, FS_AddElement
    <3>. QED  BY <3>1, <3>2
  <2>4. V \in SUBSET (W \cup {n + 1})
    BY <2>1
  <2>5. /\ IsFiniteSet(V) /\ Cardinality(V) \in Nat
        /\ Cardinality(V) <= Cardinality(W \cup {n + 1}) /\ Cardinality(W \cup {n + 1}) \in Nat
    BY <2>3, <2>4, FS_Subset, FS_CardinalityType
  <2>6. Cardinality(V) <= Cardinality(W) + 1
    BY <2>3, <2>5
  <2>. QED  BY <2>3, <2>5, <2>6 DEF V, W
<1>. DEFINE a == Cardinality(Window(r, t, windowSizeMs))
            b == Cardinality(Window(r, t, dayWindowMs))
            c == Cardinality(Window(R, t, windowSizeMs))
            d == Cardinality(Window(R, t, dayWindowMs))
<1>3. a \in Nat /\ b \in Nat /\ c \in Nat /\ d \in Nat /\ c <= a + 1 /\ d <= b + 1
  BY <1>2
<1>4. a + p < rpmLimit + MaxPending /\ b + p < rpdLimit + MaxPending
  BY DEF Fits
<1>. HIDE DEF a, b, c, d
<1>5. c + (p - 1) < rpmLimit + MaxPending /\ d + (p - 1) < rpdLimit + MaxPending
  BY <1>3, <1>4, Constants
<1>. QED  BY <1>5 DEF Fits, R, c, d

\* Where no log and no moment changes, only the outstanding reports count.
LEMMA PendingStep ==
    ASSUME IndInv, NEW k \in Keys, UNCHANGED <<log, now>>, NEW q \in 0..MaxPending,
           pending' = [pending EXCEPT ![k] = q], Fits(log[k], now, q)
    PROVE  OvershootBounded' /\ pending' \in [Keys -> 0..MaxPending]
<1>1. pending \in [Keys -> 0..MaxPending] /\ \A j \in Keys : Fits(log[j], now, pending[j])
  BY Bounds DEF IndInv
<1>2. \A j \in Keys : pending'[j] = IF j = k THEN q ELSE pending[j]
  BY <1>1
<1>3. \A j \in Keys : Fits(log[j], now, pending'[j])
  BY <1>1, <1>2
<1>4. \A j \in Keys : Fits(log'[j], now', pending'[j])
  BY <1>3
<1>. QED  BY <1>1, <1>4, Bounds

\* A read keeps the invariant.
LEMMA ReadInv == ASSUME IndInv, NEW k \in Keys, Read(k) PROVE IndInv'
<1>1. RecordsExact'
  BY LoadStep DEF Read, getData
<1>2. OvershootBounded' /\ pending' \in [Keys -> 0..MaxPending]
  <2>1. UNCHANGED <<log, now, pending>>
    BY DEF Read
  <2>. QED  BY <2>1, Bounds DEF IndInv
<1>. QED  BY <1>1, <1>2 DEF IndInv

\* A read without waiting.
LEMMA ReadSyncInv == ASSUME IndInv, NEW k \in Keys, ReadSync(k) PROVE IndInv'
<1>1. RecordsExact'
  <2>1. /\ UNCHANGED <<disk, now, log>> /\ mem' = [mem EXCEPT ![k] = View(k)]
        /\ loaded' = loaded \cup {k}
    BY DEF ReadSync
  <2>. QED  BY <2>1, LoadStep
<1>2. OvershootBounded' /\ pending' \in [Keys -> 0..MaxPending]
  <2>1. UNCHANGED <<log, now, pending>>
    BY DEF ReadSync
  <2>. QED  BY <2>1, Bounds DEF IndInv
<1>. QED  BY <1>1, <1>2 DEF IndInv

\* A request that is let through found both counters below their limits.
LEMMA AdmitInv ==
    ASSUME IndInv, NEW k \in Keys, NEW cost \in Costs, Admit(k, cost) PROVE IndInv'
<1>1. RecordsExact'
  BY LoadStep DEF Admit, getData
<1>. DEFINE q == pending[k] + ReportsPerRequest
<1>2. q \in 0..MaxPending /\ pending' = [pending EXCEPT ![k] = q] /\ UNCHANGED <<log, now>>
  <2>1. pending[k] \in 0..MaxPending
    BY DEF IndInv
  <2>2. q <= MaxPending
    BY DEF Admit
  <2>3. q \in 0..MaxPending
    BY <2>1, <2>2, Constants
  <2>. QED  BY <2>3 DEF Admit
<1>3. Fits(log[k], now, q)
  <2>. DEFINE a == Cardinality(Recorded(k, now, windowSizeMs))
              b == Cardinality(Recorded(k, now, dayWindowMs))
  <2>1. a \in Nat /\ b \in Nat /\ calculateRpm(View(k), now) = a /\ calculateRpd(View(k), now) = b
    BY CountersExact
  <2>2. ~(calculateRpm(View(k), now) >= rpmLimit) /\ ~(calculateRpd(View(k), now) >= rpdLimit)
    BY DEF Admit, checkLimit
  <2>. HIDE DEF a, b, q
  <2>3. a < rpmLimit /\ b < rpdLimit
    BY <2>1, <2>2, Constants
  <2>4. a + q < rpmLimit + MaxPending /\ b + q < rpdLimit + MaxPending
    BY <1>2, <2>1, <2>3, Constants
  <2>. QED  BY <2>4 DEF Fits, a, b, Recorded, Window
<1>. HIDE DEF q
<1>4. OvershootBounded' /\ pending' \in [Keys -> 0..MaxPending]
  BY <1>2, <1>3, PendingStep
<1>. QED  BY <1>1, <1>4 DEF IndInv

\* A report that gets lost.
LEMMA DropInv == ASSUME IndInv, NEW k \in Keys, DropReport(k) PROVE IndInv'
<1>1. RecordsExact'
  BY DEF IndInv, RecordsExact, DropReport
<1>. DEFINE q == pending[k] - 1
<1>2. /\ pending[k] \in Nat /\ q \in 0..MaxPending /\ q <= pending[k] /\ q \in Nat
      /\ pending' = [pending EXCEPT ![k] = q] /\ UNCHANGED <<log, now>>
  <2>1. pending[k] \in 0..MaxPending /\ pending[k] > 0
    BY DEF IndInv, DropReport
  <2>2. pending[k] \in Nat /\ q \in 0..MaxPending /\ q <= pending[k] /\ q \in Nat
    BY <2>1, Constants
  <2>. QED  BY <2>2 DEF DropReport
<1>3. log[k] \in Log /\ now \in Nat /\ Fits(log[k], now, pending[k])
  BY ViewExact, Bounds DEF IndInv
<1>. HIDE DEF q
<1>4. Fits(log[k], now, q)
  BY <1>2, <1>3, FitsLess
<1>5. OvershootBounded' /\ pending' \in [Keys -> 0..MaxPending]
  BY <1>2, <1>4, PendingStep
<1>. QED  BY <1>1, <1>5 DEF IndInv

\* A report that arrives is counted by the record that is stored.
LEMMA IncrementInv ==
    ASSUME IndInv, NEW k \in Keys, NEW cost \in Costs, increment(k, cost) PROVE IndInv'
<1>. DEFINE e == [timestamp |-> now, cost |-> cost]
            a == append(View(k), now, cost)
            d == pruneExpiredEntries(a, now)
            r == Append(log[k], e)
            q == pending[k] - 1
<1>1. /\ now \in Nat /\ now \in 0..MaxTime /\ log[k] \in Log
      /\ View(k) \in RateLimiterData /\ Exact(View(k), log[k], now)
  BY ViewExact
<1>2. a \in RateLimiterData /\ Exact(a, r, now)
  BY <1>1, AppendExact
<1>3. r \in Log
  BY <1>1, LogAppend
<1>4. /\ Store(k, d) /\ log' = [log EXCEPT ![k] = r] /\ UNCHANGED now
      /\ pending' = [pending EXCEPT ![k] = q]
  BY DEF increment
<1>5. /\ pending \in [Keys -> 0..MaxPending] /\ pending[k] \in Nat \ {0} /\ q \in 0..MaxPending
  <2>1. pending \in [Keys -> 0..MaxPending] /\ pending[k] > 0
    BY DEF IndInv, increment
  <2>. QED  BY <2>1, Constants
<1>6. \A j \in Keys : Fits(log[j], now, pending[j])
  BY Bounds DEF IndInv
<1>7. Fits(r, now, q)
  BY <1>1, <1>5, <1>6, FitsCounted
<1>8. log \in [Keys -> Log]
  BY DEF IndInv, RecordsExact
<1>. HIDE DEF e, a, r, q
<1>9. d \in RateLimiterData /\ Exact(d, r, now)
  BY <1>1, <1>2, <1>3, PruneExact
<1>. HIDE DEF d
<1>10. RecordsExact'
  BY <1>3, <1>4, <1>9, StoreStep
<1>11. \A j \in Keys : Fits(log'[j], now', pending'[j])
  <2>. SUFFICES ASSUME NEW j \in Keys PROVE Fits(log'[j], now', pending'[j])
    OBVIOUS
  <2>1. CASE j = k
    <3>1. log'[j] = r /\ pending'[j] = q /\ now' = now
      BY <1>4, <1>5, <1>8, <2>1
    <3>. QED  BY <1>7, <3>1
  <2>2. CASE j # k
    <3>1. log'[j] = log[j] /\ pending'[j] = pending[j] /\ now' = now
      BY <1>4, <1>5, <1>8, <2>2
    <3>. QED  BY <1>6, <3>1
  <2>. QED  BY <2>1, <2>2
<1>12. pending' \in [Keys -> 0..MaxPending]
  BY <1>4, <1>5
<1>13. OvershootBounded'
  BY <1>11, Bounds
<1>. QED  BY <1>10, <1>12, <1>13 DEF IndInv

\* Nothing is counted in an empty log.
LEMMA FitsEmpty ==
    ASSUME NEW t \in Nat, NEW p \in 0..MaxPending
    PROVE  Fits(<<>>, t, p)
<1>1. \A size : Window(<<>>, t, size) = {}
  BY DEF Window
<1>2. \A size : Cardinality(Window(<<>>, t, size)) = 0
  BY <1>1, FS_EmptySet
<1>3. 0 + p < rpmLimit + MaxPending /\ 0 + p < rpdLimit + MaxPending
  BY Constants
<1>. QED  BY <1>2, <1>3 DEF Fits

\* A reset forgets the reports; those that are outstanding stay so.
LEMMA ResetInv == ASSUME IndInv, NEW k \in Keys, reset(k) PROVE IndInv'
<1>1. now \in Nat /\ log \in [Keys -> Log] /\ pending \in [Keys -> 0..MaxPending]
  BY ViewExact DEF IndInv, RecordsExact
<1>2. /\ createDefaultRateLimiterData \in RateLimiterData
      /\ <<>> \in Log /\ Exact(createDefaultRateLimiterData, <<>>, now)
  BY <1>1, EmptyExact
<1>3. /\ Store(k, createDefaultRateLimiterData) /\ log' = [log EXCEPT ![k] = <<>>]
      /\ UNCHANGED now /\ UNCHANGED pending
  BY DEF reset
<1>4. RecordsExact'
  BY <1>2, <1>3, StoreStep
<1>5. \A j \in Keys : Fits(log[j], now, pending[j])
  BY Bounds DEF IndInv
<1>6. \A j \in Keys : Fits(log'[j], now', pending'[j])
  <2>. SUFFICES ASSUME NEW j \in Keys PROVE Fits(log'[j], now, pending[j])
    BY <1>3
  <2>1. CASE j = k
    <3>1. log'[j] = <<>> /\ pending[j] \in 0..MaxPending
      BY <1>1, <1>3, <2>1
    <3>. QED  BY <1>1, <3>1, FitsEmpty
  <2>2. CASE j # k
    <3>1. log'[j] = log[j]
      BY <1>1, <1>3, <2>2
    <3>. QED  BY <1>5, <3>1
  <2>. QED  BY <2>1, <2>2
<1>7. OvershootBounded'
  BY <1>6, Bounds
<1>. QED  BY <1>1, <1>3, <1>4, <1>7 DEF IndInv

\* An eviction loses nothing that storage does not have.
LEMMA EvictInv == ASSUME IndInv, Evict PROVE IndInv'
<1>1. RecordsExact'
  <2>1. createDefaultRateLimiterData \in RateLimiterData
    <3>1. 0 \in Nat
      OBVIOUS
    <3>. QED  BY <3>1, EmptyExact
  <2>2. /\ loaded' = {} /\ mem' = [k \in Keys |-> createDefaultRateLimiterData]
        /\ UNCHANGED <<disk, now, log>>
    BY DEF Evict
  <2>. QED  BY <2>1, <2>2 DEF IndInv, RecordsExact
<1>2. UNCHANGED <<log, now, pending>>
  BY DEF Evict
<1>3. OvershootBounded' /\ pending' \in [Keys -> 0..MaxPending]
  BY <1>2, Bounds DEF IndInv
<1>. QED  BY <1>1, <1>3 DEF IndInv

\* As time passes, reports only leave the windows.
LEMMA TickInv == ASSUME IndInv, Tick PROVE IndInv'
<1>1. /\ now \in Nat /\ now' = now + 1 /\ now' \in 0..MaxTime
      /\ UNCHANGED <<loaded, mem, disk, pending, log>>
  <2>1. now \in 0..MaxTime /\ now < MaxTime /\ now' = now + 1
    BY DEF IndInv, RecordsExact, Tick
  <2>2. now \in Nat /\ now' \in 0..MaxTime
    BY <2>1, Constants
  <2>. QED  BY <2>1, <2>2 DEF Tick
<1>2. /\ mem \in [Keys -> RateLimiterData] /\ disk \in [Keys -> RateLimiterData]
      /\ log \in [Keys -> Log] /\ loaded \subseteq Keys
      /\ \A k \in Keys : Exact(disk[k], log[k], now)
      /\ \A k \in loaded : Exact(mem[k], log[k], now)
  BY DEF IndInv, RecordsExact
<1>3. ASSUME NEW d \in RateLimiterData, NEW r \in Log, Exact(d, r, now)
      PROVE  Exact(d, r, now')
  BY <1>1, <1>3, LaterExact
<1>4. RecordsExact'
  <2>1. \A k \in Keys : Exact(disk'[k], log'[k], now')
    BY <1>1, <1>2, <1>3
  <2>2. \A k \in loaded' : Exact(mem'[k], log'[k], now')
    BY <1>1, <1>2, <1>3
  <2>. QED  BY <1>1, <2>1, <2>2 DEF IndInv, RecordsExact
<1>5. \A k \in Keys : Fits(log'[k], now', pending'[k])
  <2>. SUFFICES ASSUME NEW k \in Keys PROVE Fits(log[k], now', pending[k])
    BY <1>1
  <2>1. pending[k] \in Nat /\ Fits(log[k], now, pending[k]) /\ log[k] \in Log
    BY <1>2, Bounds DEF IndInv
  <2>2. pending[k] <= pending[k]
    BY <2>1
  <2>3. Fits(log[k], now + 1, pending[k])
    BY <1>1, <2>1, <2>2, FitsLess
  <2>. QED  BY <1>1, <2>3
<1>6. OvershootBounded'
  BY <1>5, Bounds
<1>. QED  BY <1>1, <1>4, <1>6 DEF IndInv

\* Every step keeps the invariant.
LEMMA NextInv == IndInv /\ [Next]_vars => IndInv'
<1>. SUFFICES ASSUME IndInv, [Next]_vars PROVE IndInv'
  OBVIOUS
<1>1. ASSUME NEW k \in Keys, Read(k) PROVE IndInv'
  BY <1>1, ReadInv
<1>2. ASSUME NEW k \in Keys, NEW cost \in Costs, Admit(k, cost) PROVE IndInv'
  BY <1>2, AdmitInv
<1>3. ASSUME NEW k \in Keys, ReadSync(k) PROVE IndInv'
  BY <1>3, ReadSyncInv
<1>4. ASSUME NEW k \in Keys, NEW cost \in Costs, increment(k, cost) PROVE IndInv'
  BY <1>4, IncrementInv
<1>5. ASSUME NEW k \in Keys, DropReport(k) PROVE IndInv'
  BY <1>5, DropInv
<1>6. ASSUME NEW k \in Keys, reset(k) PROVE IndInv'
  BY <1>6, ResetInv
<1>7. CASE Evict
  BY <1>7, EvictInv
<1>8. CASE Tick
  BY <1>8, TickInv
<1>9. CASE UNCHANGED vars
  <2>1. RecordsExact'
    BY <1>9 DEF IndInv, RecordsExact, vars
  <2>2. UNCHANGED <<log, now, pending>>
    BY <1>9 DEF vars
  <2>. QED  BY <2>1, <2>2, Bounds DEF IndInv
<1>. QED  BY <1>1, <1>2, <1>3, <1>4, <1>5, <1>6, <1>7, <1>8, <1>9 DEF Next

\* Each record is exact, whatever was merged, pruned, evicted and loaded
\* (getData, increment, reset), and the counters pass their limits by fewer
\* than the reports that may be outstanding.
THEOREM Invariance == Spec => []IndInv
BY InitInv, NextInv, PTL DEF Spec

-----------------------------------------------------------------------------
(* The properties *)

\* The invariant has the types.
LEMMA InvType == IndInv => TypeOK
<1>. SUFFICES ASSUME IndInv PROVE TypeOK
  OBVIOUS
<1>1. log \in [Keys -> Seq([timestamp : 0..MaxTime, cost : Costs])]
  BY DEF IndInv, RecordsExact, Log
<1>. QED  BY <1>1 DEF IndInv, RecordsExact, TypeOK

\* The variables hold what the code's types say, and only loaded keys have a
\* record in memory (memory.set in getData, increment and reset).
THEOREM TypeCorrect == Spec => []TypeOK
BY Invariance, InvType, PTL

\* The counters are the numbers of reports of the last minute and day, and the
\* cost is that of all reports since the reset; the stored record, once loaded,
\* is the one in memory (getCurrentRpm, getCurrentRpd, getAccumulatedCost).
THEOREM CountersAreExact == Spec => []CountsExact
<1>1. IndInv => CountsExact
  <2>. SUFFICES ASSUME IndInv PROVE CountsExact
    OBVIOUS
  <2>1. TypeOK
    BY InvType
  <2>2. ASSUME NEW k \in Keys
        PROVE  /\ calculateRpm(View(k), now) = Cardinality(Recorded(k, now, windowSizeMs))
               /\ calculateRpd(View(k), now) = Cardinality(Recorded(k, now, dayWindowMs))
               /\ View(k).totalCost
                     = Total([i \in DOMAIN log[k] |-> log[k][i].cost], DOMAIN log[k])
    <3>1. View(k).totalCost = CostOf(log[k])
      BY CountersExact
    <3>. QED  BY <3>1, CountersExact DEF CostOf
  <2>3. ASSUME NEW k \in loaded
        PROVE  View(k) = pruneExpiredEntries(disk[k], now)
    <3>1. k \in Keys
      BY DEF IndInv, RecordsExact
    <3>. QED  BY <3>1, ViewExact
  <2>. QED  BY <2>1, <2>2, <2>3 DEF CountsExact
<1>. QED  BY <1>1, Invariance, PTL

\* Requests are counted when they are reported, not when they are let through
\* (checkLimitDetailed, then increment): the counters pass their limits by fewer
\* than the reports that may be outstanding.
THEOREM OvershootIsBounded == Spec => []OvershootBounded
<1>1. IndInv => OvershootBounded
  BY DEF IndInv
<1>. QED  BY <1>1, Invariance, PTL

\* Math.ceil: whole seconds that reach a span of time, but not with one less.
LEMMA Ceil ==
    ASSUME NEW y \in Nat \ {0}
    PROVE  \E c \in Nat, a \in Nat, b \in Nat :
              /\ CeilSeconds(y) = c /\ a = c * MsPerSecond /\ b = (c - 1) * MsPerSecond
              /\ y <= a /\ b < y
<1>. DEFINE M == MsPerSecond
            z == y + M - 1
            q == z \div M
            u == z % M
<1>1. M \in Nat \ {0}
  BY Constants
<1>. HIDE DEF M
<1>2. z \in Nat
  BY <1>1
<1>3. CeilSeconds(y) = q
  BY DEF CeilSeconds, M
<1>4. z = M * q + u /\ u \in 0..(M - 1) /\ q \in Int
  <2>. HIDE DEF z
  <2>. QED  BY <1>1, <1>2
<1>. HIDE DEF q, u
<1>5. M * q \in Int /\ y <= M * q /\ M * q < y + M
  <2>1. M * q \in Int
    BY <1>1, <1>4
  <2>. DEFINE a == M * q
  <2>. HIDE DEF a
  <2>. QED  BY <1>1, <1>4, <2>1 DEF a
<1>6. q \in Nat \ {0}
  <2>1. CASE q <= 0
    <3>1. PICK d \in Nat : q = 0 - d
      BY <1>4, <2>1
    <3>2. M * d \in Nat /\ M * q = 0 - M * d
      BY <1>1, <3>1
    <3>. QED  BY <1>5, <3>2
  <2>. QED  BY <1>4, <2>1
<1>7. q * M = M * q /\ (q - 1) * M = M * q - M /\ (q - 1) * M \in Nat
  <2>1. PICK d \in Nat : q = d + 1
    BY <1>6
  <2>2. d * M \in Nat
    BY <1>1
  <2>. QED  BY <1>1, <2>1, <2>2
<1>8. q * M \in Nat /\ y <= q * M /\ (q - 1) * M < y
  <2>. DEFINE a == M * q
  <2>1. a \in Int /\ q * M = a /\ (q - 1) * M = a - M /\ y <= a /\ a < y + M
    BY <1>5, <1>7
  <2>. HIDE DEF a
  <2>. QED  BY <1>1, <2>1
<1>. QED  BY <1>3, <1>6, <1>7, <1>8 DEF M

\* The oldest entry of a window is of the moment of its oldest report.
LEMMA OldestEntry ==
    ASSUME NEW d \in RateLimiterData, NEW r \in Log, NEW t \in Nat, Exact(d, r, t),
           NEW size \in Nat, size <= dayWindowMs, Window(r, t, size) # {}
    PROVE  \E x \in Nat :
              /\ x > t - size
              /\ calculateRetryAfter(d, t, size) = CeilSeconds(x + size - t)
              /\ \E l \in Window(r, t, size) : r[l].timestamp = x
              /\ \A l \in Window(r, t, size) : r[l].timestamp >= x
<1>. DEFINE s == d.entries
            v == Live(s, t, size)
            x == v[1].timestamp
<1>1. /\ s \in Seq(RateLimitEntry) /\ Ascending(s) /\ t \in Int /\ size \in Int
  BY RecordFields DEF Exact
<1>2. /\ \A i \in 1..Len(s) : s[i].count = Cardinality(ReportsOf(r, s[i].timestamp))
      /\ \A l \in DOMAIN r : InWindow(r[l], t, dayWindowMs) =>
            \E i \in 1..Len(s) : s[i].timestamp = r[l].timestamp
  BY DEF Exact
<1>3. \A l \in DOMAIN r : r[l].timestamp \in Nat
  BY LogList, Constants
<1>4. calculateRetryAfter(d, t, size)
         = IF v = <<>> THEN DefaultRetryAfterSeconds ELSE CeilSeconds(x + size - t)
  BY DEF calculateRetryAfter
<1>. HIDE DEF s
<1>5. /\ v \in Seq(RateLimitEntry) /\ Ascending(v)
      /\ \A i \in 1..Len(v) : InWindow(v[i], t, size) /\ \E j \in 1..Len(s) : v[i] = s[j]
      /\ \A j \in 1..Len(s) : InWindow(s[j], t, size) => \E i \in 1..Len(v) : v[i] = s[j]
  BY <1>1, LiveList
<1>. HIDE DEF v
<1>6. /\ Len(v) \in Nat
      /\ \A i \in 1..Len(v) : v[i].timestamp \in Nat /\ v[i].count \in Nat \ {0}
  BY <1>5, EntryList
<1>7. ASSUME NEW l \in Window(r, t, size)
      PROVE  \E i \in 1..Len(v) : v[i].timestamp = r[l].timestamp
  <2>1. l \in DOMAIN r /\ r[l].timestamp > t - size
    BY DEF Window, InWindow
  <2>2. r[l].timestamp > t - dayWindowMs
    <3>1. dayWindowMs \in Nat
      BY Constants
    <3>2. r[l].timestamp \in Nat
      BY <1>3, <2>1
    <3>. QED  BY <2>1, <3>1, <3>2
  <2>3. PICK j \in 1..Len(s) : s[j].timestamp = r[l].timestamp
    BY <1>2, <2>1, <2>2 DEF InWindow
  <2>4. InWindow(s[j], t, size)
    BY <2>1, <2>3 DEF InWindow
  <2>. QED  BY <1>5, <2>3, <2>4
<1>8. v # <<>> /\ 1 \in 1..Len(v)
  <2>1. \E i \in 1..Len(v) : TRUE
    BY <1>7
  <2>. QED  BY <1>6, <2>1
<1>9. x \in Nat /\ x > t - size
  BY <1>5, <1>6, <1>8 DEF InWindow
<1>10. \E l \in Window(r, t, size) : r[l].timestamp = x
  <2>1. PICK j \in 1..Len(s) : v[1] = s[j]
    BY <1>5, <1>8
  <2>2. Cardinality(ReportsOf(r, x)) # 0
    BY <1>2, <1>6, <1>8, <2>1
  <2>3. ReportsOf(r, x) # {}
    BY <2>2, FS_EmptySet
  <2>4. PICK l \in DOMAIN r : r[l].timestamp = x
    BY <2>3 DEF ReportsOf
  <2>. QED  BY <1>9, <2>4 DEF Window, InWindow
<1>11. \A l \in Window(r, t, size) : r[l].timestamp >= x
  <2>. SUFFICES ASSUME NEW l \in Window(r, t, size) PROVE r[l].timestamp >= x
    OBVIOUS
  <2>1. PICK i \in 1..Len(v) : v[i].timestamp = r[l].timestamp
    BY <1>7
  <2>2. i = 1 \/ 1 < i
    BY <1>6
  <2>3. i = 1 \/ v[1].timestamp < v[i].timestamp
    BY <1>5, <1>8, <2>2 DEF Ascending
  <2>4. v[i].timestamp \in Nat
    BY <1>6
  <2>. QED  BY <1>9, <2>1, <2>3, <2>4
<1>. QED  BY <1>4, <1>8, <1>9, <1>10, <1>11

\* After the announced seconds a report has left the window; none has a second
\* earlier.
LEMMA LeavesOnTime ==
    ASSUME NEW d \in RateLimiterData, NEW r \in Log, NEW t \in Nat, Exact(d, r, t),
           NEW size \in Nat, size <= dayWindowMs, Window(r, t, size) # {},
           NEW s, s = calculateRetryAfter(d, t, size)
    PROVE  /\ Window(r, t + s * MsPerSecond, size) # Window(r, t, size)
           /\ Window(r, t + (s - 1) * MsPerSecond, size) = Window(r, t, size)
<1>1. PICK x \in Nat :
         /\ x > t - size
         /\ s = CeilSeconds(x + size - t)
         /\ \E l \in Window(r, t, size) : r[l].timestamp = x
         /\ \A l \in Window(r, t, size) : r[l].timestamp >= x
  BY OldestEntry
<1>. DEFINE y == x + size - t
<1>2. y \in Nat \ {0} /\ s = CeilSeconds(y)
  BY <1>1
<1>3. x = y + t - size
  OBVIOUS
<1>. HIDE DEF y
<1>4. PICK c \in Nat, a \in Nat, b \in Nat :
         /\ CeilSeconds(y) = c /\ a = c * MsPerSecond /\ b = (c - 1) * MsPerSecond
         /\ y <= a /\ b < y
  BY <1>2, Ceil
<1>5. \A l \in DOMAIN r : r[l].timestamp \in Nat
  BY LogList, Constants
<1>6. Window(r, t + a, size) # Window(r, t, size)
  <2>1. PICK l \in Window(r, t, size) : r[l].timestamp = x
    BY <1>1
  <2>. DEFINE u == t + a
  <2>2. ~(x > u - size) /\ u \in Nat
    BY <1>2, <1>3, <1>4
  <2>. HIDE DEF u
  <2>3. l \notin Window(r, u, size)
    BY <2>1, <2>2 DEF Window, InWindow
  <2>. QED  BY <2>1, <2>3 DEF u
<1>7. Window(r, t + b, size) = Window(r, t, size)
  <2>. DEFINE u == t + b
  <2>1. u \in Nat /\ t <= u /\ x > u - size
    BY <1>2, <1>3, <1>4
  <2>. HIDE DEF u
  <2>2. ASSUME NEW l \in Window(r, u, size)
        PROVE  l \in Window(r, t, size)
    <3>1. l \in DOMAIN r /\ r[l].timestamp > u - size
      BY DEF Window, InWindow
    <3>2. r[l].timestamp > t - size
      BY <1>5, <2>1, <3>1
    <3>. QED  BY <3>1, <3>2 DEF Window, InWindow
  <2>3. ASSUME NEW l \in Window(r, t, size)
        PROVE  l \in Window(r, u, size)
    <3>1. l \in DOMAIN r /\ r[l].timestamp >= x
      BY <1>1 DEF Window
    <3>2. r[l].timestamp > u - size
      BY <1>5, <2>1, <3>1
    <3>. QED  BY <3>1, <3>2 DEF Window, InWindow
  <2>. QED  BY <2>2, <2>3 DEF u
<1>. QED  BY <1>2, <1>4, <1>6, <1>7

\* The retryAfterSeconds of a refused request is right to the second
\* (calculateRpmRetryAfter, calculateRpdRetryAfter): the window that refused it
\* is unchanged a second earlier and has lost a report by then.
THEOREM RetryAfterIsExact == Spec => []RetryAfterExact
<1>1. IndInv => RetryAfterExact
  <2>. SUFFICES ASSUME IndInv, NEW k \in Keys
                PROVE  LET r == retryAfterSeconds(View(k), now, 0)
                       IN  /\ checkLimit(View(k), now, 0) = "rpm_limit_exceeded"
                                 => LeavesWithin(k, windowSizeMs, r)
                           /\ checkLimit(View(k), now, 0) = "rpd_limit_exceeded"
                                 => LeavesWithin(k, dayWindowMs, r)
    BY DEF RetryAfterExact
  <2>. DEFINE d == View(k)
              r == log[k]
              t == now
              s == retryAfterSeconds(d, t, 0)
              why == checkLimit(d, t, 0)
  <2>1. d \in RateLimiterData /\ r \in Log /\ t \in Nat /\ Exact(d, r, t)
    BY ViewExact
  <2>2. /\ calculateRpm(d, t) = Cardinality(Recorded(k, t, windowSizeMs))
        /\ calculateRpd(d, t) = Cardinality(Recorded(k, t, dayWindowMs))
    BY CountersExact
  <2>3. \A u, size : Recorded(k, u, size) = Window(r, u, size)
    BY DEF Recorded, Window
  <2>4. /\ why = "rpm_limit_exceeded" => /\ s = calculateRetryAfter(d, t, windowSizeMs)
                                         /\ calculateRpm(d, t) >= rpmLimit
        /\ why = "rpd_limit_exceeded" => /\ s = calculateRetryAfter(d, t, dayWindowMs)
                                         /\ calculateRpd(d, t) >= rpdLimit
    BY DEF retryAfterSeconds, checkLimit
  <2>5. ASSUME NEW size, Cardinality(Window(r, t, size)) >= 1
        PROVE  Window(r, t, size) # {}
    BY <2>5, FS_EmptySet
  <2>6. \A size : Cardinality(Window(r, t, size)) \in Nat
    BY <2>3, CountersExact
  <2>. HIDE DEF d, r, t, s, why
  <2>7. ASSUME why = "rpm_limit_exceeded" PROVE LeavesWithin(k, windowSizeMs, s)
    <3>1. Cardinality(Window(r, t, windowSizeMs)) >= rpmLimit
      BY <2>2, <2>3, <2>4, <2>7
    <3>2. Window(r, t, windowSizeMs) # {}
      BY <2>5, <2>6, <3>1, Constants
    <3>3. s = calculateRetryAfter(d, t, windowSizeMs)
      BY <2>4, <2>7
    <3>4. /\ Window(r, t + s * MsPerSecond, windowSizeMs) # Window(r, t, windowSizeMs)
          /\ Window(r, t + (s - 1) * MsPerSecond, windowSizeMs) = Window(r, t, windowSizeMs)
      BY <2>1, <3>2, <3>3, LeavesOnTime, Constants
    <3>. QED  BY <2>3, <3>4 DEF LeavesWithin, t
  <2>8. ASSUME why = "rpd_limit_exceeded" PROVE LeavesWithin(k, dayWindowMs, s)
    <3>1. Cardinality(Window(r, t, dayWindowMs)) >= rpdLimit
      BY <2>2, <2>3, <2>4, <2>8
    <3>2. Window(r, t, dayWindowMs) # {}
      BY <2>5, <2>6, <3>1, Constants
    <3>3. s = calculateRetryAfter(d, t, dayWindowMs) /\ dayWindowMs <= dayWindowMs
      BY <2>4, <2>8, Constants
    <3>4. /\ Window(r, t + s * MsPerSecond, dayWindowMs) # Window(r, t, dayWindowMs)
          /\ Window(r, t + (s - 1) * MsPerSecond, dayWindowMs) = Window(r, t, dayWindowMs)
      BY <2>1, <3>2, <3>3, LeavesOnTime, Constants
    <3>. QED  BY <2>3, <3>4 DEF LeavesWithin, t
  <2>. QED  BY <2>7, <2>8 DEF s, why, d, t
<1>. QED  BY <1>1, Invariance, PTL
=============================================================================
