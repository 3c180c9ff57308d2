------------------------- MODULE TenantQuotaProofs -------------------------
(***************************************************************************)
(* Proofs about TenantQuota for all tiers, limits, windows, projects and   *)
(* requests, and, in the last third, about Demo, the demo sandbox, whose   *)
(* windows are filtered and counted alike, for all addresses and limits.   *)
(***************************************************************************)
EXTENDS TenantQuota, Demo, FiniteSetTheorems, SequenceTheorems, WellFoundedInduction, TLAPS

\* The entries, grants and records that there may be at time u.
EntryBy(u) == [timestamp : 0..u, count : Counts, project : Projects \cup {NoProject}]
GrantBy(u) == [timestamp : 0..u, count : Counts, project : Projects \cup {NoProject},
               tier : Tiers, cap : SubCaps \cup {NoSubCap}]
DataBy(u) ==
    [ tier : Tiers, entries : Seq(EntryBy(u)),
      debt : 0..MaxDebt, contributed : 0..MaxContributed, trusted : BOOLEAN,
      days : 0..MaxDays, ceiling : {100, 150, 450, 500} ]

\* Those of any time.
Entry == [timestamp : Nat, count : Counts, project : Projects \cup {NoProject}]
Grant == [timestamp : Nat, count : Counts, project : Projects \cup {NoProject},
          tier : Tiers, cap : SubCaps \cup {NoSubCap}]

\* The entries that the grants leave in a record.
Issued(grants) ==
    [i \in DOMAIN grants |-> [timestamp |-> grants[i].timestamp, count |-> grants[i].count,
                              project |-> grants[i].project]]

\* Two records with the same debt, and that differ in their entries at most.
SameDebt(m, d) ==
    /\ m.debt = d.debt /\ m.contributed = d.contributed
    /\ m.trusted = d.trusted /\ m.days = d.days /\ m.ceiling = d.ceiling
Alike(m, d) == m.tier = d.tier /\ SameDebt(m, d)

\* The oldest first.
Ascends(s) == \A i, j \in DOMAIN s : i < j => s[i].timestamp <= s[j].timestamp

\* A record at time u, pruned, has the entries of the grants, and its ceiling is
\* that of its debt.
Current(d, u, grants) ==
    /\ d \in DataBy(u)
    /\ PruneAt(d.entries, u) = Issued(grants)
    /\ CoherentDebt(d)

\* The grants of the day, in their order, none of which passed a limit.
Sound(grants, u) ==
    /\ grants \in Seq(GrantBy(u))
    /\ Ascends(grants)
    /\ \A j \in DOMAIN grants : LimitsKept(grants, j)

\* The record in memory, if there is one, and the stored one are both current.
Right(loaded, m, d, u, grants) ==
    /\ loaded \in BOOLEAN /\ m \in DataBy(u) /\ u \in Nat
    /\ Current(d, u, grants)
    /\ loaded => Current(m, u, grants) /\ Alike(m, d)
    /\ Sound(grants, u)

\* The inductive invariant.
IndInv == Right(isLoaded, mem, disk, now, granted)

-----------------------------------------------------------------------------
(* Sums over finite sets: Total *)

\* The element that the sum takes off a set first.
Pick(s) == CHOOSE x \in s : TRUE

\* g sums f over every subset of S, by the recursion of MapThenFoldSet.
Sums(f, S, g) ==
    g = [s \in SUBSET S |-> IF s = {} THEN 0 ELSE f[Pick(s)] + g[s \ {Pick(s)}]]

\* The sum that this recursion defines.
SumOver(f, S) == (CHOOSE g : Sums(f, S, g))[S]

\* Total, with its recursion in sight.
LEMMA TotalIsSum ==
    ASSUME NEW f, NEW S
    PROVE  Total(f, S) = SumOver(f, S)
BY DEF Total, SumOver, Sums, Pick, MapThenSumSet, MapThenFoldSet

\* A set of subsets of a finite set has a member that holds no other: induction,
\* in the form of the smallest counterexample.
LEMMA Smallest ==
    ASSUME NEW S, IsFiniteSet(S), NEW B, B \subseteq SUBSET S, B # {}
    PROVE  \E T \in B : \A U \in B : U \subseteq T => U = T
<1>1. B \subseteq FiniteSubsetsOf(S)
  BY FS_FiniteSubsetsOfFinite
<1>2. IsWellFoundedOn(StrictSubsetOrdering(S), FiniteSubsetsOf(S))
  BY FS_StrictSubsetOrderingWellFounded
<1>3. PICK T \in B : \A U \in B : ~(<<U, T>> \in StrictSubsetOrdering(S))
  BY <1>1, <1>2, WFMin
<1>4. ASSUME NEW U \in B, U \subseteq T, U # T
      PROVE  FALSE
  <2>1. <<U, T>> \in StrictSubsetOrdering(S)
    BY <1>4 DEF StrictSubsetOrdering
  <2>. QED  BY <1>3, <2>1
<1>. QED  BY <1>4

\* Two solutions agree where both are defined.
LEMMA SumsUnique ==
    ASSUME NEW f, NEW S, IsFiniteSet(S), NEW R, IsFiniteSet(R),
           NEW g, Sums(f, S, g), NEW h, Sums(f, R, h)
    PROVE  \A T \in (SUBSET S) \cap (SUBSET R) : g[T] = h[T]
<1>. DEFINE B == {T \in SUBSET S : T \subseteq R /\ g[T] # h[T]}
<1>. SUFFICES ASSUME B # {} PROVE FALSE
  OBVIOUS
<1>1. PICK T \in B : \A U \in B : U \subseteq T => U = T
  <2>. B \subseteq SUBSET S  OBVIOUS
  <2>. HIDE DEF B
  <2>. QED  BY Smallest
<1>2. T # {}
  BY DEF Sums
<1>3. Pick(T) \in T
  BY <1>2 DEF Pick
<1>4. g[T \ {Pick(T)}] = h[T \ {Pick(T)}]
  BY <1>1, <1>3
<1>5. g[T] = f[Pick(T)] + g[T \ {Pick(T)}] /\ h[T] = f[Pick(T)] + h[T \ {Pick(T)}]
  BY <1>2 DEF Sums
<1>. QED  BY <1>4, <1>5

\* The recursion has a solution.
LEMMA SumsExist ==
    ASSUME NEW f, NEW S, IsFiniteSet(S)
    PROVE  \E g : Sums(f, S, g)
<1>. DEFINE B == {T \in SUBSET S : ~\E g : Sums(f, T, g)}
<1>. SUFFICES ASSUME B # {} PROVE FALSE
  OBVIOUS
<1>1. PICK T \in B : \A U \in B : U \subseteq T => U = T
  <2>. B \subseteq SUBSET S  OBVIOUS
  <2>. HIDE DEF B
  <2>. QED  BY Smallest
<1>. DEFINE Sol(U) == CHOOSE g : Sums(f, U, g)
            g == [U \in SUBSET T |->
                     IF U = {} THEN 0
                     ELSE f[Pick(U)] + Sol(U \ {Pick(U)})[U \ {Pick(U)}]]
<1>2. \A U \in SUBSET T : IsFiniteSet(U) /\ (U # {} => Pick(U) \in U)
  BY FS_Subset DEF Pick
<1>3. \A U \in SUBSET T : U # T => Sums(f, U, Sol(U))
  <2>1. \A U \in SUBSET T : U # T => \E h : Sums(f, U, h)
    BY <1>1
  <2>. QED  BY <2>1
<1>4. ASSUME NEW U \in SUBSET T, U # T
      PROVE  g[U] = Sol(U)[U]
  <2>1. CASE U = {}
    <3>. DEFINE h == Sol(U)
    <3>1. Sums(f, U, h)
      BY <1>3, <1>4
    <3>. HIDE DEF h
    <3>2. h[U] = 0
      BY <2>1, <3>1 DEF Sums
    <3>. QED  BY <2>1, <3>2 DEF h
  <2>2. CASE U # {}
    <3>. DEFINE V == U \ {Pick(U)}
    <3>1. V \in SUBSET U /\ V # T /\ V \in SUBSET T
      BY <1>2, <2>2, <1>4
    <3>2. Sums(f, U, Sol(U)) /\ Sums(f, V, Sol(V))
      BY <1>3, <1>4, <3>1
    <3>3. Sol(U)[U] = f[Pick(U)] + Sol(U)[V]
      BY <3>2, <2>2 DEF Sums
    <3>4. Sol(U)[V] = Sol(V)[V]
      <4>1. IsFiniteSet(U) /\ IsFiniteSet(V) /\ V \in (SUBSET U) \cap (SUBSET V)
        BY <1>2, <3>1
      <4>. DEFINE a == Sol(U)  b == Sol(V)
      <4>2. Sums(f, U, a) /\ Sums(f, V, b)
        BY <3>2
      <4>. HIDE DEF a, b, V
      <4>3. a[V] = b[V]
        BY <4>1, <4>2, SumsUnique
      <4>. QED  BY <4>3 DEF a, b
    <3>. QED  BY <3>3, <3>4, <2>2
  <2>. QED  BY <2>1, <2>2
<1>5. g = [U \in SUBSET T |-> IF U = {} THEN 0 ELSE f[Pick(U)] + g[U \ {Pick(U)}]]
  <2>1. ASSUME NEW U \in SUBSET T, U # {}
        PROVE  Sol(U \ {Pick(U)})[U \ {Pick(U)}] = g[U \ {Pick(U)}]
    <3>1. U \ {Pick(U)} \in SUBSET T /\ U \ {Pick(U)} # T
      BY <1>2, <2>1
    <3>. HIDE DEF g, Sol
    <3>. QED  BY <1>4, <3>1
  <2>. DEFINE h == [U \in SUBSET T |-> IF U = {} THEN 0 ELSE f[Pick(U)] + g[U \ {Pick(U)}]]
  <2>2. \A U \in SUBSET T : g[U] = h[U]
    <3>. TAKE U \in SUBSET T
    <3>1. CASE U = {}
      BY <3>1
    <3>2. CASE U # {}
      <4>. DEFINE V == U \ {Pick(U)}
      <4>1. g[U] = f[Pick(U)] + Sol(V)[V]
        BY <3>2
      <4>2. Sol(V)[V] = g[V]
        BY <3>2, <2>1
      <4>3. h[U] = f[Pick(U)] + g[V]
        <5>. HIDE DEF g
        <5>. QED  BY <3>2
      <4>. HIDE DEF g, h, V
      <4>. QED  BY <4>1, <4>2, <4>3
    <3>. QED  BY <3>1, <3>2
  <2>. QED  BY <2>2
<1>6. Sums(f, T, g)
  BY <1>5 DEF Sums
<1>. QED  BY <1>1, <1>6

\* What the sum is.
LEMMA SumUnfold ==
    ASSUME NEW f, NEW S, IsFiniteSet(S)
    PROVE  /\ SumOver(f, {}) = 0
           /\ S # {} => Pick(S) \in S /\ SumOver(f, S) = f[Pick(S)] + SumOver(f, S \ {Pick(S)})
<1>. DEFINE Sol(U) == CHOOSE g : Sums(f, U, g)
<1>1. Sums(f, {}, Sol({})) /\ Sums(f, S, Sol(S))
  BY SumsExist, FS_EmptySet
<1>2. SumOver(f, {}) = 0
  BY <1>1 DEF SumOver, Sums
<1>3. ASSUME S # {}
      PROVE  Pick(S) \in S /\ SumOver(f, S) = f[Pick(S)] + SumOver(f, S \ {Pick(S)})
  <2>1. Pick(S) \in S
    BY <1>3 DEF Pick
  <2>. DEFINE V == S \ {Pick(S)}
  <2>2. IsFiniteSet(V) /\ V \subseteq S
    BY FS_Subset
  <2>3. Sums(f, V, Sol(V))
    BY <2>2, SumsExist
  <2>4. Sol(S)[V] = Sol(V)[V]
    <3>. DEFINE a == Sol(S)  b == Sol(V)
    <3>1. Sums(f, S, a) /\ Sums(f, V, b) /\ V \in (SUBSET S) \cap (SUBSET V)
      BY <1>1, <2>2, <2>3
    <3>. HIDE DEF a, b, V
    <3>2. a[V] = b[V]
      BY <2>2, <3>1, SumsUnique
    <3>. QED  BY <3>2 DEF a, b
  <2>5. Sol(S)[S] = f[Pick(S)] + Sol(S)[V]
    BY <1>1, <1>3 DEF Sums
  <2>. QED  BY <2>1, <2>4, <2>5 DEF SumOver
<1>. QED  BY <1>2, <1>3

\* A sum of naturals is one.
LEMMA SumType ==
    ASSUME NEW f, NEW S, IsFiniteSet(S), \A x \in S : f[x] \in Nat
    PROVE  SumOver(f, S) \in Nat
<1>. DEFINE B == {T \in SUBSET S : SumOver(f, T) \notin Nat}
<1>. SUFFICES ASSUME B # {} PROVE FALSE
  OBVIOUS
<1>1. PICK T \in B : \A U \in B : U \subseteq T => U = T
  <2>. B \subseteq SUBSET S  OBVIOUS
  <2>. HIDE DEF B
  <2>. QED  BY Smallest
<1>2. IsFiniteSet(T) /\ T \subseteq S
  BY FS_Subset
<1>3. T # {}
  <2>1. SumOver(f, {}) = 0
    BY SumUnfold, FS_EmptySet
  <2>. QED  BY <2>1
<1>4. Pick(T) \in T /\ SumOver(f, T) = f[Pick(T)] + SumOver(f, T \ {Pick(T)})
  BY SumUnfold, <1>2, <1>3
<1>5. SumOver(f, T \ {Pick(T)}) \in Nat
  BY <1>1, <1>4
<1>. QED  BY <1>2, <1>4, <1>5

\* Any element may be taken off first.
LEMMA SumTakeOff ==
    ASSUME NEW f, NEW S, IsFiniteSet(S), \A x \in S : f[x] \in Nat, NEW e \in S
    PROVE  SumOver(f, S) = f[e] + SumOver(f, S \ {e})
<1>. DEFINE B == {T \in SUBSET S : \E x \in T : SumOver(f, T) # f[x] + SumOver(f, T \ {x})}
<1>. SUFFICES ASSUME B # {} PROVE FALSE
  OBVIOUS
<1>1. PICK T \in B : \A U \in B : U \subseteq T => U = T
  <2>. B \subseteq SUBSET S  OBVIOUS
  <2>. HIDE DEF B
  <2>. QED  BY Smallest
<1>2. PICK x \in T : SumOver(f, T) # f[x] + SumOver(f, T \ {x})
  OBVIOUS
<1>3. IsFiniteSet(T) /\ T \subseteq S /\ T # {} /\ IsFiniteSet(T \ {x})
  BY FS_Subset
<1>. DEFINE c == Pick(T)
<1>4. c \in T /\ SumOver(f, T) = f[c] + SumOver(f, T \ {c})
  BY SumUnfold, <1>3
<1>5. x # c
  BY <1>2, <1>4
<1>. DEFINE R == T \ {x, c}
<1>6. SumOver(f, T \ {c}) = f[x] + SumOver(f, R)
  <2>1. T \ {c} \in SUBSET S /\ T \ {c} \notin B
    BY <1>1, <1>4
  <2>2. (T \ {c}) \ {x} = R
    OBVIOUS
  <2>. QED  BY <2>1, <2>2, <1>5
<1>7. SumOver(f, T \ {x}) = f[c] + SumOver(f, R)
  <2>1. T \ {x} \in SUBSET S /\ T \ {x} \notin B
    BY <1>1
  <2>2. (T \ {x}) \ {c} = R
    OBVIOUS
  <2>. QED  BY <2>1, <2>2, <1>4, <1>5
<1>8. SumOver(f, R) \in Nat /\ f[x] \in Nat /\ f[c] \in Nat
  <2>1. IsFiniteSet(R) /\ R \subseteq S
    BY <1>3, FS_Subset
  <2>. HIDE DEF R
  <2>. QED  BY <2>1, SumType, <1>3, <1>4
<1>. HIDE DEF R, c
<1>. QED  BY <1>2, <1>4, <1>6, <1>7, <1>8

\* An element that joins adds its value.
LEMMA SumAdd ==
    ASSUME NEW f, NEW S, IsFiniteSet(S), NEW e, e \notin S,
           \A x \in S \cup {e} : f[x] \in Nat
    PROVE  SumOver(f, S \cup {e}) = SumOver(f, S) + f[e]
<1>1. IsFiniteSet(S \cup {e}) /\ (S \cup {e}) \ {e} = S /\ e \in S \cup {e}
  BY FS_AddElement
<1>2. SumOver(f, S \cup {e}) = f[e] + SumOver(f, (S \cup {e}) \ {e})
  BY <1>1, SumTakeOff
<1>3. SumOver(f, S) \in Nat
  BY SumType
<1>4. f[e] \in Nat
  OBVIOUS
<1>. QED  BY <1>1, <1>2, <1>3, <1>4

\* Two functions that agree on a set have the same sum over it.
LEMMA SumSame ==
    ASSUME NEW f, NEW g, NEW S, IsFiniteSet(S), \A x \in S : f[x] = g[x] /\ f[x] \in Nat
    PROVE  SumOver(f, S) = SumOver(g, S)
<1>. DEFINE B == {T \in SUBSET S : SumOver(f, T) # SumOver(g, T)}
<1>. SUFFICES ASSUME B # {} PROVE FALSE
  OBVIOUS
<1>1. PICK T \in B : \A U \in B : U \subseteq T => U = T
  <2>. B \subseteq SUBSET S  OBVIOUS
  <2>. HIDE DEF B
  <2>. QED  BY Smallest
<1>2. IsFiniteSet(T) /\ T \subseteq S
  BY FS_Subset
<1>3. T # {}
  <2>1. SumOver(f, {}) = 0 /\ SumOver(g, {}) = 0
    BY SumUnfold, FS_EmptySet
  <2>. QED  BY <2>1
<1>4. /\ Pick(T) \in T /\ SumOver(f, T) = f[Pick(T)] + SumOver(f, T \ {Pick(T)})
      /\ SumOver(g, T) = g[Pick(T)] + SumOver(g, T \ {Pick(T)})
  BY SumUnfold, <1>2, <1>3
<1>5. SumOver(f, T \ {Pick(T)}) = SumOver(g, T \ {Pick(T)})
  BY <1>1, <1>4
<1>. QED  BY <1>2, <1>4, <1>5

\* A sum over places may be taken over what the places are mapped to.
LEMMA SumMoved ==
    ASSUME NEW S, IsFiniteSet(S), NEW P, IsFiniteSet(P), NEW at \in [S -> P],
           \A i, j \in S : at[i] = at[j] => i = j,
           NEW f, \A p \in P : f[p] \in Nat,
           NEW g, \A i \in S : g[i] = f[at[i]]
    PROVE  SumOver(g, S) = SumOver(f, {at[i] : i \in S})
<1>. DEFINE Image(T) == {at[i] : i \in T}
            B == {T \in SUBSET S : SumOver(g, T) # SumOver(f, Image(T))}
<1>. SUFFICES ASSUME B # {} PROVE FALSE
  <2>1. S \in SUBSET S
    OBVIOUS
  <2>. QED  BY <2>1
<1>1. PICK T \in B : \A U \in B : U \subseteq T => U = T
  <2>. B \subseteq SUBSET S  OBVIOUS
  <2>. HIDE DEF B
  <2>. QED  BY Smallest
<1>2. IsFiniteSet(T) /\ T \subseteq S
  BY FS_Subset
<1>3. T # {}
  <2>1. SumOver(g, {}) = 0 /\ SumOver(f, {}) = 0
    BY SumUnfold, FS_EmptySet
  <2>2. Image({}) = {}
    OBVIOUS
  <2>. QED  BY <2>1, <2>2
<1>. DEFINE c == Pick(T)
            U == T \ {c}
<1>4. c \in T /\ SumOver(g, T) = g[c] + SumOver(g, U)
  BY SumUnfold, <1>2, <1>3
<1>5. SumOver(g, U) = SumOver(f, Image(U))
  <2>1. U \in SUBSET S /\ U # T /\ U \subseteq T
    BY <1>2, <1>4
  <2>. QED  BY <1>1, <2>1
<1>6. /\ Image(T) = Image(U) \cup {at[c]} /\ at[c] \notin Image(U)
      /\ Image(U) \subseteq P /\ at[c] \in P
  <2>1. T = U \cup {c} /\ c \notin U /\ c \in S /\ U \subseteq S
    BY <1>2, <1>4
  <2>. HIDE DEF c, U
  <2>. QED  BY <2>1
<1>7. IsFiniteSet(Image(U)) /\ \A p \in Image(U) \cup {at[c]} : f[p] \in Nat
  <2>1. Image(U) \in SUBSET P
    BY <1>6
  <2>. HIDE DEF Image, U, c
  <2>. QED  BY <1>6, <2>1, FS_Subset
<1>8. SumOver(f, Image(T)) = SumOver(f, Image(U)) + f[at[c]]
  <2>. HIDE DEF Image, U, c
  <2>. QED  BY <1>6, <1>7, SumAdd
<1>9. SumOver(f, Image(U)) \in Nat /\ f[at[c]] \in Nat /\ g[c] = f[at[c]]
  <2>1. SumOver(f, Image(U)) \in Nat
    <3>. HIDE DEF Image, U, c
    <3>. QED  BY <1>7, SumType
  <2>2. c \in S
    BY <1>2, <1>4
  <2>. QED  BY <1>7, <2>1, <2>2
<1>10. SumOver(g, T) = SumOver(f, Image(T))
  <2>. HIDE DEF Image, U, c
  <2>. QED  BY <1>4, <1>5, <1>8, <1>9
<1>. QED  BY <1>1, <1>10

\* The sum of two disjoint sets.
LEMMA SumUnion ==
    ASSUME NEW f, NEW S, IsFiniteSet(S), NEW R, IsFiniteSet(R), S \cap R = {},
           \A x \in S \cup R : f[x] \in Nat
    PROVE  SumOver(f, S \cup R) = SumOver(f, S) + SumOver(f, R)
<1>. DEFINE B == {T \in SUBSET R : SumOver(f, S \cup T) # SumOver(f, S) + SumOver(f, T)}
<1>. SUFFICES ASSUME B # {} PROVE FALSE
  <2>1. R \in SUBSET R
    OBVIOUS
  <2>. QED  BY <2>1
<1>1. PICK T \in B : \A U \in B : U \subseteq T => U = T
  <2>. B \subseteq SUBSET R  OBVIOUS
  <2>. HIDE DEF B
  <2>. QED  BY Smallest
<1>2. IsFiniteSet(T) /\ T \subseteq R
  BY FS_Subset
<1>3. T # {}
  <2>1. SumOver(f, {}) = 0 /\ SumOver(f, S) \in Nat
    BY SumUnfold, SumType, FS_EmptySet
  <2>2. S \cup {} = S
    OBVIOUS
  <2>. QED  BY <2>1, <2>2
<1>. DEFINE c == Pick(T)
            U == T \ {c}
<1>4. c \in T /\ SumOver(f, T) = f[c] + SumOver(f, U)
  BY SumUnfold, <1>2, <1>3
<1>5. SumOver(f, S \cup U) = SumOver(f, S) + SumOver(f, U)
  <2>1. U \in SUBSET R /\ U # T /\ U \subseteq T
    BY <1>2, <1>4
  <2>. QED  BY <1>1, <2>1
<1>6. /\ IsFiniteSet(U) /\ IsFiniteSet(S \cup U) /\ c \notin S \cup U
      /\ S \cup T = (S \cup U) \cup {c} /\ U \subseteq R /\ c \in R
  <2>1. U \in SUBSET T /\ c \in T
    BY <1>4
  <2>2. IsFiniteSet(U)
    <3>. HIDE DEF U
    <3>. QED  BY <1>2, <2>1, FS_Subset
  <2>3. IsFiniteSet(S \cup U)
    <3>. HIDE DEF U
    <3>. QED  BY <2>2, FS_Union
  <2>. QED  BY <1>2, <2>1, <2>2, <2>3
<1>. HIDE DEF U, c
<1>7. SumOver(f, S \cup T) = SumOver(f, S \cup U) + f[c]
  <2>. DEFINE W == S \cup U
  <2>1. IsFiniteSet(W) /\ c \notin W /\ \A x \in W \cup {c} : f[x] \in Nat
    BY <1>6
  <2>. HIDE DEF W
  <2>2. SumOver(f, W \cup {c}) = SumOver(f, W) + f[c]
    BY <2>1, SumAdd
  <2>. QED  BY <1>6, <2>2 DEF W
<1>8. SumOver(f, S) \in Nat /\ SumOver(f, U) \in Nat /\ f[c] \in Nat
  BY <1>6, SumType
<1>. QED  BY <1>1, <1>4, <1>5, <1>7, <1>8
\* Of finitely many numbers one is the first.
LEMMA Least ==
    ASSUME NEW n \in Nat, NEW T, T \subseteq 1..n, T # {}
    PROVE  \E m \in T : \A j \in T : m <= j
<1>. DEFINE B == {1..i : i \in T}
<1>1. IsFiniteSet(1..n)
  BY FS_Interval
<1>2. PICK U \in B : \A V \in B : V \subseteq U => V = U
  <2>1. \A i \in T : 1..i \subseteq 1..n
    OBVIOUS
  <2>2. B \subseteq SUBSET (1..n)
    BY <2>1
  <2>3. B # {}
    OBVIOUS
  <2>. DEFINE R == 1..n
  <2>4. IsFiniteSet(R) /\ B \subseteq SUBSET R
    BY <1>1, <2>2
  <2>. HIDE DEF B, R
  <2>. QED  BY <2>3, <2>4, Smallest
<1>3. PICK m \in T : U = 1..m
  OBVIOUS
<1>4. ASSUME NEW j \in T, ~(m <= j)
      PROVE  FALSE
  <2>1. 1..j \in B /\ 1..j \subseteq 1..m
    BY <1>4
  <2>2. 1..j = 1..m
    BY <1>2, <1>3, <2>1
  <2>. QED  BY <1>4, <2>2
<1>. QED  BY <1>4

-----------------------------------------------------------------------------
(* Filters *)

\* The places of P in order, each once, as a filter goes through them.
Placed(at, s, P) ==
    /\ at \in [1..Cardinality(P) -> P]
    /\ \A i, j \in 1..Cardinality(P) : i < j => at[i] < at[j]
    /\ \A p \in P : \E i \in 1..Cardinality(P) : at[i] = p
    /\ Through(s, P) = [j \in 1..Cardinality(P) |-> s[at[j]]]

\* A filter goes through the places that it is asked for.
LEMMA ThroughPlaces ==
    ASSUME NEW n \in Nat, NEW P, P \subseteq 1..n, NEW s
    PROVE  /\ IsFiniteSet(P) /\ Cardinality(P) \in Nat
           /\ \E at : Placed(at, s, P)
<1>. DEFINE m == Cardinality(P)
            Upto(i) == {h \in P : h <= i}
            rank == [i \in P |-> Cardinality(Upto(i))]
            at == [j \in 1..m |-> CHOOSE i \in P : Cardinality(Upto(i)) = j]
<1>1. IsFiniteSet(P) /\ m \in Nat
  <2>1. IsFiniteSet(1..n)
    BY FS_Interval
  <2>. QED  BY <2>1, FS_Subset, FS_CardinalityType
<1>2. ASSUME NEW i \in P
      PROVE  /\ IsFiniteSet(Upto(i)) /\ Cardinality(Upto(i)) \in 1..m
  <2>1. Upto(i) \in SUBSET P /\ i \in Upto(i)
    OBVIOUS
  <2>. HIDE DEF Upto
  <2>2. IsFiniteSet(Upto(i)) /\ Cardinality(Upto(i)) <= m
    BY <1>1, <2>1, FS_Subset
  <2>3. Cardinality(Upto(i)) \in Nat /\ Cardinality(Upto(i)) # 0
    BY <2>1, <2>2, FS_CardinalityType, FS_EmptySet
  <2>. QED  BY <1>1, <2>2, <2>3
<1>3. ASSUME NEW i \in P, NEW j \in P, i < j
      PROVE  Cardinality(Upto(i)) < Cardinality(Upto(j))
  <2>1. Upto(i) \in SUBSET Upto(j) /\ Upto(i) # Upto(j)
    <3>1. i \in Int /\ j \in Int /\ P \subseteq Int
      OBVIOUS
    <3>2. j \in Upto(j) /\ j \notin Upto(i)
      BY <1>3, <3>1
    <3>3. \A h \in P : h <= i => h <= j
      BY <1>3, <3>1
    <3>. QED  BY <3>2, <3>3
  <2>. HIDE DEF Upto
  <2>2. IsFiniteSet(Upto(j)) /\ Cardinality(Upto(i)) \in 1..m /\ Cardinality(Upto(j)) \in 1..m
    BY <1>2
  <2>3. /\ Cardinality(Upto(i)) <= Cardinality(Upto(j))
        /\ Cardinality(Upto(i)) # Cardinality(Upto(j))
    BY <2>1, <2>2, FS_Subset
  <2>. QED  BY <1>1, <2>2, <2>3
<1>4. rank \in Surjection(P, 1..m)
  <2>1. rank \in [P -> 1..m]
    <3>. HIDE DEF Upto
    <3>. QED  BY <1>2
  <2>2. \A i, j \in P : rank[i] = rank[j] => i = j
    <3>. SUFFICES ASSUME NEW i \in P, NEW j \in P, rank[i] = rank[j], i # j
                  PROVE  FALSE
      OBVIOUS
    <3>1. i \in Int /\ j \in Int /\ (i < j \/ j < i)
      OBVIOUS
    <3>2. rank[i] < rank[j] \/ rank[j] < rank[i]
      BY <1>3, <3>1
    <3>3. rank[i] \in Int /\ rank[j] \in Int
      BY <1>1, <2>1
    <3>. QED  BY <3>2, <3>3
  <2>3. rank \in Injection(P, 1..m)
    <3>. HIDE DEF rank, m
    <3>. QED  BY <2>1, <2>2 DEF Injection, IsInjective
  <2>4. IsFiniteSet(1..m) /\ Cardinality(1..m) = m
    BY <1>1, FS_Interval
  <2>5. rank \in Surjection(P, 1..m) <=> Cardinality(P) = Cardinality(1..m)
    <3>. DEFINE R == 1..m
    <3>1. rank \in Injection(P, R) /\ IsFiniteSet(R)
      BY <2>3, <2>4
    <3>2. rank \in Surjection(P, R) <=> Cardinality(P) = Cardinality(R)
      <4>. HIDE DEF rank, R
      <4>. QED  BY ONLY <3>1, FS_Injection
    <3>. QED  BY <3>2
  <2>. QED  BY <2>4, <2>5
<1>5. \A j \in 1..m : at[j] \in P /\ rank[at[j]] = j
  <2>1. \A j \in 1..m : \E i \in P : rank[i] = j
    <3>. HIDE DEF rank
    <3>. QED  BY <1>4 DEF Surjection
  <2>. HIDE DEF Upto
  <2>. QED  BY <2>1
<1>6. at \in [1..m -> P]
  BY <1>5
<1>7. ASSUME NEW i \in 1..m, NEW j \in 1..m, i < j
      PROVE  at[i] < at[j]
  <2>1. at[i] \in P /\ at[j] \in P /\ rank[at[i]] = i /\ rank[at[j]] = j
    BY <1>5
  <2>2. at[i] \in Int /\ at[j] \in Int /\ i \in Int /\ j \in Int
    <3>1. P \subseteq Int
      OBVIOUS
    <3>2. i \in Int /\ j \in Int
      <4>. HIDE DEF m
      <4>. QED  BY <1>1
    <3>3. at[i] \in P /\ at[j] \in P
      BY <2>1
    <3>. HIDE DEF at
    <3>. QED  BY <3>1, <3>2, <3>3
  <2>3. at[j] < at[i] => rank[at[j]] < rank[at[i]]
    <3>. HIDE DEF at, Upto
    <3>. QED  BY <1>3, <2>1
  <2>4. at[i] # at[j]
    <3>. HIDE DEF at, rank
    <3>. QED  BY <1>7, <2>1, <2>2
  <2>. HIDE DEF at, rank
  <2>. QED  BY <1>7, <2>1, <2>2, <2>3, <2>4
<1>8. ASSUME NEW p \in P
      PROVE  \E i \in 1..m : at[i] = p
  <2>. DEFINE r == rank[p]
  <2>1. r \in 1..m
    BY <1>2
  <2>2. at[r] \in P /\ rank[at[r]] = rank[p]
    BY <1>5, <2>1
  <2>3. at[r] = p
    <3>1. p \in Int /\ at[r] \in Int
      <4>1. P \subseteq Int
        OBVIOUS
      <4>. HIDE DEF at, rank, r
      <4>. QED  BY <2>2, <4>1
    <3>2. at[r] < p => rank[at[r]] < rank[p]
      <4>. HIDE DEF at, Upto, r
      <4>. QED  BY <1>3, <2>2
    <3>3. p < at[r] => rank[p] < rank[at[r]]
      <4>. HIDE DEF at, Upto, r
      <4>. QED  BY <1>3, <2>2
    <3>4. rank[p] \in Int
      BY <1>1, <2>1
    <3>. HIDE DEF at, r, rank
    <3>. QED  BY <2>2, <3>1, <3>2, <3>3, <3>4
  <2>. QED  BY <2>1, <2>3
<1>9. Through(s, P) = [j \in 1..m |-> s[at[j]]]
  <2>1. \A j \in 1..m : at[j] = CHOOSE i \in P : Cardinality({h \in P : h <= i}) = j
    OBVIOUS
  <2>2. Through(s, P) =
            [j \in 1..m |-> s[CHOOSE i \in P : Cardinality({h \in P : h <= i}) = j]]
    BY DEF Through
  <2>. HIDE DEF at, m
  <2>3. \A j \in 1..m : s[CHOOSE i \in P : Cardinality({h \in P : h <= i}) = j] = s[at[j]]
    BY <2>1
  <2>. QED  BY <2>2, <2>3
<1>. HIDE DEF at
<1>10. Placed(at, s, P)
  BY <1>6, <1>7, <1>8, <1>9 DEF Placed
<1>. QED  BY <1>1, <1>10

\* What a list of a type is.
LEMMA ListOf ==
    ASSUME NEW R, NEW s \in Seq(R)
    PROVE  /\ Len(s) \in Nat /\ DOMAIN s = 1..Len(s) /\ IsFiniteSet(DOMAIN s)
           /\ \A i \in 1..Len(s) : s[i] \in R
<1>1. Len(s) \in Nat /\ DOMAIN s = 1..Len(s) /\ s \in [1..Len(s) -> R]
  BY LenProperties
<1>2. IsFiniteSet(1..Len(s))
  BY <1>1, FS_Interval
<1>. QED  BY <1>1, <1>2

\* All of q is at some place of P in s.
TakenFrom(q, s, P) == \A i \in 1..Len(q) : \E p \in P : q[i] = s[p]

\* What is filtered out of a list is a list of the type.
LEMMA ThroughList ==
    ASSUME NEW R, NEW s \in Seq(R), NEW P, P \subseteq 1..Len(s)
    PROVE  /\ Through(s, P) \in Seq(R)
           /\ Len(Through(s, P)) = Cardinality(P) /\ Len(Through(s, P)) <= Len(s)
           /\ TakenFrom(Through(s, P), s, P)
<1>. DEFINE m == Cardinality(P)
            q == Through(s, P)
<1>1. Len(s) \in Nat /\ \A i \in 1..Len(s) : s[i] \in R
  BY ListOf
<1>2. m \in Nat /\ \E at : Placed(at, s, P)
  BY <1>1, ThroughPlaces
<1>3. PICK at \in [1..m -> P] : q = [j \in 1..m |-> s[at[j]]]
  BY <1>2 DEF Placed
<1>4. m <= Len(s)
  <2>. DEFINE D == 1..Len(s)
  <2>1. IsFiniteSet(D) /\ Cardinality(D) = Len(s) /\ P \in SUBSET D
    <3>. DEFINE n == Len(s)
    <3>1. n \in Nat /\ P \subseteq 1..n
      BY <1>1
    <3>. HIDE DEF n
    <3>2. IsFiniteSet(1..n) /\ Cardinality(1..n) = n
      BY <3>1, FS_Interval
    <3>. QED  BY <3>1, <3>2 DEF n
  <2>. HIDE DEF D
  <2>2. Cardinality(P) <= Cardinality(D)
    BY <2>1, FS_Subset
  <2>. QED  BY <2>1, <2>2
<1>. HIDE DEF m, q
<1>5. \A i \in 1..m : at[i] \in P /\ q[i] = s[at[i]] /\ q[i] \in R
  BY <1>1, <1>3
<1>6. q \in [1..m -> R]
  BY <1>3, <1>5
<1>7. q \in Seq(R)
  BY <1>2, <1>6, SeqDef
<1>8. Len(q) = m
  <2>1. DOMAIN q = 1..m /\ DOMAIN q = 1..Len(q) /\ Len(q) \in Nat
    BY <1>6, <1>7, LenProperties
  <2>. QED  BY <1>2, <2>1
<1>9. TakenFrom(q, s, P)
  BY <1>5, <1>8 DEF TakenFrom
<1>. QED  BY <1>4, <1>7, <1>8, <1>9 DEF m, q
\* at lists P from the first to the last, m of them.
Enumerates(at, m, P) ==
    /\ m \in Nat /\ at \in [1..m -> P]
    /\ \A i, j \in 1..m : i < j => at[i] < at[j]
    /\ \A p \in P : \E i \in 1..m : at[i] = p

\* tb begins with ta.
Begins(ta, n, tb, m) == \A i \in 1..n : i <= m /\ ta[i] = tb[i]

\* Of two such lists the one begins with the other.
LEMMA BeginsWith ==
    ASSUME NEW P, P \subseteq Int, NEW n, NEW ta, NEW m, NEW tb,
           Enumerates(ta, n, P), Enumerates(tb, m, P)
    PROVE  Begins(ta, n, tb, m)
<1>0. /\ n \in Nat /\ ta \in [1..n -> Int] /\ \A i, j \in 1..n : i < j => ta[i] < ta[j]
      /\ m \in Nat /\ tb \in [1..m -> Int] /\ \A i, j \in 1..m : i < j => tb[i] < tb[j]
      /\ \A i \in 1..n : \E j \in 1..m : ta[i] = tb[j]
      /\ \A j \in 1..m : \E i \in 1..n : tb[j] = ta[i]
  BY DEF Enumerates
<1>. DEFINE D == {i \in 1..n : ~(i <= m /\ ta[i] = tb[i])}
<1>. SUFFICES ASSUME D # {} PROVE FALSE
  BY DEF Begins
<1>1. PICK i \in D : \A j \in D : i <= j
  <2>1. D \subseteq 1..n
    OBVIOUS
  <2>. HIDE DEF D
  <2>. QED  BY <1>0, <2>1, Least
<1>2. i \in 1..n /\ \A h \in 1..n : h < i => h <= m /\ ta[h] = tb[h]
  <2>1. D \subseteq 1..n
    OBVIOUS
  <2>2. \A h \in 1..n : h < i => h \notin D
    <3>. HIDE DEF D
    <3>. QED  BY <1>0, <1>1, <2>1
  <2>. QED  BY <2>1, <2>2
<1>3. PICK j \in 1..m : ta[i] = tb[j]
  BY <1>0, <1>2
<1>4. i <= j
  <2>. SUFFICES ASSUME ~(i <= j) PROVE FALSE
    OBVIOUS
  <2>1. j < i /\ j \in 1..n
    BY <1>0, <1>2
  <2>2. ta[j] = ta[i] /\ ta[j] < ta[i] /\ ta[i] \in Int
    BY <1>0, <1>2, <1>3, <2>1
  <2>. QED  BY <2>2
<1>5. i \in 1..m
  BY <1>0, <1>2, <1>4
<1>6. PICK h \in 1..n : tb[i] = ta[h]
  BY <1>0, <1>5
<1>7. i <= h
  <2>. SUFFICES ASSUME ~(i <= h) PROVE FALSE
    OBVIOUS
  <2>1. h < i /\ h \in 1..m
    BY <1>0, <1>2, <1>5
  <2>2. tb[h] = tb[i] /\ tb[h] < tb[i] /\ tb[i] \in Int
    BY <1>0, <1>2, <1>5, <1>6, <2>1
  <2>. QED  BY <2>2
<1>8. i = j
  <2>. SUFFICES ASSUME i # j PROVE FALSE
    OBVIOUS
  <2>1. i < j
    BY <1>0, <1>2, <1>4
  <2>2. tb[i] < tb[j]
    BY <1>0, <1>5, <2>1
  <2>3. ta[i] \in Int /\ ta[h] \in Int
    BY <1>0, <1>2
  <2>4. i = h \/ i < h
    BY <1>0, <1>2, <1>7
  <2>5. i = h \/ ta[i] < ta[h]
    BY <1>0, <1>2, <2>4
  <2>6. ta[i] = ta[h] \/ ta[i] < ta[h]
    <3>. HIDE DEF D
    <3>. QED  BY <2>5
  <2>. HIDE DEF D
  <2>. QED  BY ONLY <1>3, <1>6, <2>2, <2>3, <2>6
<1>. QED  BY <1>1, <1>3, <1>5, <1>8

\* q is what is in s at the places that at lists.
Picks(q, s, at, m) == q = [j \in 1..m |-> s[at[j]]]

\* A filter lists its places and gives what is at them.
LEMMA Filtered ==
    ASSUME NEW n \in Nat, NEW P, P \subseteq 1..n, NEW s
    PROVE  \E at, m : Enumerates(at, m, P) /\ Picks(Through(s, P), s, at, m)
<1>1. Cardinality(P) \in Nat /\ \E at : Placed(at, s, P)
  BY ThroughPlaces
<1>2. PICK at : Placed(at, s, P)
  BY <1>1
<1>. QED  BY <1>1, <1>2 DEF Placed, Enumerates, Picks

\* However the places are listed, a filter gives what is at them.
LEMMA FilteredBy ==
    ASSUME NEW n \in Nat, NEW P, P \subseteq 1..n, NEW s, NEW at, NEW m, Enumerates(at, m, P)
    PROVE  Picks(Through(s, P), s, at, m)
<1>1. P \subseteq Int
  OBVIOUS
<1>2. PICK bt, k : Enumerates(bt, k, P) /\ Picks(Through(s, P), s, bt, k)
  BY Filtered
<1>3. Begins(at, m, bt, k) /\ Begins(bt, k, at, m)
  BY <1>1, <1>2, BeginsWith
<1>4. m \in Nat /\ k \in Nat
  BY <1>2 DEF Enumerates
<1>5. m = k
  <2>1. (m = 0 \/ m \in 1..m) /\ (k = 0 \/ k \in 1..k)
    BY <1>4
  <2>. QED  BY <1>3, <1>4, <2>1 DEF Begins
<1>6. \A j \in 1..m : at[j] = bt[j]
  BY <1>3 DEF Begins
<1>. QED  BY <1>2, <1>5, <1>6 DEF Picks

\* A list of which all is left is left as it is.
LEMMA ThroughAll ==
    ASSUME NEW R, NEW s \in Seq(R)
    PROVE  Through(s, DOMAIN s) = s
<1>. DEFINE n == Len(s)
            at == [i \in 1..n |-> i]
<1>1. n \in Nat /\ DOMAIN s = 1..n /\ s \in [1..n -> R]
  BY LenProperties
<1>2. Enumerates(at, n, 1..n)
  BY <1>1 DEF Enumerates
<1>. HIDE DEF n, at
<1>3. Through(s, 1..n) = [j \in 1..n |-> s[at[j]]]
  <2>1. Picks(Through(s, 1..n), s, at, n)
    BY <1>1, <1>2, FilteredBy
  <2>. QED  BY <2>1 DEF Picks
<1>4. \A j \in 1..n : at[j] = j
  BY DEF at
<1>5. Through(s, 1..n) = s
  BY <1>1, <1>3, <1>4
<1>. QED  BY <1>1, <1>5

\* T has the places of D at which s has something in X.
Passing(T, s, D, X) == T \subseteq D /\ \A i \in D : i \in T <=> s[i] \in X

\* Two filters are the one that lets through what both do.
LEMMA ThroughTwice ==
    ASSUME NEW R, NEW s \in Seq(R), NEW P, P \subseteq DOMAIN s, NEW q, q = Through(s, P),
           NEW X, NEW U, Passing(U, s, P, X), NEW T, Passing(T, q, DOMAIN q, X)
    PROVE  Through(q, T) = Through(s, U)
<1>. DEFINE n == Len(s)
<1>1. n \in Nat /\ DOMAIN s = 1..n
  BY LenProperties
<1>. HIDE DEF n
<1>2. PICK at, m : Enumerates(at, m, P) /\ Picks(q, s, at, m)
  BY <1>1, Filtered
<1>3. /\ DOMAIN q = 1..m /\ T \subseteq 1..m /\ (\A j \in 1..m : q[j] = s[at[j]])
      /\ \A j \in 1..m : j \in T <=> s[at[j]] \in X
  BY <1>2 DEF Picks, Passing
<1>4. PICK bt, k : Enumerates(bt, k, T) /\ Picks(Through(q, T), q, bt, k)
  <2>1. m \in Nat /\ T \subseteq 1..m
    BY <1>2, <1>3 DEF Enumerates
  <2>. QED  BY ONLY <2>1, Filtered
<1>. DEFINE ct == [j \in 1..k |-> at[bt[j]]]
<1>5. /\ at \in [1..m -> P] /\ \A i, j \in 1..m : i < j => at[i] < at[j]
      /\ \A p \in P : \E i \in 1..m : at[i] = p
  BY <1>2 DEF Enumerates
<1>6. /\ k \in Nat /\ bt \in [1..k -> T] /\ \A i, j \in 1..k : i < j => bt[i] < bt[j]
      /\ \A p \in T : \E i \in 1..k : bt[i] = p
  BY <1>4 DEF Enumerates
<1>7. \A j \in 1..k : bt[j] \in 1..m /\ bt[j] \in T /\ at[bt[j]] \in U /\ ct[j] = at[bt[j]]
  <2>1. \A j \in 1..k : bt[j] \in T /\ bt[j] \in 1..m
    BY <1>3, <1>6
  <2>2. \A j \in T : at[j] \in U
    BY <1>3, <1>5 DEF Passing
  <2>. QED  BY <2>1, <2>2
<1>. HIDE DEF ct
<1>8. \A i, j \in 1..k : i < j => ct[i] < ct[j]
  BY <1>5, <1>6, <1>7
<1>9. ASSUME NEW p \in U
      PROVE  \E i \in 1..k : ct[i] = p
  <2>1. PICK j \in 1..m : at[j] = p
    BY <1>5 DEF Passing
  <2>2. j \in T
    BY <1>3, <2>1 DEF Passing
  <2>3. PICK i \in 1..k : bt[i] = j
    BY <1>6, <2>2
  <2>. QED  BY <1>7, <2>1, <2>3
<1>10. Enumerates(ct, k, U)
  <2>1. ct \in [1..k -> U]
    BY <1>7 DEF ct
  <2>. QED  BY <1>6, <1>8, <1>9, <2>1 DEF Enumerates
<1>11. Picks(Through(s, U), s, ct, k)
  <2>1. U \subseteq 1..n
    BY <1>1 DEF Passing
  <2>. QED  BY ONLY <1>1, <1>10, <2>1, FilteredBy
<1>12. \A j \in 1..k : q[bt[j]] = s[ct[j]]
  BY ONLY <1>3, <1>7
<1>. QED  BY ONLY <1>4, <1>11, <1>12 DEF Picks

\* An element that joins a list, and passes the filter, joins what passes.
LEMMA ThroughAppend ==
    ASSUME NEW R, NEW s \in Seq(R), NEW P, P \subseteq DOMAIN s, NEW e \in R,
           NEW W, W = P \cup {Len(s) + 1}
    PROVE  Through(Append(s, e), W) = Append(Through(s, P), e)
<1>. DEFINE n == Len(s)
            q == Through(s, P)
            t == Append(s, e)
            l == n + 1
<1>1. n \in Nat /\ DOMAIN s = 1..n
  BY LenProperties
<1>2. /\ t \in Seq(R) /\ (\A i \in 1..n : t[i] = s[i]) /\ t[l] = e
  BY AppendProperties
<1>. HIDE DEF n
<1>3. PICK at, m : Enumerates(at, m, P) /\ Picks(q, s, at, m)
  BY <1>1, Filtered
<1>4. m \in Nat /\ q \in Seq(R) /\ Len(q) = m
  <2>1. m \in Nat /\ DOMAIN q = 1..m
    BY <1>3 DEF Enumerates, Picks
  <2>2. q \in Seq(R)
    BY <1>1, ThroughList DEF n
  <2>. HIDE DEF q
  <2>3. Len(q) \in Nat /\ DOMAIN q = 1..Len(q)
    BY <2>2, LenProperties
  <2>. QED  BY <2>1, <2>2, <2>3
<1>5. Append(q, e) = [j \in 1..(m + 1) |-> IF j = m + 1 THEN e ELSE q[j]]
  <2>. HIDE DEF q
  <2>. DEFINE a == Append(q, e)
  <2>1. /\ a \in Seq(R) /\ Len(a) = m + 1 /\ (\A i \in 1..m : a[i] = q[i]) /\ a[m + 1] = e
    BY <1>4, AppendProperties
  <2>2. a \in [1..(m + 1) -> R]
    <3>. HIDE DEF a
    <3>. QED  BY <2>1, LenProperties
  <2>. HIDE DEF a
  <2>3. \A j \in 1..(m + 1) : a[j] = IF j = m + 1 THEN e ELSE q[j]
    BY <1>4, <2>1
  <2>. QED  BY <2>2, <2>3 DEF a
<1>. DEFINE ct == [j \in 1..(m + 1) |-> IF j = m + 1 THEN l ELSE at[j]]
<1>. HIDE DEF q, t
<1>6. /\ at \in [1..m -> P] /\ (\A i, j \in 1..m : i < j => at[i] < at[j])
      /\ \A p \in P : \E i \in 1..m : at[i] = p
  BY <1>3 DEF Enumerates
<1>7. P \subseteq 1..n /\ W \subseteq 1..l /\ l \in Nat /\ W = P \cup {l}
  BY <1>1 DEF n
<1>8. /\ \A j \in 1..m : j \in 1..(m + 1) /\ j # m + 1 /\ j < m + 1
      /\ m + 1 \in 1..(m + 1) /\ \A j \in 1..(m + 1) : j \in 1..m \/ j = m + 1
  BY <1>4
<1>9. ct[m + 1] = l /\ \A j \in 1..m : ct[j] = at[j] /\ at[j] \in P /\ at[j] \in 1..n /\ at[j] < l
  <2>1. \A j \in 1..m : at[j] \in P /\ at[j] \in 1..n
    BY <1>6, <1>7
  <2>. QED  BY <1>1, <1>8, <2>1
<1>10. ct \in [1..(m + 1) -> W]
  <2>. HIDE DEF l
  <2>. QED  BY <1>6, <1>7, <1>8
<1>. HIDE DEF ct
<1>11. \A i, j \in 1..(m + 1) : i < j => ct[i] < ct[j]
  <2>. SUFFICES ASSUME NEW i \in 1..(m + 1), NEW j \in 1..(m + 1), i < j
                PROVE  ct[i] < ct[j]
    OBVIOUS
  <2>1. i \in 1..m
    BY <1>4
  <2>2. CASE j \in 1..m
    BY <1>6, <1>9, <2>1, <2>2
  <2>3. CASE j = m + 1
    BY <1>9, <2>1, <2>3
  <2>. QED  BY <1>8, <2>2, <2>3
<1>12. \A p \in W : \E i \in 1..(m + 1) : ct[i] = p
  <2>. HIDE DEF l
  <2>. QED  BY <1>6, <1>7, <1>8, <1>9
<1>13. Enumerates(ct, m + 1, W)
  BY <1>4, <1>10, <1>11, <1>12 DEF Enumerates
<1>14. Through(t, W) = [j \in 1..(m + 1) |-> t[ct[j]]]
  <2>. DEFINE k == m + 1
  <2>. HIDE DEF l, k
  <2>1. Enumerates(ct, k, W)
    BY <1>13 DEF k
  <2>2. Picks(Through(t, W), t, ct, k)
    BY ONLY <1>7, <2>1, FilteredBy
  <2>. QED  BY <2>2 DEF k, Picks
<1>15. \A j \in 1..(m + 1) : t[ct[j]] = IF j = m + 1 THEN e ELSE q[j]
  <2>1. t[ct[m + 1]] = e
    BY <1>2, <1>9
  <2>2. \A j \in 1..m : t[ct[j]] = q[j]
    BY <1>2, <1>3, <1>9 DEF Picks
  <2>. QED  BY <1>8, <2>1, <2>2
<1>16. Through(t, W) = Append(q, e)
  BY <1>5, <1>14, <1>15
<1>. QED  BY <1>16 DEF q, t, n

-----------------------------------------------------------------------------
(* Units of the entries, and pruning *)

\* What entries and grants have in common.
Timed(R) == \A e \in R : e.timestamp \in Nat /\ e.count \in Nat /\ e.count >= 1

\* The units at some places of a list.
LEMMA CountSum ==
    ASSUME NEW R, Timed(R), NEW s \in Seq(R), NEW P, P \subseteq DOMAIN s
    PROVE  /\ IsFiniteSet(P) /\ CountAt(s, P) \in Nat
           /\ CountAt(s, P) = SumOver([i \in DOMAIN s |-> s[i].count], P)
<1>. DEFINE f == [i \in DOMAIN s |-> s[i].count]
<1>1. IsFiniteSet(P) /\ \A i \in P : f[i] \in Nat
  <2>1. IsFiniteSet(DOMAIN s) /\ \A i \in DOMAIN s : s[i] \in R
    BY ListOf
  <2>2. IsFiniteSet(P)
    BY <2>1, FS_Subset
  <2>. QED  BY <2>1, <2>2 DEF Timed
<1>2. CountAt(s, P) = SumOver(f, P)
  BY TotalIsSum DEF CountAt
<1>. HIDE DEF f
<1>3. SumOver(f, P) \in Nat
  BY <1>1, SumType
<1>. QED  BY <1>1, <1>2, <1>3 DEF f

\* No place, no units; and one place more.
LEMMA CountAdd ==
    ASSUME NEW R, Timed(R), NEW s \in Seq(R), NEW P, P \subseteq DOMAIN s,
           NEW l \in DOMAIN s, l \notin P
    PROVE  CountAt(s, P \cup {l}) = CountAt(s, P) + s[l].count
<1>. DEFINE f == [i \in DOMAIN s |-> s[i].count]
            Q == P \cup {l}
<1>1. /\ IsFiniteSet(P) /\ CountAt(s, P) = SumOver(f, P)
      /\ CountAt(s, Q) = SumOver(f, Q)
  <2>1. Q \subseteq DOMAIN s
    OBVIOUS
  <2>. HIDE DEF Q
  <2>. QED  BY <2>1, CountSum
<1>2. \A i \in P \cup {l} : f[i] \in Nat
  BY ListOf DEF Timed
<1>3. f[l] = s[l].count
  OBVIOUS
<1>. HIDE DEF f
<1>4. SumOver(f, P \cup {l}) = SumOver(f, P) + f[l]
  BY <1>1, <1>2, SumAdd
<1>. QED  BY <1>1, <1>3, <1>4

\* Without places there are no units.
LEMMA CountNone ==
    ASSUME NEW s
    PROVE  CountAt(s, {}) = 0
<1>1. CountAt(s, {}) = SumOver([i \in DOMAIN s |-> s[i].count], {})
  BY TotalIsSum DEF CountAt
<1>. QED  BY <1>1, SumUnfold, FS_EmptySet

\* More places have no fewer units.
LEMMA CountLess ==
    ASSUME NEW R, Timed(R), NEW s \in Seq(R), NEW Q, Q \subseteq DOMAIN s,
           NEW P, P \subseteq Q
    PROVE  CountAt(s, P) <= CountAt(s, Q)
<1>. DEFINE f == [i \in DOMAIN s |-> s[i].count]
            W == Q \ P
<1>1. /\ IsFiniteSet(P) /\ CountAt(s, P) = SumOver(f, P) /\ CountAt(s, P) \in Nat
      /\ IsFiniteSet(W) /\ CountAt(s, W) = SumOver(f, W) /\ CountAt(s, W) \in Nat
      /\ CountAt(s, Q) = SumOver(f, Q)
  <2>1. P \subseteq DOMAIN s /\ W \subseteq DOMAIN s
    OBVIOUS
  <2>. HIDE DEF W
  <2>. QED  BY <2>1, CountSum
<1>2. \A i \in P \cup W : f[i] \in Nat
  BY ListOf DEF Timed
<1>3. P \cap W = {} /\ P \cup W = Q
  OBVIOUS
<1>. HIDE DEF f, W
<1>4. SumOver(f, P \cup W) = SumOver(f, P) + SumOver(f, W)
  BY <1>1, <1>2, <1>3, SumUnion
<1>5. CountAt(s, Q) = CountAt(s, P) + CountAt(s, W)
  BY <1>1, <1>3, <1>4
<1>. QED  BY ONLY <1>1, <1>5

\* Two lists with the same units at the same places.
LEMMA CountSame ==
    ASSUME NEW R, Timed(R), NEW s \in Seq(R), NEW A, Timed(A), NEW q \in Seq(A),
           NEW P, P \subseteq DOMAIN s, P \subseteq DOMAIN q,
           \A i \in P : s[i].count = q[i].count
    PROVE  CountAt(s, P) = CountAt(q, P)
<1>. DEFINE f == [i \in DOMAIN s |-> s[i].count]
            g == [i \in DOMAIN q |-> q[i].count]
<1>1. /\ IsFiniteSet(P) /\ CountAt(s, P) = SumOver(f, P)
      /\ CountAt(q, P) = SumOver(g, P)
  BY CountSum
<1>2. \A i \in P : f[i] = g[i] /\ f[i] \in Nat
  BY ListOf DEF Timed
<1>. HIDE DEF f, g
<1>3. SumOver(f, P) = SumOver(g, P)
  BY <1>1, <1>2, SumSame
<1>. QED  BY <1>1, <1>3

\* What was picked has no more units than what it was picked from.
LEMMA CountPicked ==
    ASSUME NEW R, Timed(R), NEW s \in Seq(R), NEW P, P \subseteq DOMAIN s,
           NEW at, NEW m, Enumerates(at, m, P), NEW q \in Seq(R), Picks(q, s, at, m),
           NEW T, T \subseteq DOMAIN q, NEW U, U \subseteq DOMAIN s,
           \A j \in T : at[j] \in U
    PROVE  CountAt(q, T) <= CountAt(s, U)
<1>. DEFINE f == [i \in DOMAIN s |-> s[i].count]
            g == [i \in DOMAIN q |-> q[i].count]
            to == [i \in T |-> at[i]]
            V == {to[i] : i \in T}
<1>1. /\ m \in Nat /\ at \in [1..m -> P] /\ (\A i, j \in 1..m : i < j => at[i] < at[j])
      /\ DOMAIN q = 1..m /\ \A j \in 1..m : q[j] = s[at[j]]
  BY DEF Enumerates, Picks
<1>2. to \in [T -> U] /\ V \subseteq U
  OBVIOUS
<1>3. \A i, j \in T : to[i] = to[j] => i = j
  <2>. SUFFICES ASSUME NEW i \in T, NEW j \in T, to[i] = to[j], i # j PROVE FALSE
    OBVIOUS
  <2>1. i \in 1..m /\ j \in 1..m /\ (i < j \/ j < i)
    BY <1>1
  <2>2. at[i] < at[j] \/ at[j] < at[i]
    BY <1>1, <2>1
  <2>3. at[i] \in Int /\ at[i] = at[j]
    <3>1. DOMAIN s \subseteq Int
      BY ListOf
    <3>. QED  BY <1>1, <2>1, <3>1
  <2>. QED  BY <2>2, <2>3
<1>4. \A i \in T : g[i] = f[to[i]]
  BY <1>1
<1>5. \A i \in U : f[i] \in Nat
  BY ListOf DEF Timed
<1>6. /\ IsFiniteSet(T) /\ IsFiniteSet(U) /\ CountAt(q, T) = SumOver(g, T)
      /\ V \subseteq DOMAIN s /\ CountAt(s, V) = SumOver(f, V)
  <2>1. V \subseteq DOMAIN s
    BY <1>2
  <2>. HIDE DEF V
  <2>. QED  BY <2>1, CountSum
<1>. HIDE DEF f, g, to
<1>7. SumOver(g, T) = SumOver(f, V)
  <2>1. /\ IsFiniteSet(T) /\ IsFiniteSet(U) /\ to \in [T -> U]
    BY <1>2, <1>6
  <2>2. SumOver(g, T) = SumOver(f, {to[i] : i \in T})
    BY ONLY <2>1, <1>3, <1>4, <1>5, SumMoved
  <2>. QED  BY <2>2
<1>. HIDE DEF V
<1>8. CountAt(s, V) <= CountAt(s, U)
  BY <1>2, CountLess
<1>. QED  BY <1>6, <1>7, <1>8

\* Pruning gives a list of entries of the day.
LEMMA PruneList ==
    ASSUME NEW R, NEW s \in Seq(R), NEW u
    PROVE  /\ PruneAt(s, u) \in Seq(R)
           /\ DOMAIN PruneAt(s, u) = Within(PruneAt(s, u), u, RpdWindow)
<1>. DEFINE P == Within(s, u, RpdWindow)
            q == PruneAt(s, u)
<1>1. P \subseteq 1..Len(s) /\ \A p \in P : s[p].timestamp > u - RpdWindow
  BY ListOf DEF Within
<1>2. q = Through(s, P)
  BY DEF PruneAt
<1>. HIDE DEF P, q
<1>3. q \in Seq(R) /\ TakenFrom(q, s, P)
  BY <1>1, <1>2, ThroughList
<1>4. DOMAIN q = 1..Len(q)
  BY <1>3, ListOf
<1>5. DOMAIN q = Within(q, u, RpdWindow)
  BY <1>1, <1>3, <1>4 DEF Within, TakenFrom
<1>. QED  BY <1>3, <1>5 DEF q

\* What is of the day is all left.
LEMMA PruneAll ==
    ASSUME NEW R, NEW s \in Seq(R), NEW u, DOMAIN s = Within(s, u, RpdWindow)
    PROVE  PruneAt(s, u) = s
BY ThroughAll DEF PruneAt

\* What was pruned before is pruned the same.
LEMMA PruneTwice ==
    ASSUME NEW R, Timed(R), NEW s \in Seq(R), NEW u \in Int, NEW w \in Int, u <= w
    PROVE  PruneAt(PruneAt(s, u), w) = PruneAt(s, w)
<1>. DEFINE P == Within(s, u, RpdWindow)
            U == Within(s, w, RpdWindow)
            X == {e \in R : e.timestamp > w - RpdWindow}
            q == Through(s, P)
            T == Within(q, w, RpdWindow)
<1>1. \A i \in DOMAIN s : s[i] \in R /\ s[i].timestamp \in Nat
  BY ListOf DEF Timed
<1>2. P \subseteq DOMAIN s /\ Passing(U, s, P, X)
  <2>1. RpdWindow \in Nat
    BY QuotaAssumption
  <2>. QED  BY <1>1, <2>1 DEF Within, Passing
<1>3. Passing(T, q, DOMAIN q, X)
  <2>. HIDE DEF q
  <2>1. q \in Seq(R)
    BY PruneList DEF q, PruneAt
  <2>2. \A j \in DOMAIN q : q[j] \in R
    BY <2>1, ListOf
  <2>. QED  BY <2>2 DEF Within, Passing
<1>4. Through(q, T) = Through(s, U)
  <2>1. q = Through(s, P)
    OBVIOUS
  <2>. HIDE DEF P, U, X, T, q
  <2>. QED  BY <1>2, <1>3, <2>1, ThroughTwice
<1>. QED  BY <1>4 DEF PruneAt

\* A new entry is left with what is left.
LEMMA PruneAppend ==
    ASSUME NEW R, NEW s \in Seq(R), NEW u, NEW e \in R, e.timestamp > u - RpdWindow
    PROVE  PruneAt(Append(s, e), u) = Append(PruneAt(s, u), e)
<1>. DEFINE P == Within(s, u, RpdWindow)
            t == Append(s, e)
            W == Within(t, u, RpdWindow)
            n == Len(s)
<1>1. n \in Nat /\ DOMAIN s = 1..n
  BY ListOf
<1>2. DOMAIN t = 1..(n + 1) /\ (\A i \in 1..n : t[i] = s[i]) /\ t[n + 1] = e
  <2>. HIDE DEF t, n
  <2>1. t \in Seq(R) /\ Len(t) = n + 1 /\ (\A i \in 1..n : t[i] = s[i]) /\ t[n + 1] = e
    BY AppendProperties DEF t, n
  <2>. QED  BY <2>1, ListOf
<1>3. W = P \cup {n + 1} /\ P \subseteq DOMAIN s
  <2>. HIDE DEF t, n
  <2>1. \A i \in 1..(n + 1) : i \in 1..n \/ i = n + 1
    BY <1>1
  <2>2. 1..n \subseteq 1..(n + 1) /\ n + 1 \in 1..(n + 1)
    BY <1>1
  <2>. QED  BY <1>1, <1>2, <2>1, <2>2 DEF Within
<1>4. Through(Append(s, e), W) = Append(Through(s, P), e)
  <2>1. P \subseteq DOMAIN s /\ W = P \cup {Len(s) + 1}
    BY <1>3
  <2>. HIDE DEF P, W, t, n
  <2>. QED  BY <2>1, ThroughAppend
<1>. QED  BY <1>4 DEF PruneAt

\* What the types say of the constants, the entries and the grants.
LEMMA Types ==
    /\ Timed(Entry) /\ Timed(Grant)
    /\ RpmWindow \in Nat /\ RpdWindow \in Nat /\ RpdWindow >= RpmWindow /\ RpmWindow >= 1
<1>1. \A c \in Counts : c \in Nat /\ c >= 1
  BY QuotaAssumption
<1>2. Timed(Entry)
  BY <1>1 DEF Timed, Entry
<1>3. Timed(Grant)
  BY <1>1 DEF Timed, Grant
<1>. QED  BY <1>2, <1>3, QuotaAssumption

\* The entries of grants.
LEMMA IssuedList ==
    ASSUME NEW s \in Seq(Grant)
    PROVE  /\ Issued(s) \in Seq(Entry) /\ DOMAIN Issued(s) = DOMAIN s
           /\ Len(Issued(s)) = Len(s)
           /\ \A i \in DOMAIN s : /\ Issued(s)[i].timestamp = s[i].timestamp
                                  /\ Issued(s)[i].count = s[i].count
                                  /\ Issued(s)[i].project = s[i].project
<1>. DEFINE q == Issued(s)
            n == Len(s)
<1>1. n \in Nat /\ DOMAIN s = 1..n /\ \A i \in 1..n : s[i] \in Grant
  BY ListOf
<1>2. /\ DOMAIN q = DOMAIN s
      /\ \A i \in DOMAIN s : q[i] = [timestamp |-> s[i].timestamp, count |-> s[i].count,
                                     project |-> s[i].project]
  BY DEF Issued
<1>3. \A i \in 1..n : q[i] \in Entry
  BY <1>1, <1>2 DEF Entry, Grant
<1>4. q \in [1..n -> Entry]
  <2>1. q = [i \in 1..n |-> q[i]]
    BY <1>1 DEF Issued
  <2>. HIDE DEF q, n
  <2>. QED  BY <1>3, <2>1
<1>. HIDE DEF q, n
<1>5. q \in Seq(Entry)
  BY <1>1, <1>4, SeqDef
<1>6. Len(q) = n
  <2>1. Len(q) \in Nat /\ DOMAIN q = 1..Len(q)
    BY <1>5, LenProperties
  <2>. QED  BY <1>1, <1>2, <2>1
<1>. QED  BY <1>2, <1>5, <1>6 DEF q, n

\* Pruning the grants prunes their entries.
LEMMA IssuedPruned ==
    ASSUME NEW s \in Seq(Grant), NEW u
    PROVE  Issued(PruneAt(s, u)) = PruneAt(Issued(s), u)
<1>. DEFINE P == Within(s, u, RpdWindow)
            r == Issued(s)
            q == Through(s, P)
            v == Through(r, P)
            n == Len(s)
<1>1. /\ n \in Nat /\ DOMAIN s = 1..n /\ DOMAIN r = DOMAIN s
      /\ \A i \in DOMAIN s : /\ r[i].timestamp = s[i].timestamp
                             /\ r[i] = [timestamp |-> s[i].timestamp, count |-> s[i].count,
                                        project |-> s[i].project]
  BY ListOf, IssuedList DEF Issued
<1>2. P = Within(r, u, RpdWindow) /\ P \subseteq 1..n
  BY <1>1 DEF Within
<1>. HIDE DEF P, r, n
<1>3. PICK at, m : Enumerates(at, m, P) /\ Picks(q, s, at, m)
  BY <1>1, <1>2, Filtered
<1>4. Picks(v, r, at, m)
  BY <1>1, <1>2, <1>3, FilteredBy
<1>. HIDE DEF q, v
<1>5. /\ DOMAIN q = 1..m /\ v = [j \in 1..m |-> r[at[j]]]
      /\ \A j \in 1..m : at[j] \in DOMAIN s /\ q[j] = s[at[j]]
  BY <1>1, <1>2, <1>3, <1>4 DEF Enumerates, Picks
<1>6. Issued(q) = v
  <2>1. Issued(q) = [j \in 1..m |-> [timestamp |-> q[j].timestamp, count |-> q[j].count,
                                     project |-> q[j].project]]
    BY <1>5 DEF Issued
  <2>2. \A j \in 1..m : r[at[j]] = [timestamp |-> q[j].timestamp, count |-> q[j].count,
                                     project |-> q[j].project]
    BY <1>1, <1>5
  <2>. QED  BY <1>5, <2>1, <2>2
<1>. QED  BY <1>2, <1>6 DEF PruneAt, P, q, v, r

-----------------------------------------------------------------------------
(* Records *)

\* The fields of a record, and of one whose entries are replaced.
LEMMA DataFields ==
    ASSUME NEW u, NEW d \in DataBy(u)
    PROVE  /\ d.tier \in Tiers /\ d.entries \in Seq(EntryBy(u)) /\ d.debt \in 0..MaxDebt
           /\ d.contributed \in 0..MaxContributed /\ d.trusted \in BOOLEAN
           /\ d.days \in 0..MaxDays /\ d.ceiling \in {100, 150, 450, 500}
           /\ MaxDebt \in Nat /\ MaxContributed \in Nat /\ MaxDays \in Nat /\ TrustDays \in Nat
BY QuotaAssumption DEF DataBy

\* A record with other entries.
LEMMA OtherEntries ==
    ASSUME NEW u, NEW w, NEW d \in DataBy(u), NEW s \in Seq(EntryBy(w)),
           NEW m, m = [d EXCEPT !.entries = s]
    PROVE  m \in DataBy(w) /\ m.entries = s /\ Alike(m, d)
BY DEF DataBy, Alike, SameDebt

\* The record as it was made differs in tier and entries only.
Unused(d) ==
    /\ d.debt = 0 /\ d.contributed = 0 /\ d.trusted = FALSE
    /\ d.days = 0 /\ d.ceiling = 150

\* What coherence says of the fields.
LEMMA CoherentFields ==
    ASSUME NEW u, NEW d \in DataBy(u)
    PROVE  CoherentDebt(d) <=>
             /\ \/ d.ceiling = calculateMultiplierCeiling(d.debt, d.contributed, d.trusted)
                \/ Unused(d)
             /\ d.trusted => d.days > TrustDays
             /\ determineJailStatus(d.debt, d.ceiling) = "HARD_JAIL" <=>
                    d.debt > 0 /\ 100 * d.debt >= 101 * d.contributed
<1>1. d = [initialData EXCEPT !.tier = d.tier, !.entries = d.entries] <=> Unused(d)
  <2>. DEFINE e == [initialData EXCEPT !.tier = d.tier, !.entries = d.entries]
  <2>. DEFINE i == initialData
              a == [i EXCEPT !.tier = d.tier]
  <2>1. /\ i \in DataBy(u) /\ i.debt = 0 /\ i.contributed = 0 /\ i.trusted = FALSE
        /\ i.days = 0 /\ i.ceiling = 150
    <3>1. <<>> \in Seq(EntryBy(u))
      OBVIOUS
    <3>. QED  BY <3>1, QuotaAssumption DEF initialData, DataBy
  <2>. HIDE DEF i
  <2>2. a \in DataBy(u) /\ a.tier = d.tier
    BY <2>1, SMTT(30) DEF DataBy
  <2>3. /\ e \in DataBy(u) /\ e.tier = d.tier /\ e.entries = d.entries
        /\ e.debt = 0 /\ e.contributed = 0 /\ e.trusted = FALSE
        /\ e.days = 0 /\ e.ceiling = 150
    <3>1. e = [a EXCEPT !.entries = d.entries]
      BY DEF i
    <3>2. /\ a.debt = 0 /\ a.contributed = 0 /\ a.trusted = FALSE
          /\ a.days = 0 /\ a.ceiling = 150
      BY <2>1 DEF DataBy
    <3>. HIDE DEF e, a
    <3>. QED  BY <2>2, <3>1, <3>2 DEF DataBy
  <2>. HIDE DEF e, a
  <2>4. d = e => Unused(d)
    BY <2>3 DEF Unused
  <2>5. Unused(d) => d = e
    BY <2>3 DEF Unused, DataBy
  <2>. QED  BY <2>4, <2>5 DEF e
<1>. QED  BY <1>1 DEF CoherentDebt

\* Coherence is a matter of the other fields.
LEMMA CoherentAlike ==
    ASSUME NEW u, NEW w, NEW d \in DataBy(u), NEW m \in DataBy(w),
           SameDebt(m, d), CoherentDebt(d)
    PROVE  CoherentDebt(m)
<1>1. /\ m.debt = d.debt /\ m.contributed = d.contributed /\ m.trusted = d.trusted
      /\ m.days = d.days /\ m.ceiling = d.ceiling
  BY DEF SameDebt
<1>2. Unused(m) <=> Unused(d)
  BY <1>1 DEF Unused
<1>3. calculateMultiplierCeiling(m.debt, m.contributed, m.trusted) =
          calculateMultiplierCeiling(d.debt, d.contributed, d.trusted)
  BY <1>1
<1>4. determineJailStatus(m.debt, m.ceiling) = determineJailStatus(d.debt, d.ceiling)
  BY <1>1
<1>5. /\ \/ d.ceiling = calculateMultiplierCeiling(d.debt, d.contributed, d.trusted)
         \/ Unused(d)
      /\ d.trusted => d.days > TrustDays
      /\ determineJailStatus(d.debt, d.ceiling) = "HARD_JAIL" <=>
             d.debt > 0 /\ 100 * d.debt >= 101 * d.contributed
  BY CoherentFields
<1>6. /\ \/ m.ceiling = calculateMultiplierCeiling(m.debt, m.contributed, m.trusted)
         \/ Unused(m)
      /\ m.trusted => m.days > TrustDays
      /\ determineJailStatus(m.debt, m.ceiling) = "HARD_JAIL" <=>
             m.debt > 0 /\ 100 * m.debt >= 101 * m.contributed
  BY ONLY <1>1, <1>2, <1>3, <1>4, <1>5
<1>. QED  BY <1>6, CoherentFields

\* A quotient is above 100 when the dividend is 101 times the divisor.
LEMMA AboveHundred ==
    ASSUME NEW a \in Nat, NEW b \in Nat, b > 0
    PROVE  (a \div b) > 100 <=> a >= 101 * b
OBVIOUS

\* The ceiling that is computed is the right one.
LEMMA CeilingRight ==
    ASSUME NEW debt \in Nat, NEW contributed \in Nat, NEW trusted \in BOOLEAN,
           NEW c, c = calculateMultiplierCeiling(debt, contributed, trusted)
    PROVE  /\ c \in {100, 150, 450, 500}
           /\ determineJailStatus(debt, c) = "HARD_JAIL" <=>
                  debt > 0 /\ 100 * debt >= 101 * contributed
<1>. DEFINE r == DebtRatio(debt, contributed)
<1>1. r \in Nat /\ (debt > 0 /\ r > 100 <=> debt > 0 /\ 100 * debt >= 101 * contributed)
  <2>1. CASE contributed > 0
    <3>1. r = (debt * 100) \div contributed
      BY <2>1 DEF DebtRatio
    <3>2. debt * 100 \in Nat /\ debt * 100 = 100 * debt
      OBVIOUS
    <3>. DEFINE a == debt * 100
    <3>3. a \in Nat /\ r = a \div contributed /\ a = 100 * debt
      BY <3>1, <3>2
    <3>. HIDE DEF a, r
    <3>4. r \in Nat
      BY <2>1, <3>3
    <3>5. r > 100 <=> a >= 101 * contributed
      BY <2>1, <3>3, AboveHundred
    <3>. QED  BY <3>3, <3>4, <3>5
  <2>2. CASE ~(contributed > 0)
    BY <2>2 DEF DebtRatio
  <2>. QED  BY <2>1, <2>2
<1>2. c \in {100, 150, 450, 500} /\ (c = 100 <=> r > 100)
  <2>1. c = CASE r > 100 -> 100
              [] r > 50 /\ r <= 100 -> 150
              [] OTHER -> IF trusted THEN 500 ELSE 450
    BY DEF calculateMultiplierCeiling
  <2>. HIDE DEF r
  <2>. QED  BY <1>1, <2>1
<1>3. determineJailStatus(debt, c) = "HARD_JAIL" <=> debt > 0 /\ c = 100
  BY DEF determineJailStatus
<1>. QED  BY <1>1, <1>2, <1>3

\* A record whose ceiling was just computed is coherent.
LEMMA CeilingCoherent ==
    ASSUME NEW u, NEW d \in DataBy(u), d.trusted => d.days > TrustDays
    PROVE  /\ WithCeiling(d) \in DataBy(u) /\ WithCeiling(d).entries = d.entries
           /\ CoherentDebt(WithCeiling(d))
<1>. DEFINE c == calculateMultiplierCeiling(d.debt, d.contributed, d.trusted)
            m == WithCeiling(d)
<1>1. d.debt \in Nat /\ d.contributed \in Nat /\ d.trusted \in BOOLEAN
  BY DataFields
<1>2. /\ c \in {100, 150, 450, 500}
      /\ determineJailStatus(d.debt, c) = "HARD_JAIL" <=>
             d.debt > 0 /\ 100 * d.debt >= 101 * d.contributed
  <2>. HIDE DEF c
  <2>1. c = calculateMultiplierCeiling(d.debt, d.contributed, d.trusted)
    BY DEF c
  <2>. QED  BY <1>1, <2>1, CeilingRight
<1>3. m = [d EXCEPT !.ceiling = c]
  BY DEF WithCeiling
<1>. HIDE DEF c, m
<1>4. /\ m \in DataBy(u) /\ m.entries = d.entries /\ m.debt = d.debt
      /\ m.contributed = d.contributed /\ m.trusted = d.trusted /\ m.days = d.days
      /\ m.ceiling = c
  BY <1>2, <1>3 DEF DataBy
<1>5. CoherentDebt(m)
  BY <1>2, <1>4, CoherentFields DEF c
<1>. QED  BY <1>4, <1>5 DEF m

-----------------------------------------------------------------------------
(* Limits *)

\* A list of a type is one of a wider type.
LEMMA Wider ==
    ASSUME NEW A, NEW B, A \subseteq B, NEW s \in Seq(A)
    PROVE  s \in Seq(B)
<1>1. Len(s) \in Nat /\ s \in [1..Len(s) -> A]
  BY LenProperties
<1>2. s \in [1..Len(s) -> B]
  BY <1>1
<1>. QED  BY <1>1, <1>2, SeqDef

\* A list of a moment is one of a later moment and of any.
LEMMA Later ==
    ASSUME NEW u \in Nat, NEW w \in Nat, u <= w
    PROVE  /\ \A s \in Seq(EntryBy(u)) : s \in Seq(Entry) /\ s \in Seq(EntryBy(w))
           /\ \A s \in Seq(GrantBy(u)) : s \in Seq(Grant) /\ s \in Seq(GrantBy(w))
<1>1. EntryBy(u) \subseteq Entry /\ EntryBy(u) \subseteq EntryBy(w)
  BY DEF EntryBy, Entry
<1>2. GrantBy(u) \subseteq Grant /\ GrantBy(u) \subseteq GrantBy(w)
  BY DEF GrantBy, Grant
<1>. QED  BY <1>1, <1>2, Wider

\* What may be granted for a tier and a project.
LEMMA LimitTypes ==
    ASSUME NEW g \in Grant
    PROVE  /\ RpmLimit[g.tier] \in Nat \cup {Unlimited}
           /\ RpdLimit[g.tier] \in Nat \cup {Unlimited}
           /\ calculateProjectQuota(g.tier, g.cap) \in Nat \cup {Unlimited}
           /\ g.count \in Nat /\ g.timestamp \in Nat
<1>1. g.tier \in Tiers /\ g.cap \in SubCaps \cup {NoSubCap} /\ g.count \in Nat /\ g.timestamp \in Nat
  BY QuotaAssumption DEF Grant
<1>2. RpmLimit[g.tier] \in Nat \cup {Unlimited} /\ RpdLimit[g.tier] \in Nat \cup {Unlimited}
  BY <1>1, QuotaAssumption
<1>3. g.cap = NoSubCap \/ g.cap \in Nat
  BY <1>1, QuotaAssumption
<1>. QED  BY <1>1, <1>2, <1>3 DEF calculateProjectQuota

\* Fewer units pass no limit that more do not pass.
LEMMA FewerKept ==
    ASSUME NEW n \in Nat, NEW m \in Nat, m <= n, NEW l \in Nat \cup {Unlimited},
           ~Exceeds(n, l)
    PROVE  ~Exceeds(m, l)
BY DEF Exceeds

\* The grants of the project of the j-th in its minute.
OfProject(grants, j) ==
    {i \in UpTo(grants, j, RpmWindow) : grants[i].project = grants[j].project}

\* LimitsKept in terms of it.
LEMMA LimitsFields ==
    ASSUME NEW s, NEW j
    PROVE  LimitsKept(s, j) <=>
             /\ ~Exceeds(CountAt(s, UpTo(s, j, RpmWindow)), RpmLimit[s[j].tier])
             /\ ~Exceeds(CountAt(s, UpTo(s, j, RpdWindow)), RpdLimit[s[j].tier])
             /\ s[j].project # NoProject =>
                  ~Exceeds(CountAt(s, OfProject(s, j)),
                           calculateProjectQuota(s[j].tier, s[j].cap))
BY DEF LimitsKept, OfProject

\* A grant whose windows have no more units than another's, for the same tier and
\* project, keeps the limits that the other keeps.
LEMMA LimitsFewer ==
    ASSUME NEW s \in Seq(Grant), NEW j \in DOMAIN s, LimitsKept(s, j),
           NEW q \in Seq(Grant), NEW h \in DOMAIN q, q[h] = s[j],
           CountAt(q, UpTo(q, h, RpmWindow)) <= CountAt(s, UpTo(s, j, RpmWindow)),
           CountAt(q, UpTo(q, h, RpdWindow)) <= CountAt(s, UpTo(s, j, RpdWindow)),
           CountAt(q, OfProject(q, h)) <= CountAt(s, OfProject(s, j))
    PROVE  LimitsKept(q, h)
<1>1. /\ DOMAIN s = 1..Len(s) /\ Len(s) \in Nat /\ s[j] \in Grant
      /\ DOMAIN q = 1..Len(q) /\ Len(q) \in Nat
  BY ListOf
<1>2. \A w : UpTo(s, j, w) \subseteq DOMAIN s /\ UpTo(q, h, w) \subseteq DOMAIN q
  BY <1>1 DEF UpTo
<1>3. OfProject(s, j) \subseteq DOMAIN s /\ OfProject(q, h) \subseteq DOMAIN q
  BY <1>2 DEF OfProject
<1>4. /\ CountAt(s, UpTo(s, j, RpmWindow)) \in Nat /\ CountAt(q, UpTo(q, h, RpmWindow)) \in Nat
      /\ CountAt(s, UpTo(s, j, RpdWindow)) \in Nat /\ CountAt(q, UpTo(q, h, RpdWindow)) \in Nat
      /\ CountAt(s, OfProject(s, j)) \in Nat /\ CountAt(q, OfProject(q, h)) \in Nat
  BY <1>2, <1>3, Types, CountSum
<1>5. /\ RpmLimit[s[j].tier] \in Nat \cup {Unlimited}
      /\ RpdLimit[s[j].tier] \in Nat \cup {Unlimited}
      /\ calculateProjectQuota(s[j].tier, s[j].cap) \in Nat \cup {Unlimited}
  BY <1>1, LimitTypes
<1>6. ~Exceeds(CountAt(q, UpTo(q, h, RpmWindow)), RpmLimit[s[j].tier])
  BY <1>4, <1>5, FewerKept, LimitsFields
<1>7. ~Exceeds(CountAt(q, UpTo(q, h, RpdWindow)), RpdLimit[s[j].tier])
  BY <1>4, <1>5, FewerKept, LimitsFields
<1>8. s[j].project # NoProject =>
          ~Exceeds(CountAt(q, OfProject(q, h)), calculateProjectQuota(s[j].tier, s[j].cap))
  BY <1>4, <1>5, FewerKept, LimitsFields
<1>. QED  BY <1>6, <1>7, <1>8, LimitsFields

\* What pruning leaves of sound grants is sound.
LEMMA SoundPruned ==
    ASSUME NEW u \in Nat, NEW w \in Nat, u <= w, NEW s, Sound(s, u)
    PROVE  Sound(PruneAt(s, w), w)
<1>. DEFINE q == PruneAt(s, w)
            P == Within(s, w, RpdWindow)
<1>1. s \in Seq(GrantBy(w)) /\ s \in Seq(Grant)
  BY Later DEF Sound
<1>2. q \in Seq(GrantBy(w)) /\ q \in Seq(Grant)
  BY <1>1, PruneList
<1>3. /\ Len(s) \in Nat /\ DOMAIN s = 1..Len(s) /\ (\A i \in 1..Len(s) : s[i] \in Grant)
      /\ Len(q) \in Nat /\ DOMAIN q = 1..Len(q)
  <2>. HIDE DEF q
  <2>. QED  BY <1>1, <1>2, ListOf
<1>4. P \subseteq DOMAIN s /\ q = Through(s, P)
  BY DEF Within, PruneAt
<1>. HIDE DEF P, q
<1>5. PICK at, m : Enumerates(at, m, P) /\ Picks(q, s, at, m)
  <2>1. Len(s) \in Nat /\ P \subseteq 1..Len(s)
    BY <1>3, <1>4
  <2>. QED  BY <1>4, <2>1, Filtered
<1>6. /\ m \in Nat /\ (\A j \in 1..m : at[j] \in P /\ at[j] \in DOMAIN s)
      /\ (\A i, j \in 1..m : i < j => at[i] < at[j])
      /\ DOMAIN q = 1..m /\ \A j \in 1..m : q[j] = s[at[j]]
  BY <1>4, <1>5 DEF Enumerates, Picks
<1>7. Ascends(q)
  <2>1. \A i, j \in DOMAIN s : i < j => s[i].timestamp <= s[j].timestamp
    BY DEF Sound, Ascends
  <2>. QED  BY <1>6, <2>1 DEF Ascends
<1>8. ASSUME NEW j \in DOMAIN q
      PROVE  LimitsKept(q, j)
  <2>. DEFINE h == at[j]
  <2>1. h \in DOMAIN s /\ h \in Nat /\ q[j] = s[h] /\ LimitsKept(s, h)
    BY <1>3, <1>6 DEF Sound
  <2>2. ASSUME NEW v
        PROVE  /\ UpTo(q, j, v) \subseteq DOMAIN q /\ UpTo(s, h, v) \subseteq DOMAIN s
               /\ \A i \in UpTo(q, j, v) : at[i] \in UpTo(s, h, v)
    <3>1. UpTo(q, j, v) \subseteq DOMAIN q /\ UpTo(s, h, v) \subseteq DOMAIN s
      BY <1>3, <2>1 DEF UpTo
    <3>2. ASSUME NEW i \in UpTo(q, j, v)
          PROVE  at[i] \in UpTo(s, h, v)
      <4>1. i \in 1..m /\ j \in 1..m /\ i <= j /\ q[i].timestamp > q[j].timestamp - v
        BY <1>6, <3>1 DEF UpTo
      <4>2. at[i] \in 1..Len(s) /\ (at[i] < h \/ at[i] = h)
        <5>1. i < j \/ i = j
          BY <4>1
        <5>. QED  BY <1>3, <1>6, <4>1, <5>1
      <4>3. at[i] \in 1..h
        BY <1>3, <2>1, <4>2
      <4>4. s[at[i]].timestamp > s[h].timestamp - v
        BY <1>6, <2>1, <4>1
      <4>. QED  BY <4>3, <4>4 DEF UpTo
    <3>. QED  BY <3>1, <3>2
  <2>. HIDE DEF h
  <2>3. ASSUME NEW v
        PROVE  CountAt(q, UpTo(q, j, v)) <= CountAt(s, UpTo(s, h, v))
    BY <1>1, <1>2, <1>4, <1>5, <2>2, Types, CountPicked
  <2>4. /\ OfProject(q, j) \subseteq DOMAIN q /\ OfProject(s, h) \subseteq DOMAIN s
        /\ \A i \in OfProject(q, j) : at[i] \in OfProject(s, h)
    BY <1>6, <2>1, <2>2 DEF OfProject
  <2>5. CountAt(q, OfProject(q, j)) <= CountAt(s, OfProject(s, h))
    BY <1>1, <1>2, <1>4, <1>5, <2>4, Types, CountPicked
  <2>. QED  BY <1>1, <1>2, <2>1, <2>3, <2>5, LimitsFewer
<1>9. Sound(q, w)
  BY <1>2, <1>7, <1>8 DEF Sound
<1>. QED  BY <1>9 DEF q

-----------------------------------------------------------------------------
(* The steps *)

\* Pruning the entries of the grants of the day leaves them as they are.
LEMMA IssuedFresh ==
    ASSUME NEW u \in Nat, NEW d, NEW g, Current(d, u, g)
    PROVE  PruneAt(Issued(g), u) = Issued(g)
<1>1. d.entries \in Seq(Entry) /\ PruneAt(d.entries, u) = Issued(g)
  BY DataFields, Later DEF Current
<1>2. PruneAt(PruneAt(d.entries, u), u) = PruneAt(d.entries, u)
  BY <1>1, Types, PruneTwice
<1>. QED  BY <1>1, <1>2

\* A current record that is pruned is current.
LEMMA PrunedCurrent ==
    ASSUME NEW u \in Nat, NEW d, NEW g, Current(d, u, g),
           NEW m, m = [d EXCEPT !.entries = PruneAt(@, u)]
    PROVE  Current(m, u, g) /\ Alike(m, d) /\ m.entries = Issued(g)
<1>. DEFINE s == PruneAt(d.entries, u)
<1>1. d \in DataBy(u) /\ s = Issued(g) /\ CoherentDebt(d)
  BY DEF Current
<1>2. s \in Seq(EntryBy(u))
  BY <1>1, DataFields, PruneList
<1>3. m = [d EXCEPT !.entries = s]
  OBVIOUS
<1>. HIDE DEF s
<1>4. m \in DataBy(u) /\ m.entries = s /\ Alike(m, d)
  BY ONLY <1>1, <1>2, <1>3, OtherEntries
<1>5. CoherentDebt(m)
  BY <1>1, <1>4, CoherentAlike DEF Alike
<1>6. PruneAt(m.entries, u) = Issued(g)
  BY <1>1, <1>4, IssuedFresh
<1>. QED  BY <1>1, <1>4, <1>5, <1>6 DEF Current

\* What is persisted is current in memory and storage.
LEMMA Written ==
    ASSUME NEW u \in Nat, NEW d, NEW g, Current(d, u, g), Sound(g, u),
           NEW m, m = [d EXCEPT !.entries = PruneAt(@, u)]
    PROVE  Right(TRUE, m, m, u, g)
<1>1. Current(m, u, g)
  BY PrunedCurrent
<1>2. m \in DataBy(u) /\ Alike(m, m)
  BY <1>1 DEF Current, Alike, SameDebt
<1>. QED  BY <1>1, <1>2 DEF Right

\* What the object works with is current.
LEMMA LoadedCurrent ==
    ASSUME IndInv
    PROVE  Current(Loaded, now, granted) /\ Alike(Loaded, disk) /\ now \in Nat
<1>1. /\ now \in Nat /\ Current(disk, now, granted)
      /\ isLoaded => Current(mem, now, granted) /\ Alike(mem, disk)
  BY DEF IndInv, Right
<1>2. CASE isLoaded
  BY <1>1, <1>2 DEF Loaded
<1>3. CASE ~isLoaded
  <2>1. Loaded = [disk EXCEPT !.entries = PruneAt(@, now)]
    BY <1>3 DEF Loaded, Prune
  <2>. QED  BY <1>1, <2>1, PrunedCurrent
<1>. QED  BY <1>1, <1>2, <1>3

\* The entries of grants to which one is added.
LEMMA IssuedAppend ==
    ASSUME NEW s \in Seq(Grant), NEW g \in Grant,
           NEW e, e = [timestamp |-> g.timestamp, count |-> g.count, project |-> g.project]
    PROVE  Issued(Append(s, g)) = Append(Issued(s), e)
<1>. DEFINE n == Len(s)
            t == Append(s, g)
            r == Issued(s)
            x == Append(r, e)
            y == Issued(t)
<1>1. n \in Nat /\ DOMAIN s = 1..n
  BY ListOf
<1>2. t \in Seq(Grant) /\ DOMAIN t = 1..(n + 1) /\ (\A i \in 1..n : t[i] = s[i]) /\ t[n + 1] = g
  <2>. HIDE DEF t
  <2>1. t \in Seq(Grant) /\ Len(t) = n + 1 /\ (\A i \in 1..n : t[i] = s[i]) /\ t[n + 1] = g
    BY AppendProperties DEF t
  <2>. QED  BY <2>1, ListOf
<1>3. r \in Seq(Entry) /\ Len(r) = n
  BY IssuedList
<1>4. e \in Entry
  BY DEF Entry, Grant
<1>5. DOMAIN x = 1..(n + 1) /\ (\A i \in 1..n : x[i] = r[i]) /\ x[n + 1] = e /\ x \in Seq(Entry)
  <2>. HIDE DEF x, r, n
  <2>1. x \in Seq(Entry) /\ Len(x) = n + 1 /\ (\A i \in 1..n : x[i] = r[i]) /\ x[n + 1] = e
    BY <1>3, <1>4, AppendProperties DEF x
  <2>. QED  BY <2>1, ListOf
<1>6. /\ DOMAIN y = DOMAIN t
      /\ \A i \in DOMAIN t : y[i] = [timestamp |-> t[i].timestamp, count |-> t[i].count,
                                     project |-> t[i].project]
      /\ \A i \in DOMAIN s : r[i] = [timestamp |-> s[i].timestamp, count |-> s[i].count,
                                     project |-> s[i].project]
  BY DEF Issued
<1>. HIDE DEF n, t, r, x
<1>7. y \in Seq(Entry)
  BY <1>2, IssuedList
<1>. HIDE DEF y
<1>8. \A i \in 1..(n + 1) : y[i] = x[i]
  <2>1. \A i \in 1..(n + 1) : i \in 1..n \/ i = n + 1
    BY <1>1
  <2>2. 1..n \subseteq 1..(n + 1) /\ n + 1 \in 1..(n + 1)
    BY <1>1
  <2>3. \A i \in 1..n : y[i] = x[i]
    BY <1>1, <1>2, <1>5, <1>6, <2>2
  <2>4. y[n + 1] = x[n + 1]
    BY <1>2, <1>5, <1>6, <2>2
  <2>. QED  BY <2>1, <2>3, <2>4
<1>9. y = x
  <2>1. /\ y \in [1..(n + 1) -> Entry] /\ x \in [1..(n + 1) -> Entry]
    <3>1. Len(y) = n + 1 /\ Len(x) = n + 1
      BY <1>1, <1>2, <1>5, <1>6, <1>7, LenProperties
    <3>. QED  BY <1>5, <1>7, <3>1, LenProperties
  <2>. DEFINE k == n + 1
  <2>2. y \in [1..k -> Entry] /\ x \in [1..k -> Entry] /\ \A i \in 1..k : y[i] = x[i]
    BY <1>8, <2>1
  <2>. HIDE DEF k
  <2>3. y = [i \in 1..k |-> y[i]] /\ x = [i \in 1..k |-> x[i]]
    BY ONLY <2>2
  <2>. QED  BY ONLY <2>2, <2>3
<1>. QED  BY <1>9 DEF x, y, t, r

\* The units of a window of the entries of grants, with the next grant's.
NextUnits(t, s, g, P) ==
    /\ CountAt(t, P) = CountAt(s, P) /\ CountAt(t, P) = CountAt(Issued(s), P)
    /\ CountAt(t, P \cup {Len(s) + 1}) = CountAt(Issued(s), P) + g.count

\* A grant appended adds its units to any window.
LEMMA NextCount ==
    ASSUME NEW s \in Seq(Grant), NEW g \in Grant, NEW t, t = Append(s, g),
           NEW P, P \subseteq DOMAIN s
    PROVE  NextUnits(t, s, g, P)
<1>. DEFINE n == Len(s)
            l == n + 1
<1>1. n \in Nat /\ DOMAIN s = 1..n
  BY ListOf
<1>2. t \in Seq(Grant) /\ DOMAIN t = 1..l /\ (\A i \in 1..n : t[i] = s[i]) /\ t[l] = g
  <2>1. t \in Seq(Grant) /\ Len(t) = n + 1 /\ (\A i \in 1..n : t[i] = s[i]) /\ t[n + 1] = g
    BY AppendProperties
  <2>. QED  BY <2>1, ListOf
<1>3. /\ Issued(s) \in Seq(Entry) /\ DOMAIN Issued(s) = DOMAIN s
      /\ \A i \in DOMAIN s : Issued(s)[i].count = s[i].count
  BY IssuedList
<1>4. /\ P \subseteq DOMAIN t /\ l \in DOMAIN t /\ l \notin P
  BY <1>1, <1>2
<1>5. \A i \in P : t[i].count = s[i].count /\ t[i].count = Issued(s)[i].count
  BY <1>1, <1>2, <1>3
<1>. HIDE DEF n, l
<1>6. CountAt(t, P) = CountAt(s, P)
  BY <1>2, <1>4, <1>5, Types, CountSame
<1>7. CountAt(t, P) = CountAt(Issued(s), P)
  <2>1. P \subseteq DOMAIN Issued(s)
    BY <1>3
  <2>. QED  BY <1>2, <1>3, <1>4, <1>5, <2>1, Types, CountSame
<1>8. CountAt(t, P \cup {l}) = CountAt(t, P) + t[l].count
  BY <1>2, <1>4, Types, CountAdd
<1>. QED  BY <1>2, <1>6, <1>7, <1>8 DEF l, n, NextUnits


\* The entries of a project in the minute.
MinuteOf(r, u, p) == {i \in Within(r, u, RpmWindow) : r[i].project = p}

\* The windows of t, which is s and one grant more at l: that grant's are those
\* of the entries r, and the grant; the others' are as they were.
Extends(t, l, s, r, g, u) ==
    /\ l \in DOMAIN t /\ t[l] = g
    /\ \A w \in Nat : w >= 1 =>
         /\ Within(r, u, w) \subseteq DOMAIN s
         /\ UpTo(t, l, w) = Within(r, u, w) \cup {l}
    /\ OfProject(t, l) = MinuteOf(r, u, g.project) \cup {l}
    /\ \A j \in DOMAIN s :
         /\ j \in DOMAIN t /\ t[j] = s[j]
         /\ \A w : UpTo(t, j, w) = UpTo(s, j, w) /\ UpTo(s, j, w) \subseteq DOMAIN s
         /\ OfProject(t, j) = OfProject(s, j) /\ OfProject(s, j) \subseteq DOMAIN s

\* An appended grant extends the list in this way.
LEMMA NextWindow ==
    ASSUME NEW u \in Nat, NEW s \in Seq(Grant), NEW g \in Grant, g.timestamp = u,
           NEW t, t = Append(s, g), NEW r, r = Issued(s), NEW l, l = Len(s) + 1
    PROVE  Extends(t, l, s, r, g, u)
<1>. DEFINE n == Len(s)
<1>1. n \in Nat /\ DOMAIN s = 1..n /\ (\A i \in 1..n : s[i] \in Grant) /\ l = n + 1
  BY ListOf
<1>2. t \in Seq(Grant) /\ DOMAIN t = 1..l /\ (\A i \in 1..n : t[i] = s[i]) /\ t[l] = g
  <2>1. t \in Seq(Grant) /\ Len(t) = n + 1 /\ (\A i \in 1..n : t[i] = s[i]) /\ t[n + 1] = g
    BY AppendProperties
  <2>. QED  BY <1>1, <2>1, ListOf
<1>3. /\ DOMAIN r = 1..n
      /\ \A i \in 1..n : r[i].timestamp = s[i].timestamp /\ r[i].project = s[i].project
  BY <1>1, IssuedList
<1>. HIDE DEF n
<1>4. 1..n \subseteq 1..l /\ l \in 1..l /\ l \notin 1..n /\ \A i \in 1..l : i \in 1..n \/ i = l
  BY <1>1
<1>5. ASSUME NEW w \in Nat, w >= 1
      PROVE  Within(r, u, w) \subseteq DOMAIN s /\ UpTo(t, l, w) = Within(r, u, w) \cup {l}
  <2>1. Within(r, u, w) \subseteq DOMAIN s
    BY <1>1, <1>3 DEF Within
  <2>2. u > u - w
    BY <1>5
  <2>3. \A i \in 1..n : i \in UpTo(t, l, w) <=> i \in Within(r, u, w)
    BY <1>2, <1>3, <1>4 DEF UpTo, Within
  <2>4. l \in UpTo(t, l, w)
    BY <1>2, <1>4, <2>2 DEF UpTo
  <2>5. UpTo(t, l, w) \subseteq 1..l
    BY DEF UpTo
  <2>. QED  BY <1>1, <1>4, <2>1, <2>3, <2>4, <2>5
<1>6. OfProject(t, l) = MinuteOf(r, u, g.project) \cup {l}
  <2>1. /\ UpTo(t, l, RpmWindow) = Within(r, u, RpmWindow) \cup {l}
        /\ Within(r, u, RpmWindow) \subseteq 1..n
    BY <1>1, <1>5, Types
  <2>2. \A i \in 1..n : t[i].project = r[i].project
    BY <1>2, <1>3
  <2>. QED  BY <1>2, <2>1, <2>2 DEF OfProject, MinuteOf
<1>7. ASSUME NEW j \in DOMAIN s
      PROVE  /\ j \in DOMAIN t /\ t[j] = s[j]
             /\ \A w : UpTo(t, j, w) = UpTo(s, j, w) /\ UpTo(s, j, w) \subseteq DOMAIN s
             /\ OfProject(t, j) = OfProject(s, j) /\ OfProject(s, j) \subseteq DOMAIN s
  <2>1. 1..j \subseteq 1..n /\ j \in 1..n
    BY <1>1
  <2>2. \A i \in 1..j : t[i] = s[i]
    BY <1>2, <2>1
  <2>3. t[j] = s[j] /\ j \in DOMAIN t
    BY <1>2, <1>4, <2>1
  <2>4. ASSUME NEW w
        PROVE  UpTo(t, j, w) = UpTo(s, j, w) /\ UpTo(s, j, w) \subseteq DOMAIN s
    BY <1>1, <2>1, <2>2, <2>3 DEF UpTo
  <2>5. UpTo(s, j, RpmWindow) \subseteq 1..j
    BY DEF UpTo
  <2>6. OfProject(t, j) = OfProject(s, j) /\ OfProject(s, j) \subseteq DOMAIN s
    BY <2>2, <2>3, <2>4, <2>5 DEF OfProject
  <2>. QED  BY <2>3, <2>4, <2>6
<1>. QED  BY <1>2, <1>4, <1>5, <1>6, <1>7 DEF Extends

\* A grant that passes no limit, at the end of sound ones.
LEMMA SoundAppend ==
    ASSUME NEW u \in Nat, NEW s, Sound(s, u), NEW g \in GrantBy(u), g.timestamp = u,
           NEW r, r = Issued(s),
           ~Exceeds(CountAt(r, Within(r, u, RpmWindow)) + g.count, RpmLimit[g.tier]),
           ~Exceeds(CountAt(r, Within(r, u, RpdWindow)) + g.count, RpdLimit[g.tier]),
           g.project # NoProject =>
               ~Exceeds(CountAt(r, MinuteOf(r, u, g.project)) + g.count,
                        calculateProjectQuota(g.tier, g.cap))
    PROVE  Sound(Append(s, g), u)
<1>. DEFINE t == Append(s, g)
            l == Len(s) + 1
            n == Len(s)
            mine == MinuteOf(r, u, g.project)
<1>1. s \in Seq(GrantBy(u)) /\ s \in Seq(Grant) /\ g \in Grant
  <2>1. s \in Seq(GrantBy(u)) /\ s \in Seq(Grant)
    BY Later DEF Sound
  <2>. QED  BY <2>1 DEF GrantBy, Grant
<1>2. t \in Seq(GrantBy(u)) /\ t \in Seq(Grant) /\ n \in Nat /\ DOMAIN t = 1..l
      /\ DOMAIN s = 1..n /\ l = n + 1 /\ \A i \in 1..n : s[i] \in GrantBy(u)
  <2>1. t \in Seq(GrantBy(u)) /\ Len(t) = l
    BY <1>1, AppendProperties
  <2>2. t \in Seq(Grant)
    BY <1>1, AppendProperties
  <2>3. n \in Nat /\ DOMAIN s = 1..n /\ \A i \in 1..n : s[i] \in GrantBy(u)
    BY <1>1, ListOf
  <2>. HIDE DEF t
  <2>. QED  BY <2>1, <2>2, <2>3, ListOf
<1>3. /\ l \in DOMAIN t /\ t[l] = g
      /\ \A w \in Nat : w >= 1 =>
           /\ Within(r, u, w) \subseteq DOMAIN s
           /\ UpTo(t, l, w) = Within(r, u, w) \cup {l}
      /\ OfProject(t, l) = mine \cup {l}
      /\ \A j \in DOMAIN s :
           /\ j \in DOMAIN t /\ t[j] = s[j]
           /\ \A w : UpTo(t, j, w) = UpTo(s, j, w) /\ UpTo(s, j, w) \subseteq DOMAIN s
           /\ OfProject(t, j) = OfProject(s, j) /\ OfProject(s, j) \subseteq DOMAIN s
  <2>1. t = Append(s, g) /\ l = Len(s) + 1
    OBVIOUS
  <2>. HIDE DEF t, l, n, mine
  <2>2. Extends(t, l, s, r, g, u)
    BY <1>1, <2>1, NextWindow
  <2>. QED  BY <2>2 DEF Extends, mine
<1>. HIDE DEF mine
<1>4. ASSUME NEW P, P \subseteq DOMAIN s
      PROVE  /\ CountAt(t, P) = CountAt(s, P)
             /\ CountAt(t, P \cup {l}) = CountAt(r, P) + g.count
  <2>1. t = Append(s, g) /\ l = Len(s) + 1
    OBVIOUS
  <2>. HIDE DEF t, l, n, mine
  <2>2. NextUnits(t, s, g, P)
    <3>1. s \in Seq(Grant) /\ g \in Grant /\ t = Append(s, g) /\ P \subseteq DOMAIN s
      BY <1>1, <1>4, <2>1
    <3>. QED  BY ONLY <3>1, NextCount
  <2>. QED  BY <2>1, <2>2 DEF NextUnits
<1>. HIDE DEF t, l, n
<1>5. LimitsKept(t, l)
  <2>1. /\ UpTo(t, l, RpmWindow) = Within(r, u, RpmWindow) \cup {l}
        /\ UpTo(t, l, RpdWindow) = Within(r, u, RpdWindow) \cup {l}
        /\ Within(r, u, RpmWindow) \subseteq DOMAIN s
        /\ Within(r, u, RpdWindow) \subseteq DOMAIN s
    BY <1>3, Types
  <2>2. mine \subseteq DOMAIN s
    BY <2>1 DEF mine, MinuteOf
  <2>3. /\ CountAt(t, UpTo(t, l, RpmWindow)) = CountAt(r, Within(r, u, RpmWindow)) + g.count
        /\ CountAt(t, UpTo(t, l, RpdWindow)) = CountAt(r, Within(r, u, RpdWindow)) + g.count
        /\ CountAt(t, OfProject(t, l)) = CountAt(r, mine) + g.count
    BY <1>3, <1>4, <2>1, <2>2
  <2>. QED  BY <1>3, <2>3, LimitsFields DEF mine
<1>6. ASSUME NEW j \in DOMAIN s
      PROVE  LimitsKept(t, j)
  <2>1. /\ LimitsKept(s, j) /\ j \in DOMAIN t /\ t[j] = s[j]
        /\ \A w : UpTo(t, j, w) = UpTo(s, j, w) /\ UpTo(s, j, w) \subseteq DOMAIN s
        /\ OfProject(t, j) = OfProject(s, j) /\ OfProject(s, j) \subseteq DOMAIN s
    BY <1>3 DEF Sound
  <2>2. /\ CountAt(t, UpTo(t, j, RpmWindow)) = CountAt(s, UpTo(s, j, RpmWindow))
        /\ CountAt(t, UpTo(t, j, RpdWindow)) = CountAt(s, UpTo(s, j, RpdWindow))
        /\ CountAt(t, OfProject(t, j)) = CountAt(s, OfProject(s, j))
    BY <1>4, <2>1
  <2>. QED  BY ONLY <2>1, <2>2, LimitsFields
<1>7. Ascends(t)
  <2>1. \A i \in 1..n : t[i] = s[i] /\ s[i].timestamp \in 0..u
    BY <1>2, <1>3 DEF GrantBy
  <2>2. \A i, j \in 1..n : i < j => s[i].timestamp <= s[j].timestamp
    BY <1>2 DEF Sound, Ascends
  <2>3. \A i \in 1..l : (i \in 1..n \/ i = l) /\ \A j \in 1..l : i < j => i \in 1..n
    BY <1>2
  <2>4. ASSUME NEW i \in 1..l, NEW j \in 1..l, i < j
        PROVE  t[i].timestamp <= t[j].timestamp
    <3>1. i \in 1..n
      BY <2>3, <2>4
    <3>2. CASE j \in 1..n
      BY <2>1, <2>2, <2>4, <3>1, <3>2
    <3>3. CASE j = l
      BY <1>3, <2>1, <3>1, <3>3
    <3>. QED  BY <2>3, <3>2, <3>3
  <2>. QED  BY <1>2, <2>4 DEF Ascends
<1>8. \A j \in DOMAIN t : LimitsKept(t, j)
  <2>1. \A j \in 1..l : j \in 1..n \/ j = l
    BY <1>2
  <2>. QED  BY <1>2, <1>5, <1>6, <2>1
<1>9. Sound(t, u)
  BY <1>2, <1>7, <1>8 DEF Sound
<1>. QED  BY <1>9 DEF t

\* What persist does: its record is then the one in memory and in storage.
LEMMA Persisted ==
    ASSUME now \in Nat, NEW d, NEW g, Current(d, now, g), Sound(g, now),
           persist(d), granted' = g, now' = now
    PROVE  IndInv'
<1>1. isLoaded' = TRUE /\ mem' = [d EXCEPT !.entries = PruneAt(@, now)] /\ disk' = mem'
  BY DEF persist, Prune
<1>2. Right(TRUE, mem', mem', now, g)
  BY <1>1, Written
<1>. QED  BY <1>1, <1>2 DEF IndInv

\* Before the first grant, and after a reset, there are no entries.
LEMMA NoGrants ==
    ASSUME NEW u \in Nat
    PROVE  /\ PruneAt(<<>>, u) = Issued(<<>>) /\ Sound(<<>>, u)
           /\ <<>> \in Seq(EntryBy(u))
<1>1. <<>> \in Seq(EntryBy(u)) /\ <<>> \in Seq(GrantBy(u)) /\ DOMAIN <<>> = {}
  OBVIOUS
<1>2. PruneAt(<<>>, u) = <<>>
  <2>1. DOMAIN <<>> = Within(<<>>, u, RpdWindow)
    BY <1>1 DEF Within
  <2>. QED  BY <1>1, <2>1, PruneAll
<1>3. Issued(<<>>) = <<>>
  <2>1. Issued(<<>>) \in Seq(Entry) /\ Len(Issued(<<>>)) = 0
    <3>1. <<>> \in Seq(Grant) /\ Len(<<>>) = 0
      OBVIOUS
    <3>. QED  BY <3>1, IssuedList
  <2>. QED  BY <2>1, EmptySeq
<1>4. Sound(<<>>, u)
  BY <1>1 DEF Sound, Ascends
<1>. QED  BY <1>1, <1>2, <1>3, <1>4

\* The record that an object begins with.
LEMMA Fresh ==
    ASSUME NEW u \in Nat
    PROVE  initialData \in DataBy(u) /\ Current(initialData, u, <<>>)
<1>. DEFINE d == initialData
<1>1. /\ d \in DataBy(u) /\ d.entries = <<>> /\ d.debt = 0 /\ d.contributed = 0
      /\ d.trusted = FALSE /\ d.days = 0 /\ d.ceiling = 150
  BY NoGrants, QuotaAssumption DEF initialData, DataBy
<1>. HIDE DEF d
<1>2. Unused(d)
  BY <1>1 DEF Unused
<1>3. determineJailStatus(d.debt, d.ceiling) # "HARD_JAIL"
  BY <1>1 DEF determineJailStatus
<1>4. CoherentDebt(d)
  BY <1>1, <1>2, <1>3, CoherentFields
<1>5. Current(d, u, <<>>)
  BY <1>1, <1>4, NoGrants DEF Current
<1>. QED  BY <1>1, <1>5 DEF d

\* The object begins with no grants and the initial record.
LEMMA InitInv == Init => IndInv
<1>. SUFFICES ASSUME Init PROVE IndInv
  OBVIOUS
<1>1. /\ isLoaded = FALSE /\ mem = initialData /\ disk = initialData /\ now = 0
      /\ granted = <<>>
  BY DEF Init
<1>2. 0 \in Nat
  OBVIOUS
<1>3. initialData \in DataBy(0) /\ Current(initialData, 0, <<>>) /\ Sound(<<>>, 0)
  BY <1>2, Fresh, NoGrants
<1>. QED  BY <1>1, <1>2, <1>3 DEF IndInv, Right

\* A read loads and prunes the record in memory, and stores nothing.
LEMMA ReadInv ==
    ASSUME IndInv, Read
    PROVE  IndInv'
<1>1. /\ isLoaded' = TRUE /\ mem' = [Loaded EXCEPT !.entries = PruneAt(@, now)]
      /\ disk' = disk /\ now' = now /\ granted' = granted
  BY DEF Read, Prune
<1>2. Current(Loaded, now, granted) /\ Alike(Loaded, disk) /\ now \in Nat
  BY LoadedCurrent
<1>3. Current(mem', now, granted) /\ Alike(mem', Loaded)
  BY <1>1, <1>2, PrunedCurrent
<1>4. Alike(mem', disk) /\ mem' \in DataBy(now)
  BY <1>2, <1>3 DEF Alike, SameDebt, Current
<1>5. Current(disk, now, granted) /\ Sound(granted, now)
  BY DEF IndInv, Right
<1>6. Right(TRUE, mem', disk, now, granted)
  BY <1>2, <1>3, <1>4, <1>5 DEF Right
<1>. QED  BY <1>1, <1>6 DEF IndInv

\* A granted request's entry joins those of the grants.
LEMMA ConsumeInv ==
    ASSUME IndInv, NEW tier \in Tiers, NEW p \in Projects \cup {NoProject},
           NEW cap \in SubCaps \cup {NoSubCap}, NEW count \in Counts,
           consumeQuota(tier, p, cap, count)
    PROVE  IndInv'
<1>. DEFINE r == Prune(Loaded.entries)
            e == [timestamp |-> now, count |-> count, project |-> p]
            g == [timestamp |-> now, count |-> count, project |-> p, tier |-> tier, cap |-> cap]
            a == Append(r, e)
            d == [Loaded EXCEPT !.entries = a]
            h == Append(granted, g)
<1>1. /\ ~RpmExceeded(r, tier, count) /\ ~RpdExceeded(r, tier, count)
      /\ ~ProjectExceeded(r, tier, p, cap, count)
      /\ persist(d) /\ granted' = h /\ now' = now
  BY DEF consumeQuota
<1>2. Current(Loaded, now, granted) /\ now \in Nat /\ Sound(granted, now)
  BY LoadedCurrent DEF IndInv, Right
<1>3. r = Issued(granted) /\ r = PruneAt(Loaded.entries, now)
  BY <1>2 DEF Current, Prune
<1>4. r \in Seq(EntryBy(now)) /\ r \in Seq(Entry) /\ Loaded \in DataBy(now) /\ CoherentDebt(Loaded)
  <2>1. Loaded \in DataBy(now) /\ CoherentDebt(Loaded)
    BY <1>2 DEF Current
  <2>2. PruneAt(Loaded.entries, now) \in Seq(EntryBy(now))
    BY <2>1, DataFields, PruneList
  <2>. HIDE DEF r
  <2>. QED  BY <1>2, <1>3, <2>1, <2>2, Later
<1>5. /\ e \in EntryBy(now) /\ e \in Entry /\ g \in GrantBy(now) /\ g \in Grant
      /\ g.timestamp = now /\ g.count = count /\ g.project = p /\ g.tier = tier /\ g.cap = cap
      /\ e.timestamp = now
      /\ e = [timestamp |-> g.timestamp, count |-> g.count, project |-> g.project]
  BY <1>2 DEF EntryBy, Entry, GrantBy, Grant
<1>. HIDE DEF r, e, g
<1>6. Sound(h, now)
  <2>1. /\ ~Exceeds(CountAt(r, Within(r, now, RpmWindow)) + g.count, RpmLimit[g.tier])
        /\ ~Exceeds(CountAt(r, Within(r, now, RpdWindow)) + g.count, RpdLimit[g.tier])
    BY <1>1, <1>5 DEF RpmExceeded, RpdExceeded, calculateUsage
  <2>2. g.project # NoProject =>
            ~Exceeds(CountAt(r, MinuteOf(r, now, g.project)) + g.count,
                     calculateProjectQuota(g.tier, g.cap))
    BY <1>1, <1>5 DEF ProjectExceeded, calculateProjectUsage, MinuteOf
  <2>. QED  BY <1>2, <1>3, <1>5, <2>1, <2>2, SoundAppend
<1>7. a = Issued(h)
  <2>1. granted \in Seq(Grant)
    BY <1>2, Later DEF Sound
  <2>. QED  BY <1>3, <1>5, <2>1, IssuedAppend
<1>8. a \in Seq(EntryBy(now)) /\ PruneAt(a, now) = a
  <2>1. a \in Seq(EntryBy(now))
    BY <1>4, <1>5, AppendProperties
  <2>2. PruneAt(r, now) = r
    BY <1>2, <1>3, IssuedFresh
  <2>3. now > now - RpdWindow
    BY <1>2, Types
  <2>4. PruneAt(Append(r, e), now) = Append(PruneAt(r, now), e)
    BY <1>4, <1>5, <2>3, PruneAppend
  <2>. QED  BY <2>1, <2>2, <2>4
<1>. HIDE DEF a, h
<1>9. d \in DataBy(now) /\ d.entries = a /\ Alike(d, Loaded)
  <2>. DEFINE q == Loaded
  <2>1. q \in DataBy(now) /\ d = [q EXCEPT !.entries = a]
    BY <1>4
  <2>. HIDE DEF q, d
  <2>2. d \in DataBy(now) /\ d.entries = a /\ Alike(d, q)
    BY ONLY <1>8, <2>1, OtherEntries
  <2>. QED  BY <2>2 DEF q
<1>. HIDE DEF d
<1>10. CoherentDebt(d)
  BY <1>4, <1>9, CoherentAlike DEF Alike
<1>11. Current(d, now, h)
  BY <1>7, <1>8, <1>9, <1>10 DEF Current
<1>. QED  BY <1>1, <1>2, <1>6, <1>11, Persisted

\* A call that changes tier or debt and leaves the entries.
LEMMA SameEntries ==
    ASSUME IndInv, NEW d, d \in DataBy(now), d.entries = Loaded.entries, CoherentDebt(d),
           persist(d), granted' = granted, now' = now
    PROVE  IndInv'
<1>1. Current(Loaded, now, granted) /\ now \in Nat /\ Sound(granted, now)
  BY LoadedCurrent DEF IndInv, Right
<1>2. Current(d, now, granted)
  BY <1>1 DEF Current
<1>. QED  BY <1>1, <1>2, Persisted

\* The record that the object works with.
LEMMA LoadedFields ==
    ASSUME IndInv
    PROVE  /\ Loaded \in DataBy(now) /\ CoherentDebt(Loaded) /\ now \in Nat
           /\ Loaded.trusted => Loaded.days > TrustDays
<1>1. Loaded \in DataBy(now) /\ CoherentDebt(Loaded) /\ now \in Nat
  BY LoadedCurrent DEF Current
<1>. QED  BY <1>1, CoherentFields

\* One field of a record replaced.
LEMMA OtherDebt ==
    ASSUME NEW u, NEW d \in DataBy(u), NEW x \in 0..MaxDebt, NEW m, m = [d EXCEPT !.debt = x]
    PROVE  m \in DataBy(u) /\ m.entries = d.entries /\ m.trusted = d.trusted /\ m.days = d.days
BY DEF DataBy

\* The same of the contribution.
LEMMA OtherContribution ==
    ASSUME NEW u, NEW d \in DataBy(u), NEW x \in 0..MaxContributed,
           NEW m, m = [d EXCEPT !.contributed = x]
    PROVE  m \in DataBy(u) /\ m.entries = d.entries /\ m.trusted = d.trusted /\ m.days = d.days
BY DEF DataBy

\* The same of the days.
LEMMA OtherDays ==
    ASSUME NEW u, NEW d \in DataBy(u), NEW x \in 0..MaxDays, NEW m, m = [d EXCEPT !.days = x]
    PROVE  m \in DataBy(u) /\ m.entries = d.entries /\ m.trusted = d.trusted /\ m.days = x
BY DEF DataBy

\* The same of the trust.
LEMMA OtherTrust ==
    ASSUME NEW u, NEW d \in DataBy(u), NEW x \in BOOLEAN, NEW m, m = [d EXCEPT !.trusted = x]
    PROVE  m \in DataBy(u) /\ m.entries = d.entries /\ m.trusted = x /\ m.days = d.days
BY DEF DataBy

\* setTier changes the tier only.
LEMMA SetTierInv ==
    ASSUME IndInv, NEW tier \in Tiers, setTier(tier)
    PROVE  IndInv'
<1>. DEFINE q == Loaded
            d == [q EXCEPT !.tier = tier]
<1>1. q \in DataBy(now) /\ CoherentDebt(q)
  BY LoadedFields
<1>2. persist(d) /\ granted' = granted /\ now' = now
  BY DEF setTier
<1>. HIDE DEF q
<1>3. d \in DataBy(now) /\ d.entries = q.entries /\ SameDebt(d, q)
  BY <1>1 DEF DataBy, SameDebt
<1>. HIDE DEF d
<1>4. CoherentDebt(d)
  BY <1>1, <1>3, CoherentAlike
<1>. QED  BY <1>2, <1>3, <1>4, SameEntries DEF q

\* reset forgets the entries and, in the history, the grants.
LEMMA ResetInv ==
    ASSUME IndInv, reset
    PROVE  IndInv'
<1>. DEFINE q == Loaded
            none == <<>>
            d == [q EXCEPT !.entries = none]
<1>1. q \in DataBy(now) /\ CoherentDebt(q) /\ now \in Nat
  BY LoadedFields
<1>2. persist(d) /\ granted' = none /\ now' = now
  BY DEF reset
<1>3. PruneAt(none, now) = Issued(none) /\ Sound(none, now) /\ none \in Seq(EntryBy(now))
  BY <1>1, NoGrants
<1>. HIDE DEF q, none
<1>4. d \in DataBy(now) /\ d.entries = none /\ Alike(d, q)
  <2>1. d = [q EXCEPT !.entries = none]
    OBVIOUS
  <2>. HIDE DEF d
  <2>. QED  BY ONLY <1>1, <1>3, <2>1, OtherEntries
<1>. HIDE DEF d
<1>5. CoherentDebt(d)
  BY <1>1, <1>4, CoherentAlike DEF Alike
<1>6. Current(d, now, none)
  BY <1>3, <1>4, <1>5 DEF Current
<1>. QED  BY <1>1, <1>2, <1>3, <1>6, Persisted

\* Debt that is accrued is capped by the guard, and the ceiling computed anew.
LEMMA AccrueInv ==
    ASSUME IndInv, NEW w \in Weights, accrueDebt(w)
    PROVE  IndInv'
<1>. DEFINE q == Loaded
            d == [q EXCEPT !.debt = @ + w]
            m == WithCeiling(d)
<1>1. q \in DataBy(now) /\ (q.trusted => q.days > TrustDays)
  BY LoadedFields
<1>2. q.debt + w <= MaxDebt /\ persist(m) /\ granted' = granted /\ now' = now
  BY DEF accrueDebt
<1>. HIDE DEF q
<1>3. q.debt + w \in 0..MaxDebt
  <2>1. q.debt \in 0..MaxDebt /\ MaxDebt \in Nat /\ w \in Nat
    BY <1>1, DataFields, QuotaAssumption
  <2>. QED  BY <1>2, <2>1
<1>4. /\ d \in DataBy(now) /\ d.entries = q.entries
      /\ d.trusted = q.trusted /\ d.days = q.days
  BY <1>1, <1>3 DEF DataBy
<1>. HIDE DEF d
<1>5. m \in DataBy(now) /\ m.entries = d.entries /\ CoherentDebt(m)
  BY <1>1, <1>4, CeilingCoherent
<1>. HIDE DEF m
<1>. QED  BY <1>2, <1>4, <1>5, SameEntries DEF q

\* Debt that is worked off does not fall below zero.
LEMMA DecrementInv ==
    ASSUME IndInv, NEW w \in Weights, decrementDebt(w)
    PROVE  IndInv'
<1>. DEFINE q == Loaded
            left == IF q.debt > w THEN q.debt - w ELSE 0
            d == [q EXCEPT !.debt = IF @ > w THEN @ - w ELSE 0, !.contributed = @ + w]
            m == WithCeiling(d)
<1>1. q \in DataBy(now) /\ (q.trusted => q.days > TrustDays)
  BY LoadedFields
<1>2. q.contributed + w <= MaxContributed /\ persist(m) /\ granted' = granted /\ now' = now
  BY DEF decrementDebt
<1>. HIDE DEF q
<1>3. q.contributed + w \in 0..MaxContributed /\ left \in 0..MaxDebt
  <2>1. /\ q.debt \in 0..MaxDebt /\ MaxDebt \in Nat /\ w \in Nat
        /\ q.contributed \in 0..MaxContributed /\ MaxContributed \in Nat
    BY <1>1, DataFields, QuotaAssumption
  <2>. QED  BY <1>2, <2>1
<1>4. /\ d \in DataBy(now) /\ d.entries = q.entries
      /\ d.trusted = q.trusted /\ d.days = q.days
  <2>. DEFINE given == q.contributed + w
              a == [q EXCEPT !.debt = left]
  <2>1. d = [a EXCEPT !.contributed = given]
    BY <1>1 DEF DataBy
  <2>2. given \in 0..MaxContributed /\ left \in 0..MaxDebt
    BY <1>3
  <2>. HIDE DEF d, left, given
  <2>3. a \in DataBy(now) /\ a.entries = q.entries /\ a.trusted = q.trusted /\ a.days = q.days
    BY <1>1, <2>2, OtherDebt
  <2>. HIDE DEF a
  <2>. QED  BY <2>1, <2>2, <2>3, OtherContribution
<1>. HIDE DEF d
<1>5. m \in DataBy(now) /\ m.entries = d.entries /\ CoherentDebt(m)
  BY <1>1, <1>4, CeilingCoherent
<1>. HIDE DEF m
<1>. QED  BY <1>2, <1>4, <1>5, SameEntries DEF q

\* A fifth of a debt, rounded down, is no more than the debt.
LEMMA FifthOff ==
    ASSUME NEW n \in Nat
    PROVE  n - (2 * n) \div 10 \in 0..n
<1>. DEFINE a == 2 * n
            f == a \div 10
<1>1. a \in Nat /\ f \in Nat /\ 10 * f <= a
  OBVIOUS
<1>. HIDE DEF f
<1>. QED  BY <1>1

\* Midnight: a day without debt is counted, and a day in debt ends the trust.
LEMMA AlarmInv ==
    ASSUME IndInv, alarm
    PROVE  IndInv'
<1>. DEFINE q == Loaded
            free == [q EXCEPT !.contributed = 0, !.days = @ + 1,
                              !.trusted = @ \/ q.days + 1 > TrustDays]
            rest == q.debt - (2 * q.debt) \div 10
            owed == [q EXCEPT !.contributed = 0, !.days = 0, !.trusted = FALSE,
                              !.debt = @ - (2 * @) \div 10]
            d == IF q.debt = 0 THEN free ELSE owed
            m == WithCeiling(d)
<1>1. q \in DataBy(now) /\ (q.trusted => q.days > TrustDays)
  BY LoadedFields
<1>2. /\ q.debt = 0 => q.days < MaxDays
      /\ persist(m) /\ granted' = granted /\ now' = now
  BY DEF alarm, processDailyDebtReset
<1>. HIDE DEF q
<1>3. /\ q.debt \in 0..MaxDebt /\ MaxDebt \in Nat /\ q.days \in 0..MaxDays /\ MaxDays \in Nat
      /\ q.trusted \in BOOLEAN /\ TrustDays \in Nat /\ 0 \in 0..MaxContributed
  <2>1. MaxContributed \in Nat
    BY QuotaAssumption
  <2>. QED  BY <1>1, <2>1, DataFields
<1>4. ASSUME q.debt = 0
      PROVE  /\ free \in DataBy(now) /\ free.entries = q.entries
             /\ free.trusted => free.days > TrustDays
  <2>. DEFINE n == q.days + 1
              t == q.trusted \/ n > TrustDays
  <2>1. n \in 0..MaxDays /\ t \in BOOLEAN /\ (t => n > TrustDays)
    BY <1>1, <1>2, <1>3, <1>4
  <2>. DEFINE a == [q EXCEPT !.contributed = 0]
              b == [a EXCEPT !.days = n]
  <2>2. free = [b EXCEPT !.trusted = t]
    BY <1>1 DEF DataBy
  <2>. HIDE DEF free, t, n
  <2>3. a \in DataBy(now) /\ a.entries = q.entries
    BY <1>1, <1>3, OtherContribution
  <2>. HIDE DEF a
  <2>4. b \in DataBy(now) /\ b.entries = a.entries /\ b.days = n
    BY <2>1, <2>3, OtherDays
  <2>. HIDE DEF b
  <2>5. free \in DataBy(now) /\ free.entries = b.entries /\ free.trusted = t /\ free.days = b.days
    BY <2>1, <2>2, <2>4, OtherTrust
  <2>. QED  BY <2>1, <2>3, <2>4, <2>5
<1>5. owed \in DataBy(now) /\ owed.entries = q.entries /\ owed.trusted = FALSE
  <2>1. rest \in 0..MaxDebt /\ 0 \in 0..MaxDays
    <3>1. rest \in 0..q.debt
      BY <1>3, FifthOff
    <3>. HIDE DEF rest
    <3>. QED  BY <1>3, <3>1
  <2>. DEFINE a == [q EXCEPT !.contributed = 0]
              b == [a EXCEPT !.days = 0]
              no == FALSE
              c == [b EXCEPT !.trusted = no]
  <2>2. owed = [c EXCEPT !.debt = rest]
    BY <1>1 DEF DataBy
  <2>. HIDE DEF owed, rest
  <2>3. a \in DataBy(now) /\ a.entries = q.entries
    BY <1>1, <1>3, OtherContribution
  <2>. HIDE DEF a
  <2>4. b \in DataBy(now) /\ b.entries = a.entries
    BY <2>1, <2>3, OtherDays
  <2>. HIDE DEF b
  <2>5. no \in BOOLEAN
    OBVIOUS
  <2>. HIDE DEF no
  <2>6. c \in DataBy(now) /\ c.entries = b.entries /\ c.trusted = no
    BY <2>4, <2>5, OtherTrust
  <2>. HIDE DEF c
  <2>7. owed \in DataBy(now) /\ owed.entries = c.entries /\ owed.trusted = c.trusted
    BY <2>1, <2>2, <2>6, OtherDebt
  <2>. QED  BY <2>3, <2>4, <2>6, <2>7 DEF no
<1>. HIDE DEF free, owed
<1>6. d \in DataBy(now) /\ d.entries = q.entries /\ (d.trusted => d.days > TrustDays)
  BY <1>4, <1>5
<1>. HIDE DEF d
<1>7. m \in DataBy(now) /\ m.entries = d.entries /\ CoherentDebt(m)
  BY <1>6, CeilingCoherent
<1>. HIDE DEF m
<1>. QED  BY <1>2, <1>6, <1>7, SameEntries DEF q

\* Without memory the stored record is what counts.
LEMMA EvictInv ==
    ASSUME IndInv, Evict
    PROVE  IndInv'
<1>1. /\ isLoaded' = FALSE /\ mem' = initialData /\ disk' = disk /\ now' = now
      /\ granted' = granted
  BY DEF Evict
<1>2. now \in Nat /\ Current(disk, now, granted) /\ Sound(granted, now)
  BY DEF IndInv, Right
<1>3. initialData \in DataBy(now)
  BY <1>2, Fresh
<1>. QED  BY <1>1, <1>2, <1>3 DEF IndInv, Right

\* A record stays current when a second passes.
LEMMA CurrentLater ==
    ASSUME NEW u \in Nat, NEW d, NEW g, Current(d, u, g), Sound(g, u)
    PROVE  d \in DataBy(u + 1) /\ Current(d, u + 1, PruneAt(g, u + 1))
<1>. DEFINE w == u + 1
<1>1. w \in Nat /\ u <= w /\ u \in Int /\ w \in Int
  OBVIOUS
<1>. HIDE DEF w
<1>2. d \in DataBy(u) /\ d.entries \in Seq(EntryBy(u)) /\ CoherentDebt(d)
      /\ PruneAt(d.entries, u) = Issued(g)
  BY DataFields DEF Current
<1>3. d.entries \in Seq(EntryBy(w)) /\ d.entries \in Seq(Entry)
  BY <1>1, <1>2, Later
<1>4. d \in DataBy(w)
  BY <1>2, <1>3 DEF DataBy
<1>5. g \in Seq(Grant)
  BY Later DEF Sound
<1>6. PruneAt(d.entries, w) = Issued(PruneAt(g, w))
  <2>1. PruneAt(PruneAt(d.entries, u), w) = PruneAt(d.entries, w)
    BY <1>1, <1>3, Types, PruneTwice
  <2>2. Issued(PruneAt(g, w)) = PruneAt(Issued(g), w)
    BY <1>5, IssuedPruned
  <2>. QED  BY <1>2, <2>1, <2>2
<1>. QED  BY <1>2, <1>4, <1>6 DEF Current, w

\* The clock.
LEMMA TickInv ==
    ASSUME IndInv, Tick
    PROVE  IndInv'
<1>. DEFINE w == now + 1
            g == PruneAt(granted, w)
<1>1. /\ now' = w /\ granted' = g /\ isLoaded' = isLoaded /\ mem' = mem /\ disk' = disk
  BY DEF Tick
<1>2. /\ isLoaded \in BOOLEAN /\ mem \in DataBy(now) /\ now \in Nat
      /\ Current(disk, now, granted) /\ Sound(granted, now)
      /\ isLoaded => Current(mem, now, granted) /\ Alike(mem, disk)
  BY DEF IndInv, Right
<1>3. w \in Nat /\ now <= w
  BY <1>2
<1>4. Current(disk, w, g)
  BY <1>2, CurrentLater
<1>5. isLoaded => Current(mem, w, g) /\ Alike(mem, disk)
  BY <1>2, CurrentLater
<1>6. mem \in DataBy(w)
  <2>1. mem.entries \in Seq(EntryBy(w))
    BY <1>2, <1>3, DataFields, Later
  <2>. HIDE DEF w
  <2>. QED  BY <1>2, <2>1 DEF DataBy
<1>7. Sound(g, w)
  BY <1>2, <1>3, SoundPruned
<1>. HIDE DEF w, g
<1>8. Right(isLoaded, mem, disk, w, g)
  BY <1>2, <1>3, <1>4, <1>5, <1>6, <1>7 DEF Right
<1>. QED  BY <1>1, <1>8 DEF IndInv

\* Every step keeps the invariant.
LEMMA NextInv == IndInv /\ [Next]_vars => IndInv'
<1>. SUFFICES ASSUME IndInv, [Next]_vars PROVE IndInv'
  OBVIOUS
<1>1. CASE Read
  BY <1>1, ReadInv
<1>2. ASSUME NEW tier \in Tiers, NEW p \in Projects \cup {NoProject},
             NEW cap \in SubCaps \cup {NoSubCap}, NEW count \in Counts,
             consumeQuota(tier, p, cap, count)
      PROVE  IndInv'
  BY <1>2, ConsumeInv
<1>3. ASSUME NEW tier \in Tiers, setTier(tier)
      PROVE  IndInv'
  BY <1>3, SetTierInv
<1>4. CASE reset
  BY <1>4, ResetInv
<1>5. ASSUME NEW w \in Weights, accrueDebt(w)
      PROVE  IndInv'
  BY <1>5, AccrueInv
<1>6. ASSUME NEW w \in Weights, decrementDebt(w)
      PROVE  IndInv'
  BY <1>6, DecrementInv
<1>7. CASE alarm
  BY <1>7, AlarmInv
<1>8. CASE Evict
  BY <1>8, EvictInv
<1>9. CASE Tick
  BY <1>9, TickInv
<1>10. CASE UNCHANGED vars
  BY <1>10 DEF IndInv, vars
<1>. QED  BY ONLY [Next]_vars, <1>1, <1>2, <1>3, <1>4, <1>5, <1>6, <1>7, <1>8, <1>9, <1>10
          DEF Next

-----------------------------------------------------------------------------
(* The results *)

\* The record in memory and the stored one, pruned, hold the entries of the grants
\* of the day, the oldest first, and the same debt, with its own ceiling; and no
\* grant passed a limit.
THEOREM Invariance == Spec => []IndInv
<1>1. Init => IndInv
  BY InitInv
<1>2. IndInv /\ [Next]_vars => IndInv'
  BY NextInv
<1>. QED  BY <1>1, <1>2, PTL DEF Spec

\* Every variable keeps its type.
THEOREM TypeCorrect == Spec => []TypeOK
<1>1. IndInv => TypeOK
  BY DEF IndInv, Right, Current, Sound, TypeOK, Data, DataBy, EntryBy, GrantBy
<1>. QED  BY <1>1, Invariance, PTL

\* No tenant was ever granted more than its tier's limits, nor a project more than
\* its sub-cap, in the windows that end with a grant: whatever was evicted, pruned,
\* refused or changed of tier in between (consumeQuota).
THEOREM QuotaKept == Spec => []NeverOvergranted
<1>1. IndInv => NeverOvergranted
  BY DEF IndInv, Right, Sound, NeverOvergranted
<1>. QED  BY <1>1, Invariance, PTL

\* The oldest entry of a window that is used up, and what is left when it leaves.
LEMMA OldestLeaves ==
    ASSUME NEW u \in Nat, NEW r \in Seq(Entry), Ascends(r),
           NEW P, P = Within(r, u, RpmWindow), P # {},
           NEW limit \in Nat, CountAt(r, P) = limit,
           NEW v \in Nat, NEW w \in Nat,
           r[Min(P)].timestamp + RpmWindow <= v, w < r[Min(P)].timestamp + RpmWindow
    PROVE  /\ ~Exceeds(CountAt(r, Within(r, v, RpmWindow)) + 1, limit)
           /\ Exceeds(CountAt(r, Within(r, w, RpmWindow)) + 1, limit)
<1>. DEFINE k == Min(P)
            n == Len(r)
<1>1. /\ n \in Nat /\ DOMAIN r = 1..n
      /\ \A i \in 1..n : r[i] \in Entry /\ r[i].timestamp \in Nat
                         /\ r[i].count \in Nat /\ r[i].count >= 1
  BY ListOf, Types DEF Timed
<1>2. P \subseteq 1..n /\ RpmWindow \in Nat /\ limit # Unlimited
  BY <1>1, Types, QuotaAssumption DEF Within
<1>3. k \in P /\ \A i \in P : k <= i
  <2>. HIDE DEF n
  <2>1. \E m \in P : \A i \in P : m <= i
    BY <1>1, <1>2, Least
  <2>. QED  BY <2>1 DEF Min
<1>. HIDE DEF k, n
<1>. DEFINE s == r[k].timestamp
            A == Within(r, v, RpmWindow)
            B == Within(r, w, RpmWindow)
            rest == P \ {k}
<1>4. k \in 1..n /\ s \in Nat /\ s > u - RpmWindow /\ r[k].count \in Nat /\ r[k].count >= 1
  BY <1>1, <1>2, <1>3 DEF Within
<1>. HIDE DEF s
<1>5. s <= v - RpmWindow /\ w - RpmWindow < s
  BY <1>2, <1>4 DEF s, k
<1>6. A \subseteq rest /\ rest \subseteq P /\ P = rest \cup {k} /\ k \notin rest
  <2>1. ASSUME NEW i \in A
        PROVE  i \in P /\ i # k
    <3>1. i \in 1..n /\ r[i].timestamp > v - RpmWindow
      BY <1>1 DEF Within
    <3>2. r[i].timestamp \in Nat /\ r[i].timestamp > s
      BY <1>1, <1>2, <1>4, <1>5, <3>1
    <3>3. r[i].timestamp > u - RpmWindow
      BY <1>2, <1>4, <3>2
    <3>4. i \in Within(r, u, RpmWindow)
      BY <1>1, <3>1, <3>3 DEF Within
    <3>5. i # k
      BY <1>4, <3>2 DEF s
    <3>. QED  BY <3>4, <3>5
  <2>. HIDE DEF A
  <2>. QED  BY <1>3, <2>1
<1>7. P \subseteq B /\ B \subseteq 1..n
  <2>1. ASSUME NEW i \in P
        PROVE  i \in B
    <3>1. i \in 1..n /\ (k = i \/ k < i)
      BY <1>2, <1>3, <1>4
    <3>2. s <= r[i].timestamp
      <4>1. k < i => r[k].timestamp <= r[i].timestamp
        BY <1>1, <1>4, <3>1 DEF Ascends
      <4>. QED  BY <1>1, <1>4, <3>1, <4>1 DEF s
    <3>3. r[i].timestamp > w - RpmWindow
      BY <1>1, <1>2, <1>4, <1>5, <3>1, <3>2
    <3>. QED  BY <1>1, <3>1, <3>3 DEF Within
  <2>. QED  BY <1>1, <2>1 DEF Within
<1>. HIDE DEF A, B, rest
<1>8. CountAt(r, A) \in Nat /\ CountAt(r, rest) \in Nat /\ CountAt(r, B) \in Nat
      /\ CountAt(r, A) <= CountAt(r, rest) /\ CountAt(r, P) <= CountAt(r, B)
  <2>1. A \subseteq DOMAIN r /\ rest \subseteq DOMAIN r /\ B \subseteq DOMAIN r
    BY <1>1, <1>2, <1>6, <1>7
  <2>. QED  BY <1>6, <1>7, <2>1, Types, CountSum, CountLess
<1>9. CountAt(r, P) = CountAt(r, rest) + r[k].count
  <2>1. rest \subseteq DOMAIN r /\ k \in DOMAIN r /\ k \notin rest
    BY <1>1, <1>2, <1>4, <1>6
  <2>2. CountAt(r, rest \cup {k}) = CountAt(r, rest) + r[k].count
    BY <2>1, Types, CountAdd
  <2>. QED  BY <1>6, <2>2
<1>10. ~Exceeds(CountAt(r, A) + 1, limit) /\ Exceeds(CountAt(r, B) + 1, limit)
  <2>1. CountAt(r, A) + 1 <= limit /\ CountAt(r, B) + 1 > limit
    BY ONLY <1>4, <1>8, <1>9, CountAt(r, P) = limit
  <2>. QED  BY ONLY <1>2, <1>8, <2>1, limit \in Nat DEF Exceeds
<1>. QED  BY <1>10 DEF A, B

\* The entry that leaves first is one of the list, and in the window.
LEMMA OldestIsThere ==
    ASSUME NEW u \in Nat, NEW r \in Seq(Entry), NEW P, P = Within(r, u, RpmWindow), P # {}
    PROVE  r[Min(P)].timestamp \in Nat /\ r[Min(P)].timestamp > u - RpmWindow
<1>1. /\ Len(r) \in Nat /\ DOMAIN r = 1..Len(r)
      /\ \A i \in 1..Len(r) : r[i].timestamp \in Nat
  BY ListOf, Types DEF Timed
<1>2. P \subseteq 1..Len(r) /\ \A i \in P : r[i].timestamp > u - RpmWindow
  BY <1>1 DEF Within
<1>3. \E m \in P : \A i \in P : m <= i
  BY <1>1, <1>2, Least
<1>4. Min(P) \in P
  BY <1>3 DEF Min
<1>. QED  BY <1>1, <1>2, <1>4

\* Math.max(1, Math.ceil(ms / 1000)): whole seconds that reach a span of time,
\* which one second less does not.
LEMMA SecondsReach ==
    ASSUME NEW y \in Nat \ {0}, NEW c, c = SecondsToWait(y)
    PROVE  /\ c * MsPerSecond \in Nat /\ (c - 1) * MsPerSecond \in Nat
           /\ y <= c * MsPerSecond /\ (c - 1) * MsPerSecond < y
<1>. DEFINE M == MsPerSecond
            z == y + M - 1
            q == z \div M
            u == z % M
<1>1. M \in Nat \ {0}
  BY QuotaAssumption
<1>. HIDE DEF M
<1>2. z \in Nat
  BY <1>1
<1>3. c = Max({1, q})
  BY DEF M, SecondsToWait
<1>4. z = M * q + u /\ u \in 0..(M - 1) /\ q \in Int
  <2>. HIDE DEF z
  <2>. QED  BY <1>1, <1>2
<1>. HIDE DEF u, q
<1>5. M * q \in Int /\ y <= M * q /\ M * q < y + M
  <2>1. M * q \in Int
    BY <1>1, <1>4
  <2>. DEFINE a == M * q
  <2>. HIDE DEF a
  <2>. QED  BY <1>1, <1>4, <2>1 DEF a
<1>6. q \in Nat \ {0}
  <2>1. CASE q <= 0
    <3>1. PICK d \in Nat : q = 0 - d
      BY <1>4, <2>1
    <3>2. M * d \in Nat /\ M * q = 0 - M * d
      BY <1>1, <3>1
    <3>. QED  BY <1>5, <3>2
  <2>. QED  BY <1>4, <2>1
<1>7. c = q
  <2>1. /\ q \in {1, q} /\ \A x \in {1, q} : q >= x
        /\ \A m \in {1, q} : (\A x \in {1, q} : m >= x) => m = q
    BY <1>6
  <2>2. Max({1, q}) = q
    BY <2>1 DEF Max
  <2>. QED  BY <1>3, <2>2
<1>8. q * M = M * q /\ (q - 1) * M = M * q - M /\ (q - 1) * M \in Nat
  <2>1. PICK d \in Nat : q = d + 1
    BY <1>6
  <2>2. d * M \in Nat
    BY <1>1
  <2>. QED  BY <1>1, <2>1, <2>2
<1>9. q * M \in Nat /\ y <= q * M /\ (q - 1) * M < y
  BY <1>1, <1>5, <1>6, <1>8
<1>. QED  BY <1>7, <1>8, <1>9 DEF M

\* A request refused for its minute that waits as many seconds as it was told is
\* not refused for it again, and after one fewer it is: Math.ceil of the
\* milliseconds until the oldest entry leaves (calculateRpmRetryAfter).
THEOREM RetryIsExact == Spec => []RetryAfterExact
<1>1. ASSUME IndInv
      PROVE  RetryAfterExact
  <2>. DEFINE r == Prune(Loaded.entries)
              P == Within(r, now, RpmWindow)
              wait == calculateRpmRetryAfter(r)
  <2>1. Current(Loaded, now, granted) /\ now \in Nat /\ Sound(granted, now)
    BY <1>1, LoadedCurrent DEF IndInv, Right
  <2>2. r = Issued(granted) /\ granted \in Seq(Grant)
    BY <2>1, Later DEF Current, Prune, Sound
  <2>. HIDE DEF r
  <2>3. r \in Seq(Entry) /\ Ascends(r) /\ DOMAIN r = DOMAIN granted
    <3>1. /\ r \in Seq(Entry) /\ DOMAIN r = DOMAIN granted
          /\ \A i \in DOMAIN granted : r[i].timestamp = granted[i].timestamp
      BY <2>2, IssuedList
    <3>. QED  BY <2>1, <3>1 DEF Sound, Ascends
  <2>4. P \subseteq DOMAIN r
    BY DEF Within
  <2>5. ASSUME NEW limit \in {RpmLimit[tier] : tier \in Tiers} \ {0},
               calculateUsage(r, RpmWindow) = limit
        PROVE  /\ ~Exceeds(CountAt(r, Within(r, now + wait * MsPerSecond, RpmWindow)) + 1, limit)
               /\ Exceeds(CountAt(r, Within(r, now + (wait - 1) * MsPerSecond, RpmWindow)) + 1, limit)
    <3>1. CountAt(r, P) = limit /\ limit # 0
      BY <2>5 DEF calculateUsage
    <3>2. limit \in Nat
      <4>. HIDE DEF P
      <4>. QED  BY <2>3, <2>4, <3>1, Types, CountSum
    <3>3. P # {}
      BY <3>1, CountNone
    <3>. DEFINE s == r[Min(P)].timestamp
                y == s + RpmWindow - now
                v == wait * MsPerSecond
                w == (wait - 1) * MsPerSecond
    <3>4. wait = SecondsToWait(y)
      BY <3>3 DEF calculateRpmRetryAfter
    <3>5. P = Within(r, now, RpmWindow)
      OBVIOUS
    <3>. HIDE DEF wait, P
    <3>6. s \in Nat /\ s > now - RpmWindow
      BY <2>1, <2>3, <3>3, <3>5, OldestIsThere
    <3>. HIDE DEF s
    <3>7. y \in Nat \ {0} /\ s + RpmWindow = now + y
      BY <2>1, <3>6, Types
    <3>. HIDE DEF y
    <3>8. v \in Nat /\ w \in Nat /\ y <= v /\ w < y
      BY ONLY <3>4, <3>7, SecondsReach DEF v, w
    <3>. HIDE DEF v, w
    <3>9. /\ now + v \in Nat /\ now + w \in Nat
          /\ s + RpmWindow <= now + v /\ now + w < s + RpmWindow
      BY <2>1, <3>7, <3>8
    <3>10. /\ ~Exceeds(CountAt(r, Within(r, now + v, RpmWindow)) + 1, limit)
           /\ Exceeds(CountAt(r, Within(r, now + w, RpmWindow)) + 1, limit)
      BY <2>1, <2>3, <3>1, <3>2, <3>3, <3>5, <3>9, OldestLeaves DEF s
    <3>. QED  BY <3>10 DEF v, w
  <2>. QED  BY <2>5 DEF RetryAfterExact, r
<1>. QED  BY <1>1, Invariance, PTL

\* The record survives evictions, whatever the memory was pruned of and the storage
\* was not, and its ceiling and trust are those of its debt (load and persist).
THEOREM RecordIsExact == Spec => []RecordExact
<1>1. ASSUME IndInv, isLoaded
      PROVE  [mem EXCEPT !.entries = Prune(@)] = [disk EXCEPT !.entries = Prune(@)]
  <2>. DEFINE a == [mem EXCEPT !.entries = PruneAt(@, now)]
              b == [disk EXCEPT !.entries = PruneAt(@, now)]
  <2>1. /\ now \in Nat /\ Current(mem, now, granted) /\ Current(disk, now, granted)
        /\ Alike(mem, disk)
    BY <1>1 DEF IndInv, Right
  <2>2. /\ Current(a, now, granted) /\ Alike(a, mem) /\ a.entries = Issued(granted)
        /\ Current(b, now, granted) /\ Alike(b, disk) /\ b.entries = Issued(granted)
    <3>1. ASSUME NEW d, Current(d, now, granted), NEW m, m = [d EXCEPT !.entries = PruneAt(@, now)]
          PROVE  Current(m, now, granted) /\ Alike(m, d) /\ m.entries = Issued(granted)
      BY <2>1, <3>1, PrunedCurrent
    <3>. QED  BY <2>1, <3>1
  <2>. HIDE DEF a, b
  <2>3. a \in DataBy(now) /\ b \in DataBy(now)
    BY <2>2 DEF Current
  <2>4. a = b
    BY <2>1, <2>2, <2>3 DEF DataBy, Alike, SameDebt
  <2>. QED  BY <2>4 DEF a, b, Prune
<1>2. IndInv => EvictionTransparent
  <2>1. IndInv => TypeOK
    BY DEF IndInv, Right, Current, Sound, TypeOK, Data, DataBy, EntryBy, GrantBy
  <2>. QED  BY <1>1, <2>1 DEF EvictionTransparent
<1>3. IndInv => DebtCoherent
  BY LoadedFields DEF DebtCoherent
<1>4. IndInv => RecordExact
  BY <1>2, <1>3 DEF RecordExact
<1>. QED  BY <1>4, Invariance, PTL

-----------------------------------------------------------------------------
(* The demo sandbox (Demo), the other object that counts requests in sliding *)
(* windows.                                                                 *)

-----------------------------------------------------------------------------
(* Lists of times.                                                         *)

\* The places of a list past the c-th with times later than t, and the times.
Past(s, c, t) == {i \in DOMAIN s : i > c /\ s[i] > t}
Since(s, c, t) == Through(s, Past(s, c, t))

\* No time of the list is later.
Before(s, u) == \A i \in DOMAIN s : s[i] <= u

\* The times of a list that are later than t are a list.
LEMMA SinceList ==
    ASSUME NEW s \in Seq(Nat), NEW c \in Nat, NEW t \in Int
    PROVE  /\ Since(s, c, t) \in Seq(Nat)
           /\ Len(Since(s, c, t)) = Cardinality(Past(s, c, t))
           /\ \A j \in DOMAIN Since(s, c, t) : Since(s, c, t)[j] > t
           /\ \A u : Before(s, u) => Before(Since(s, c, t), u)
<1>. DEFINE P == Past(s, c, t)
            q == Since(s, c, t)
<1>1. P \subseteq 1..Len(s) /\ \A p \in P : s[p] > t
  BY ListOf DEF Past
<1>2. q = Through(s, P)
  BY DEF Since
<1>. HIDE DEF P, q
<1>3. q \in Seq(Nat) /\ Len(q) = Cardinality(P) /\ TakenFrom(q, s, P)
  BY <1>1, <1>2, ThroughList
<1>4. DOMAIN q = 1..Len(q)
  BY <1>3, ListOf
<1>5. DOMAIN s = 1..Len(s)
  BY ListOf
<1>. QED  BY <1>1, <1>3, <1>4, <1>5 DEF TakenFrom, Before, P, q

\* Of the times later than t those later than w.
LEMMA SinceTwice ==
    ASSUME NEW s \in Seq(Nat), NEW c \in Nat, NEW t \in Int, NEW w \in Int, t <= w
    PROVE  Since(Since(s, c, t), 0, w) = Since(s, c, w)
<1>. DEFINE P == Past(s, c, t)
            U == Past(s, c, w)
            X == {e \in Nat : e > w}
            q == Since(s, c, t)
            T == Past(q, 0, w)
<1>1. \A i \in DOMAIN s : s[i] \in Nat
  BY ListOf
<1>2. P \subseteq DOMAIN s /\ Passing(U, s, P, X)
  BY <1>1 DEF Past, Passing
<1>3. Passing(T, q, DOMAIN q, X)
  <2>. HIDE DEF q
  <2>1. q \in Seq(Nat)
    BY SinceList DEF q
  <2>2. \A j \in DOMAIN q : q[j] \in Nat /\ j > 0
    BY <2>1, ListOf
  <2>. QED  BY <2>2 DEF Past, Passing
<1>4. q = Through(s, P)
  BY DEF Since
<1>5. Through(q, T) = Through(s, U)
  <2>. HIDE DEF P, U, X, T, q
  <2>. QED  BY <1>2, <1>3, <1>4, ThroughTwice
<1>. QED  BY <1>5 DEF Since

\* A time that joins a list of times, and passes the filter, joins what passes.
LEMMA TimeJoins ==
    ASSUME NEW s \in Seq(Nat), NEW P, P \subseteq DOMAIN s, NEW e \in Nat,
           NEW W, W = P \cup {Len(s) + 1}
    PROVE  Through(Append(s, e), W) = Append(Through(s, P), e)
<1>1. PICK R : R = Nat
  OBVIOUS
<1>2. s \in Seq(R) /\ e \in R
  BY ONLY <1>1, s \in Seq(Nat), e \in Nat
<1>3. P \subseteq DOMAIN s /\ W = P \cup {Len(s) + 1}
  OBVIOUS
<1>. QED  BY <1>2, <1>3, ThroughAppend

\* A list that is longer by a later time.
LEMMA SinceAppend ==
    ASSUME NEW s \in Seq(Nat), NEW c \in 0..Len(s), NEW t \in Int, NEW u \in Nat, u > t
    PROVE  /\ Since(Append(s, u), c, t) = Append(Since(s, c, t), u)
           /\ Past(Append(s, u), c, t) = Past(s, c, t) \cup {Len(s) + 1}
<1>. DEFINE P == Past(s, c, t)
            z == Append(s, u)
            W == Past(z, c, t)
            n == Len(s)
<1>1. n \in Nat /\ DOMAIN s = 1..n /\ c \in 0..n
  BY ListOf
<1>2. DOMAIN z = 1..(n + 1) /\ (\A i \in 1..n : z[i] = s[i]) /\ z[n + 1] = u
  <2>. HIDE DEF z, n
  <2>1. z \in Seq(Nat) /\ Len(z) = n + 1 /\ (\A i \in 1..n : z[i] = s[i]) /\ z[n + 1] = u
    BY AppendProperties DEF z, n
  <2>. QED  BY <2>1, ListOf
<1>3. W = P \cup {n + 1} /\ P \subseteq DOMAIN s
  <2>. HIDE DEF z, n
  <2>1. \A i \in 1..(n + 1) : i \in 1..n \/ i = n + 1
    BY <1>1
  <2>2. 1..n \subseteq 1..(n + 1) /\ n + 1 \in 1..(n + 1) /\ n + 1 > c
    BY <1>1
  <2>. QED  BY <1>1, <1>2, <2>1, <2>2 DEF Past
<1>4. Through(Append(s, u), W) = Append(Through(s, P), u)
  <2>1. P \subseteq DOMAIN s /\ W = P \cup {Len(s) + 1}
    BY <1>3
  <2>. HIDE DEF P, W, z, n
  <2>. QED  BY ONLY <2>1, s \in Seq(Nat), u \in Nat, TimeJoins
<1>. QED  BY <1>3, <1>4 DEF Since

\* Each time is no earlier than the one before.
Ascending(s) == \A i, j \in DOMAIN s : i <= j => s[i] <= s[j]

\* A list that keeps a limit keeps it when a time is added that the limit has
\* still room for.
LEMMA LimitKept ==
    ASSUME NEW s \in Seq(Nat), NEW u \in Nat, NEW span \in Nat \ {0}, NEW limit \in Nat \ {0},
           AtMostIn(s, span, limit), Cardinality(Past(s, 0, u - span)) < limit
    PROVE  AtMostIn(Append(s, u), span, limit)
<1>. DEFINE P == Past(s, 0, u - span)
            z == Append(s, u)
            n == Len(s)
<1>1. n \in Nat /\ DOMAIN s = 1..n /\ (\A i \in 1..n : s[i] \in Nat)
  BY ListOf
<1>2. Len(z) = n + 1 /\ (\A i \in 1..n : z[i] = s[i]) /\ z[n + 1] = u
  <2>. HIDE DEF z, n
  <2>. QED  BY AppendProperties DEF z, n
<1>3. IsFiniteSet(P) /\ Cardinality(P) \in Nat /\ n + 1 \notin P /\ P \subseteq 1..n
  <2>1. P \subseteq 1..n /\ n + 1 \notin 1..n
    BY <1>1 DEF Past
  <2>. HIDE DEF P, n
  <2>2. IsFiniteSet(1..n)
    BY <1>1, FS_Interval
  <2>. QED  BY <2>1, <2>2, FS_Subset, FS_CardinalityType
<1>4. Span(z, n + 1, span) = P \cup {n + 1}
  <2>1. \A i \in 1..(n + 1) : i \in 1..n \/ i = n + 1
    BY <1>1
  <2>2. 1..n \subseteq 1..(n + 1) /\ n + 1 \in 1..(n + 1) /\ u > u - span
    BY <1>1
  <2>3. \A i \in 1..n : i > 0
    BY <1>1
  <2>. HIDE DEF z, n
  <2>. QED  BY <1>1, <1>2, <2>1, <2>2, <2>3 DEF Span, Past
<1>5. Cardinality(P \cup {n + 1}) = Cardinality(P) + 1
  <2>. HIDE DEF P, n
  <2>. QED  BY <1>3, FS_AddElement
<1>6. \A i \in 1..n : Span(z, i, span) = Span(s, i, span)
  <2>. HIDE DEF z, n
  <2>1. \A i \in 1..n : 1..i \subseteq 1..n /\ i \in 1..n
    BY <1>1
  <2>. QED  BY <1>1, <1>2, <2>1 DEF Span
<1>7. \A i \in 1..n : Cardinality(Span(s, i, span)) <= limit
  BY DEF AtMostIn
<1>8. Cardinality(Span(z, n + 1, span)) <= limit
  <2>. HIDE DEF P, z, n
  <2>1. Cardinality(P \cup {n + 1}) = Cardinality(P) + 1
    BY <1>5
  <2>2. Cardinality(P) < limit
    BY DEF P
  <2>3. Cardinality(Span(z, n + 1, span)) = Cardinality(P) + 1
    BY ONLY <1>4, <2>1, Zenon
  <2>. QED  BY <1>3, <2>2, <2>3
<1>9. \A i \in 1..(n + 1) : i \in 1..n \/ i = n + 1
  BY <1>1
<1>. HIDE DEF z, n
<1>. QED  BY <1>2, <1>6, <1>7, <1>8, <1>9 DEF AtMostIn, z

\* A list with a time added, that is later than all.
LEMMA AppendTime ==
    ASSUME NEW s \in Seq(Nat), NEW u \in Nat
    PROVE  /\ Append(s, u) \in Seq(Nat) /\ Len(Append(s, u)) = Len(s) + 1 /\ Len(s) \in Nat
           /\ \A i \in 1..Len(s) : Append(s, u)[i] = s[i] /\ s[i] \in Nat
           /\ Append(s, u)[Len(s) + 1] = u
           /\ Ascending(s) /\ Before(s, u) => Ascending(Append(s, u))
<1>. DEFINE n == Len(s)
            z == Append(s, u)
<1>1. n \in Nat /\ DOMAIN s = 1..n /\ (\A i \in 1..n : s[i] \in Nat)
  BY ListOf
<1>2. z \in Seq(Nat) /\ Len(z) = n + 1 /\ (\A i \in 1..n : z[i] = s[i]) /\ z[n + 1] = u
  <2>. HIDE DEF z, n
  <2>. QED  BY AppendProperties DEF z, n
<1>3. DOMAIN z = 1..(n + 1) /\ \A i \in 1..(n + 1) : i \in 1..n \/ i = n + 1
  <2>. HIDE DEF z, n
  <2>1. DOMAIN z = 1..(n + 1)
    BY <1>2, ListOf
  <2>. QED  BY <1>1, <2>1
<1>4. Ascending(s) /\ Before(s, u) => Ascending(z)
  <2>. HIDE DEF z, n
  <2>. SUFFICES ASSUME Ascending(s), Before(s, u),
                       NEW i \in 1..(n + 1), NEW j \in 1..(n + 1), i <= j
                PROVE  z[i] <= z[j]
    BY <1>3 DEF Ascending
  <2>1. CASE i \in 1..n /\ j \in 1..n
    BY <1>1, <1>2, <2>1 DEF Ascending
  <2>2. CASE i \in 1..n /\ j = n + 1
    BY <1>1, <1>2, <2>2 DEF Before
  <2>3. CASE i = n + 1
    <3>1. j = n + 1
      BY <1>1, <2>3
    <3>. QED  BY <1>1, <1>2, <2>3, <3>1
  <2>. QED  BY <1>3, <2>1, <2>2, <2>3
<1>. QED  BY <1>1, <1>2, <1>4

\* Nor is a time of it later than the one added.
LEMMA BeforeAppend ==
    ASSUME NEW s \in Seq(Nat), NEW u \in Nat, Before(s, u)
    PROVE  Before(Append(s, u), u)
<1>1. PICK n \in Nat : n = Len(s) /\ DOMAIN s = 1..n
  BY ListOf
<1>2. PICK z : z = Append(s, u)
  OBVIOUS
<1>3. z \in Seq(Nat) /\ Len(z) = n + 1 /\ z[n + 1] = u /\ \A i \in 1..n : z[i] = s[i]
  BY <1>1, <1>2, AppendTime
<1>4. DOMAIN z = 1..(n + 1) /\ \A i \in 1..(n + 1) : i \in 1..n \/ i = n + 1
  BY <1>3, ListOf
<1>5. u <= u
  OBVIOUS
<1>. QED  BY <1>1, <1>2, <1>3, <1>4, <1>5 DEF Before

\* What the demo assumes of its numbers.
LEMMA DemoNumbers ==
    /\ {IpRpmLimit, IpRpdLimit, GlobalRpmLimit, GlobalRpdLimit} \subseteq Nat \ {0}
    /\ MINUTE \in Nat \ {0} /\ DAY \in Nat \ {0} /\ ROTATION \in Nat \ {0}
    /\ STALE \in Nat \ {0} /\ MaxClock \in Nat /\ MaxTokens \in Nat /\ MaxEvictions \in Nat
    /\ MINUTE <= STALE /\ STALE <= DAY /\ MINUTE <= DAY
    /\ NONE \notin Nat /\ NONE \notin Seq(Nat)
  BY DemoAssumption

\* After its c-th time of the list, by time u, there was a silence so long that
\* a rotation forgets the address.
Silent(s, c, u) ==
    \/ c = 0
    \/ c < Len(s) /\ s[c + 1] - s[c] > STALE
    \/ c = Len(s) /\ u - s[c] > STALE

\* A time after a silence that outlasts the span is past the span.
LEMMA SilenceOutlasts ==
    ASSUME NEW a \in Nat, NEW b \in Nat, a <= b, NEW e \in Nat, NEW u \in Nat, e <= u,
           NEW span \in Nat, NEW silence \in Nat, span <= silence, e - b > silence
    PROVE  ~(a > u - span)
  OBVIOUS

\* A time no earlier than one within the span is within the span.
LEMMA WithinToo ==
    ASSUME NEW a \in Nat, NEW b \in Nat, a <= b, NEW u \in Nat, NEW span \in Nat, u - a < span
    PROVE  b > u - span
  OBVIOUS

\* What is within a minute comes after such a silence.
LEMMA SilentMinute ==
    ASSUME NEW s \in Seq(Nat), Ascending(s), NEW u \in Nat,
           Before(s, u), NEW c \in 0..Len(s), Silent(s, c, u)
    PROVE  Past(s, c, u - MINUTE) = Past(s, 0, u - MINUTE)
<1>1. PICK n \in Nat : n = Len(s) /\ DOMAIN s = 1..n
  BY ListOf
<1>2. \A i \in 1..n : s[i] \in Nat /\ s[i] <= u
  BY <1>1, ListOf DEF Before
<1>3. MINUTE \in Nat /\ STALE \in Nat /\ MINUTE <= STALE
  BY DemoNumbers
<1>4. c \in 0..n
  BY <1>1
<1>5. ASSUME NEW i \in 1..n, s[i] > u - MINUTE, ~(i > c) PROVE FALSE
  <2>1. c \in 1..n /\ i <= c
    BY ONLY <1>4, <1>5, i \in 1..n, n \in Nat
  <2>2. s[i] <= s[c] /\ s[i] \in Nat /\ s[c] \in Nat
    BY <1>1, <1>2, <2>1 DEF Ascending
  <2>3. CASE c < n /\ s[c + 1] - s[c] > STALE
    <3>1. c + 1 \in 1..n
      BY ONLY <2>1, <2>3, n \in Nat
    <3>2. s[c + 1] \in Nat /\ s[c + 1] <= u
      BY <1>2, <3>1
    <3>3. PICK a \in Nat : a = s[i]
      BY <2>2
    <3>4. PICK b \in Nat : b = s[c]
      BY <2>2
    <3>5. PICK e \in Nat : e = s[c + 1]
      BY <3>2
    <3>6. a <= b /\ e <= u /\ e - b > STALE /\ a > u - MINUTE
      BY ONLY <1>5, <2>2, <2>3, <3>2, <3>3, <3>4, <3>5, Zenon
    <3>. QED  BY ONLY <1>3, <3>6, a \in Nat, b \in Nat, e \in Nat, u \in Nat, SilenceOutlasts
  <2>4. CASE c = n /\ u - s[c] > STALE
    <3>1. PICK a \in Nat : a = s[i]
      BY <2>2
    <3>2. PICK b \in Nat : b = s[c]
      BY <2>2
    <3>3. a <= b /\ u - b > STALE /\ a > u - MINUTE
      BY ONLY <1>5, <2>2, <2>4, <3>1, <3>2, Zenon
    <3>4. u <= u
      BY ONLY u \in Nat
    <3>. QED  BY ONLY <1>3, <3>3, <3>4, a \in Nat, b \in Nat, u \in Nat, SilenceOutlasts
  <2>. QED  BY <1>1, <2>1, <2>3, <2>4 DEF Silent
<1>6. \A i \in 1..n : i > 0
  OBVIOUS
<1>. QED  BY <1>1, <1>5, <1>6 DEF Past

\* No day has admitted more than the limit unless there was such a silence.
DayKept(s) ==
    \A i, j \in 1..Len(s) :
        i <= j /\ s[j] - s[i] < DAY /\ Steady(s, i, j) => j - i + 1 <= IpRpdLimit

\* It is kept when a time is added that the limit has still room for, as far as
\* the last silence is not forgotten.
LEMMA DayLimitKept ==
    ASSUME NEW s \in Seq(Nat), Ascending(s), NEW u \in Nat,
           Before(s, u), NEW c \in 0..Len(s), Silent(s, c, u),
           DayKept(s), NEW room \in Nat, room = Cardinality(Past(s, c, u - DAY)),
           room < IpRpdLimit
    PROVE  DayKept(Append(s, u))
<1>1. PICK n \in Nat : n = Len(s) /\ DOMAIN s = 1..n
  BY ListOf
<1>2. PICK z : z = Append(s, u)
  OBVIOUS
<1>3. Len(z) = n + 1 /\ z[n + 1] = u /\ \A i \in 1..n : z[i] = s[i] /\ s[i] \in Nat
  BY ONLY <1>1, <1>2, s \in Seq(Nat), u \in Nat, AppendTime
<1>4. DAY \in Nat /\ STALE \in Nat /\ IpRpdLimit \in Nat \ {0} /\ c \in 0..n
  <2>1. DAY \in Nat /\ STALE \in Nat /\ IpRpdLimit \in Nat \ {0}
    BY ONLY DemoNumbers
  <2>2. c \in 0..n
    BY ONLY <1>1, c \in 0..Len(s)
  <2>. QED  BY <2>1, <2>2
<1>. SUFFICES ASSUME NEW i \in 1..(n + 1), NEW j \in 1..(n + 1), i <= j, z[j] - z[i] < DAY,
                     Steady(z, i, j)
              PROVE  j - i + 1 <= IpRpdLimit
  BY <1>2, <1>3 DEF DayKept
<1>5. /\ i \in Nat /\ j \in Nat /\ i <= j /\ 1 <= i /\ j <= n + 1
      /\ j \in 1..n \/ (j = n + 1 /\ i = n + 1) \/ (j = n + 1 /\ i \in 1..n)
      /\ j \in 1..n => i \in 1..n
  BY ONLY i \in 1..(n + 1), j \in 1..(n + 1), i <= j, n \in Nat
<1>6. CASE j \in 1..n
  <2>1. i \in 1..n
    BY <1>5, <1>6
  <2>2. \A k \in i..(j - 1) : k \in 1..n /\ k + 1 \in 1..n
    BY ONLY <1>6, <2>1, n \in Nat
  <2>3. Steady(s, i, j)
    BY <1>3, <2>2 DEF Steady
  <2>4. s[j] - s[i] < DAY
    BY <1>3, <1>6, <2>1
  <2>. QED  BY <1>1, <1>5, <1>6, <2>1, <2>3, <2>4 DEF DayKept
<1>7. CASE j = n + 1 /\ i = n + 1
  BY ONLY <1>4, <1>7, n \in Nat
<1>8. CASE j = n + 1 /\ i \in 1..n
  <2>1. ASSUME NEW k \in i..n PROVE s[k] > u - DAY
    <3>1. k \in 1..n /\ i <= k
      BY ONLY <1>8, k \in i..n, n \in Nat
    <3>2. s[i] <= s[k] /\ s[k] \in Nat /\ s[i] \in Nat
      BY <1>1, <1>3, <1>8, <3>1 DEF Ascending
    <3>3. u - s[i] < DAY
      BY <1>3, <1>8
    <3>. QED  BY ONLY <1>4, <3>2, <3>3, u \in Nat, WithinToo
  <2>2. i > c
    <3>. SUFFICES ASSUME ~(i > c) PROVE FALSE
      OBVIOUS
    <3>1. c \in 1..n /\ c \in i..(j - 1)
      BY ONLY <1>4, <1>8, ~(i > c), n \in Nat
    <3>2. z[c + 1] - z[c] <= STALE
      BY <3>1 DEF Steady
    <3>3. z[c] = s[c] /\ s[c] \in Nat
      BY <1>3, <3>1
    <3>4. CASE c < n /\ s[c + 1] - s[c] > STALE
      <4>1. c + 1 \in 1..n
        BY ONLY <3>1, <3>4, n \in Nat
      <4>2. z[c + 1] = s[c + 1] /\ s[c + 1] \in Nat
        BY <1>3, <4>1
      <4>. QED  BY ONLY <1>4, <3>2, <3>3, <3>4, <4>2
    <3>5. CASE c = n /\ u - s[c] > STALE
      <4>1. z[c + 1] = u
        BY <1>3, <3>5
      <4>. QED  BY ONLY <1>4, <3>2, <3>3, <3>5, <4>1, u \in Nat
    <3>. QED  BY <1>1, <3>1, <3>4, <3>5 DEF Silent
  <2>3. PICK P : P = Past(s, c, u - DAY)
    OBVIOUS
  <2>4. i..n \subseteq P /\ P \subseteq 1..n
    <3>1. \A k \in i..n : k \in 1..n /\ k > c
      BY ONLY <1>4, <1>8, <2>2, n \in Nat
    <3>. QED  BY <1>1, <2>1, <2>3, <3>1 DEF Past
  <2>5. IsFiniteSet(P) /\ Cardinality(P) = room
    <3>1. IsFiniteSet(1..n)
      BY FS_Interval
    <3>. QED  BY <2>3, <2>4, <3>1, FS_Subset
  <2>6. Cardinality(i..n) = n - i + 1
    <3>1. i \in Int /\ n \in Int /\ ~(i > n)
      BY ONLY <1>8, n \in Nat
    <3>2. Cardinality(i..n) = IF i > n THEN 0 ELSE n - i + 1
      BY ONLY <3>1, FS_Interval
    <3>. QED  BY ONLY <3>1, <3>2
  <2>7. Cardinality(i..n) <= Cardinality(P)
    BY <2>4, <2>5, FS_Subset
  <2>8. n - i + 1 <= room
    BY ONLY <2>5, <2>6, <2>7
  <2>. QED  BY ONLY <1>4, <1>8, <2>8, room < IpRpdLimit, room \in Nat, n \in Nat
<1>. QED  BY <1>5, <1>6, <1>7, <1>8

-----------------------------------------------------------------------------
(* The log of what was admitted.                                           *)

\* The times of a log, and those of one address.
TimesOf(lg) == [i \in 1..Len(lg) |-> lg[i].at]
TimesFor(lg, ip) == Through(TimesOf(lg), {i \in DOMAIN lg : lg[i].ip = ip})

\* They are what the demo's properties speak of.
LEMMA SameTimes ==
    Admitted = TimesOf(log) /\ \A ip : AdmittedTo(ip) = TimesFor(log, ip)
<1>1. Admitted = TimesOf(log)
  BY DEF Admitted, TimesOf
<1>2. ASSUME NEW ip PROVE AdmittedTo(ip) = TimesFor(log, ip)
  <2>1. AdmittedTo(ip) = Through(TimesOf(log), {i \in DOMAIN log : log[i].ip = ip})
    BY <1>1 DEF AdmittedTo
  <2>. QED  BY <2>1 DEF TimesFor
<1>. QED  BY <1>1, <1>2

\* The same places of a list that is longer.
LEMMA ThroughLonger ==
    ASSUME NEW s \in Seq(Nat), NEW u \in Nat, NEW P, P \subseteq DOMAIN s
    PROVE  Through(Append(s, u), P) = Through(s, P)
<1>1. PICK n \in Nat : n = Len(s) /\ DOMAIN s = 1..n
  BY ListOf
<1>2. PICK z : z = Append(s, u)
  OBVIOUS
<1>3. \A i \in 1..n : z[i] = s[i]
  BY <1>1, <1>2, AppendTime
<1>4. PICK at, m : Enumerates(at, m, P) /\ Picks(Through(s, P), s, at, m)
  BY <1>1, Filtered
<1>5. Picks(Through(z, P), z, at, m)
  BY <1>1, <1>4, FilteredBy
<1>6. \A j \in 1..m : z[at[j]] = s[at[j]]
  BY <1>1, <1>3, <1>4 DEF Enumerates
<1>. QED  BY <1>2, <1>4, <1>5, <1>6 DEF Picks

\* A log's entry.
Entries == [ip : Ips, at : Nat]

\* The times of a log that is longer by an entry.
LEMMA LogLonger ==
    ASSUME NEW lg \in Seq(Entries), NEW e \in Entries
    PROVE  /\ TimesOf(lg) \in Seq(Nat)
           /\ TimesOf(Append(lg, e)) = Append(TimesOf(lg), e.at)
           /\ \A ip : TimesFor(Append(lg, e), ip) =
                          IF e.ip = ip THEN Append(TimesFor(lg, ip), e.at)
                                       ELSE TimesFor(lg, ip)
<1>1. PICK n \in Nat : n = Len(lg) /\ DOMAIN lg = 1..n
  BY ListOf
<1>2. PICK z : z = Append(lg, e)
  OBVIOUS
<1>3. Len(z) = n + 1 /\ DOMAIN z = 1..(n + 1) /\ z[n + 1] = e /\ \A i \in 1..n : z[i] = lg[i]
  <2>1. z \in Seq(Entries) /\ Len(z) = n + 1 /\ z[n + 1] = e /\ \A i \in 1..n : z[i] = lg[i]
    BY <1>1, <1>2, AppendProperties
  <2>. QED  BY <2>1, ListOf
<1>4. PICK s : s = TimesOf(lg)
  OBVIOUS
<1>5. PICK u : u = e.at
  OBVIOUS
<1>6. s \in Seq(Nat) /\ Len(s) = n /\ DOMAIN s = 1..n /\ u \in Nat /\ \A i \in 1..n : s[i] = lg[i].at
  <2>1. \A i \in 1..n : lg[i] \in Entries
    BY <1>1, ListOf
  <2>2. s = [i \in 1..n |-> lg[i].at] /\ s \in [1..n -> Nat]
    BY <1>1, <1>4, <2>1 DEF TimesOf, Entries
  <2>3. s \in Seq(Nat)
    BY <2>2, SeqDef
  <2>4. Len(s) = n
    <3>1. DOMAIN s = 1..n /\ DOMAIN s = 1..Len(s) /\ Len(s) \in Nat
      BY <2>2, <2>3, LenProperties
    <3>. QED  BY <3>1
  <2>. QED  BY <1>5, <2>2, <2>3, <2>4 DEF Entries
<1>7. \A i \in 1..(n + 1) : i \in 1..n \/ i = n + 1
  OBVIOUS
<1>8. TimesOf(z) = Append(s, u)
  <2>1. PICK y : y = Append(s, u)
    OBVIOUS
  <2>2. y \in Seq(Nat) /\ Len(y) = n + 1 /\ y[n + 1] = u /\ \A i \in 1..n : y[i] = s[i]
    BY <1>6, <2>1, AppendProperties
  <2>3. y \in [1..(n + 1) -> Nat]
    BY <2>2, LenProperties
  <2>4. \A i \in 1..(n + 1) : y[i] = z[i].at
    BY <1>3, <1>5, <1>6, <1>7, <2>2
  <2>5. TimesOf(z) = [i \in 1..(n + 1) |-> z[i].at]
    BY <1>3 DEF TimesOf
  <2>. QED  BY <2>1, <2>3, <2>4, <2>5
<1>9. ASSUME NEW ip
      PROVE  TimesFor(z, ip) = IF e.ip = ip THEN Append(TimesFor(lg, ip), u) ELSE TimesFor(lg, ip)
  <2>1. PICK P : P = {i \in DOMAIN lg : lg[i].ip = ip}
    OBVIOUS
  <2>2. PICK W : W = {i \in DOMAIN z : z[i].ip = ip}
    OBVIOUS
  <2>3. P \subseteq DOMAIN s
    BY <1>1, <1>6, <2>1
  <2>4. n + 1 \in 1..(n + 1) /\ 1..n \subseteq 1..(n + 1)
    OBVIOUS
  <2>5. TimesFor(z, ip) = Through(Append(s, u), W) /\ TimesFor(lg, ip) = Through(s, P)
    BY <1>4, <1>8, <2>1, <2>2 DEF TimesFor
  <2>6. CASE e.ip = ip
    <3>1. W = P \cup {n + 1}
      BY <1>1, <1>3, <1>7, <2>1, <2>2, <2>4, <2>6
    <3>2. s \in Seq(Nat) /\ u \in Nat /\ W = P \cup {Len(s) + 1}
      BY <1>6, <3>1
    <3>3. Through(Append(s, u), W) = Append(Through(s, P), u)
      BY ONLY <2>3, <3>2, TimeJoins
    <3>. QED  BY <2>5, <2>6, <3>3
  <2>7. CASE e.ip # ip
    <3>1. W = P
      BY <1>1, <1>3, <1>7, <2>1, <2>2, <2>4, <2>7
    <3>. QED  BY <1>6, <2>3, <2>5, <2>7, <3>1, ThroughLonger
  <2>. QED  BY <2>6, <2>7
<1>. QED  BY <1>2, <1>4, <1>5, <1>6, <1>8, <1>9

\* An empty log has no times.
LEMMA LogEmpty == TimesOf(<<>>) = <<>> /\ \A ip : TimesFor(<<>>, ip) = <<>>
<1>1. <<>> \in Seq(Nat) /\ Len(<<>>) = 0 /\ DOMAIN <<>> = {}
  <2>1. <<>> \in Seq(Nat) /\ Len(<<>>) = 0
    OBVIOUS
  <2>2. DOMAIN <<>> = 1..0
    BY <2>1, LenProperties
  <2>. QED  BY <2>1, <2>2
<1>2. TimesOf(<<>>) = <<>>
  BY <1>1 DEF TimesOf
<1>3. Through(<<>>, DOMAIN <<>>) = <<>>
  <2>1. PICK R : R = Nat
    OBVIOUS
  <2>2. <<>> \in Seq(R)
    OBVIOUS
  <2>. QED  BY ONLY <2>2, ThroughAll
<1>4. ASSUME NEW ip PROVE {i \in DOMAIN <<>> : <<>>[i].ip = ip} = DOMAIN <<>>
  BY <1>1
<1>. QED  BY <1>2, <1>3, <1>4 DEF TimesFor

-----------------------------------------------------------------------------
(* What the windows remember of the log.                                   *)

\* A list of times until u.
IsTimes(s, u) == s \in Seq(Nat) /\ Ascending(s) /\ Before(s, u)

\* The list of all counts every request of the day.
AllOK(g, s, u) ==
    /\ IsTimes(s, u)
    /\ g \in Seq(Nat) /\ Before(g, u)
    /\ Since(g, 0, u - DAY) = Since(s, 0, u - DAY)
    /\ AtMostIn(s, MINUTE, GlobalRpmLimit)
    /\ AtMostIn(s, DAY, GlobalRpdLimit)

\* The window of an address.
Window(x) == IF x = NONE THEN <<>> ELSE x

\* It counts every request of the day that came after some silence, or all.
Remembers(w, s, u) ==
    \E c \in 0..Len(s) : Silent(s, c, u) /\ Since(w, 0, u - DAY) = Since(s, c, u - DAY)

\* A window ends with the last request.
EndsWith(x, s) ==
    /\ Len(x) \in Nat \ {0} /\ Len(s) \in Nat \ {0}
    /\ x[Len(x)] = s[Len(s)]

\* The window x, if there is one, of an address that was admitted at the times s.
IpOK(x, s, u) ==
    /\ IsTimes(s, u)
    /\ x # NONE => x \in Seq(Nat) /\ Before(x, u) /\ EndsWith(x, s)
    /\ Remembers(Window(x), s, u)
    /\ AtMostIn(s, MINUTE, IpRpmLimit)
    /\ DayKept(s)

\* The times of a list until u are times until a later u.
LEMMA IsTimesLater ==
    ASSUME NEW u \in Nat, NEW s \in Seq(Nat), Before(s, u)
    PROVE  Before(s, u + 1)
<1>1. \A i \in DOMAIN s : s[i] \in Nat /\ s[i] <= u
  BY ListOf DEF Before
<1>. QED  BY <1>1 DEF Before

\* A window is a list.
LEMMA WindowList ==
    ASSUME NEW x, NEW s, NEW u, IpOK(x, s, u)
    PROVE  Window(x) \in Seq(Nat) /\ Before(Window(x), u)
<1>1. <<>> \in Seq(Nat) /\ DOMAIN <<>> = {}
  <2>1. <<>> \in Seq(Nat) /\ Len(<<>>) = 0
    OBVIOUS
  <2>2. DOMAIN <<>> = 1..0
    BY <2>1, LenProperties
  <2>. QED  BY <2>1, <2>2
<1>. QED  BY <1>1 DEF IpOK, Window, Before

\* Of lists that agree on a day, later.
LEMMA AgreeLater ==
    ASSUME NEW g \in Seq(Nat), NEW s \in Seq(Nat), NEW c \in Nat, NEW t \in Int, NEW w \in Int,
           t <= w, Since(g, 0, t) = Since(s, c, t)
    PROVE  Since(g, 0, w) = Since(s, c, w)
<1>1. Since(Since(g, 0, t), 0, w) = Since(g, 0, w)
  BY SinceTwice
<1>2. Since(Since(s, c, t), 0, w) = Since(s, c, w)
  BY SinceTwice
<1>. QED  BY <1>1, <1>2

\* Time passes.
LEMMA AllLater ==
    ASSUME NEW u \in Nat, NEW g, NEW s, AllOK(g, s, u)
    PROVE  AllOK(g, s, u + 1)
<1>1. DAY \in Nat
  BY DemoNumbers
<1>2. Since(g, 0, u + 1 - DAY) = Since(s, 0, u + 1 - DAY)
  <2>1. PICK t \in Int : t = u - DAY
    BY <1>1
  <2>2. PICK w \in Int : w = u + 1 - DAY
    BY <1>1
  <2>3. t <= w /\ 0 \in Nat
    BY <1>1, <2>1, <2>2
  <2>4. Since(g, 0, t) = Since(s, 0, t) /\ g \in Seq(Nat) /\ s \in Seq(Nat)
    BY <2>1 DEF AllOK, IsTimes
  <2>5. Since(g, 0, w) = Since(s, 0, w)
    BY ONLY <2>3, <2>4, t \in Int, w \in Int, AgreeLater
  <2>. QED  BY <2>2, <2>5
<1>3. g \in Seq(Nat) /\ Before(g, u) /\ s \in Seq(Nat) /\ Before(s, u) /\ Ascending(s)
  BY DEF AllOK, IsTimes
<1>4. Before(g, u + 1) /\ Before(s, u + 1)
  BY ONLY <1>3, u \in Nat, IsTimesLater
<1>5. AtMostIn(s, MINUTE, GlobalRpmLimit) /\ AtMostIn(s, DAY, GlobalRpdLimit)
  BY DEF AllOK
<1>6. PICK y \in Nat : y = u + 1
  OBVIOUS
<1>7. AllOK(g, s, y)
  <2>1. y - DAY = u + 1 - DAY
    BY ONLY <1>1, <1>6, u \in Nat
  <2>2. Since(g, 0, y - DAY) = Since(s, 0, y - DAY)
    BY ONLY <1>2, <2>1, Zenon
  <2>3. Before(g, y) /\ Before(s, y)
    BY ONLY <1>4, <1>6, Zenon
  <2>. QED  BY ONLY <1>3, <1>5, <2>2, <2>3, Zenon DEF AllOK, IsTimes
<1>. QED  BY ONLY <1>6, <1>7, Zenon

\* A silence lasts.
LEMMA SilentLater ==
    ASSUME NEW u \in Nat, NEW s, IsTimes(s, u), NEW c \in 0..Len(s),
           Silent(s, c, u)
    PROVE  Silent(s, c, u + 1)
<1>1. PICK n \in Nat : n = Len(s) /\ \A i \in 1..n : s[i] \in Nat
  BY ListOf DEF IsTimes
<1>2. STALE \in Nat
  BY DemoNumbers
<1>3. ASSUME c = n, c # 0, u - s[c] > STALE PROVE u + 1 - s[c] > STALE
  <2>1. c \in 1..n
    BY <1>3
  <2>2. s[c] \in Nat
    BY <1>1, <2>1
  <2>. QED  BY ONLY <1>2, <1>3, <2>2, u \in Nat
<1>4. CASE c = 0
  BY <1>4 DEF Silent
<1>5. CASE c < Len(s) /\ s[c + 1] - s[c] > STALE
  BY <1>5 DEF Silent
<1>6. CASE c # 0 /\ c = Len(s) /\ u - s[c] > STALE
  <2>1. u + 1 - s[c] > STALE
    BY ONLY <1>1, <1>3, <1>6
  <2>2. s[c] \in Nat
    BY <1>1, <1>6
  <2>. QED  BY ONLY <1>2, <1>6, <2>1, <2>2, u \in Nat DEF Silent
<1>. QED  BY <1>4, <1>5, <1>6 DEF Silent

\* Time passes.
LEMMA IpLater ==
    ASSUME NEW u \in Nat, NEW x, NEW s, IpOK(x, s, u)
    PROVE  IpOK(x, s, u + 1)
<1>1. DAY \in Nat
  BY DemoNumbers
<1>2. PICK w \in Seq(Nat) : w = Window(x)
  BY WindowList
<1>3. s \in Seq(Nat) /\ IsTimes(s, u)
  BY DEF IpOK, IsTimes
<1>4. PICK c \in 0..Len(s) : Silent(s, c, u) /\ Since(w, 0, u - DAY) = Since(s, c, u - DAY)
  BY <1>2 DEF IpOK, Remembers
<1>5. c \in Nat
  BY <1>3, ListOf
<1>6. Since(w, 0, u + 1 - DAY) = Since(s, c, u + 1 - DAY)
  <2>1. PICK t \in Int : t = u - DAY
    BY <1>1
  <2>2. PICK v \in Int : v = u + 1 - DAY
    BY <1>1
  <2>3. t <= v
    BY <1>1, <2>1, <2>2
  <2>4. Since(w, 0, t) = Since(s, c, t)
    BY <1>4, <2>1
  <2>5. Since(w, 0, v) = Since(s, c, v)
    <3>1. w \in Seq(Nat) /\ s \in Seq(Nat) /\ 0 \in Nat
      BY <1>2, <1>3
    <3>. QED  BY ONLY <1>5, <2>3, <2>4, <3>1, t \in Int, v \in Int, AgreeLater
  <2>. QED  BY <2>2, <2>5
<1>7. Remembers(w, s, u + 1)
  <2>1. Silent(s, c, u + 1)
    BY <1>3, <1>4, SilentLater
  <2>2. PICK y \in Nat : y = u + 1
    OBVIOUS
  <2>3. Silent(s, c, y) /\ Since(w, 0, y - DAY) = Since(s, c, y - DAY)
    <3>1. Silent(s, c, y)
      BY ONLY <2>1, <2>2, Zenon
    <3>2. y - DAY = u + 1 - DAY
      BY ONLY <1>1, <2>2, u \in Nat
    <3>3. Since(w, 0, y - DAY) = Since(s, c, y - DAY)
      BY ONLY <1>6, <3>2, Zenon
    <3>. QED  BY ONLY <3>1, <3>3
  <2>4. Remembers(w, s, y)
    <3>1. \E k \in 0..Len(s) : Silent(s, k, y) /\ Since(w, 0, y - DAY) = Since(s, k, y - DAY)
      BY ONLY <2>3, c \in 0..Len(s), Zenon
    <3>. QED  BY ONLY <3>1, Zenon DEF Remembers
  <2>. QED  BY <2>2, <2>4
<1>. QED  BY <1>2, <1>3, <1>7, IsTimesLater DEF IpOK, IsTimes

\* Nothing is left of a list past its end.
LEMMA SinceNone ==
    ASSUME NEW s \in Seq(Nat), NEW c \in Nat, c >= Len(s), NEW t \in Int
    PROVE  Since(s, c, t) = <<>>
<1>1. PICK n \in Nat : n = Len(s) /\ DOMAIN s = 1..n
  BY ListOf
<1>2. Past(s, c, t) = {}
  <2>1. \A i \in 1..n : ~(i > c)
    BY <1>1
  <2>. QED  BY <1>1, <2>1 DEF Past
<1>3. Since(s, c, t) \in Seq(Nat) /\ Len(Since(s, c, t)) = Cardinality({})
  BY <1>2, SinceList
<1>4. Len(Since(s, c, t)) = 0
  BY <1>3, FS_EmptySet
<1>. QED  BY <1>3, <1>4, EmptySeq

\* A window that a rotation drops has been silent for so long.
LEMMA IpPruned ==
    ASSUME NEW u \in Nat, NEW x, NEW s, IpOK(x, s, u),
           x # NONE, x[Len(x)] < u - STALE
    PROVE  IpOK(NONE, s, u)
<1>1. PICK n \in Nat : n = Len(s) /\ n # 0 /\ \A i \in 1..n : s[i] \in Nat
  BY ListOf DEF IpOK, IsTimes, EndsWith
<1>2. STALE \in Nat /\ DAY \in Nat
  BY DemoNumbers
<1>3. x[Len(x)] = s[n]
  BY <1>1 DEF IpOK, EndsWith
<1>4. s[n] \in Nat
  <2>1. n \in 1..n
    BY <1>1
  <2>. QED  BY <1>1, <2>1
<1>5. u - s[n] > STALE
  BY ONLY <1>2, <1>3, <1>4, u \in Nat, x[Len(x)] < u - STALE
<1>6. Silent(s, n, u)
  BY <1>1, <1>5 DEF Silent
<1>7. PICK t \in Int : t = u - DAY
  BY <1>2
<1>8. Since(s, n, t) = <<>> /\ Since(<<>>, 0, t) = <<>>
  <2>1. s \in Seq(Nat) /\ n \in Nat /\ n >= Len(s)
    BY <1>1 DEF IpOK, IsTimes
  <2>2. <<>> \in Seq(Nat) /\ 0 \in Nat /\ 0 >= Len(<<>>)
    OBVIOUS
  <2>. QED  BY <2>1, <2>2, SinceNone
<1>9. Remembers(<<>>, s, u)
  <2>1. n \in 0..Len(s)
    BY <1>1
  <2>. QED  BY <1>6, <1>7, <1>8, <2>1 DEF Remembers
<1>. QED  BY <1>9 DEF IpOK, Window

\* Nothing was admitted.
LEMMA NothingAdmitted ==
    ASSUME NEW u \in Nat
    PROVE  AllOK(<<>>, <<>>, u) /\ IpOK(NONE, <<>>, u)
<1>1. <<>> \in Seq(Nat) /\ Len(<<>>) = 0 /\ DOMAIN <<>> = {} /\ 1..0 = {}
  <2>1. <<>> \in Seq(Nat) /\ Len(<<>>) = 0
    OBVIOUS
  <2>2. DOMAIN <<>> = 1..0
    BY <2>1, LenProperties
  <2>. QED  BY <2>1, <2>2
<1>2. IsTimes(<<>>, u)
  BY <1>1 DEF IsTimes, Ascending, Before
<1>3. \A span, limit : AtMostIn(<<>>, span, limit)
  BY <1>1 DEF AtMostIn
<1>4. DayKept(<<>>)
  BY <1>1 DEF DayKept
<1>5. Remembers(<<>>, <<>>, u)
  <2>1. 0 \in 0..Len(<<>>) /\ Silent(<<>>, 0, u)
    BY <1>1 DEF Silent
  <2>. QED  BY <2>1 DEF Remembers
<1>. QED  BY <1>1, <1>2, <1>3, <1>4, <1>5 DEF AllOK, IpOK, Window, IsTimes

\* A request is admitted within the limits of all.
LEMMA AllAdmits ==
    ASSUME NEW u \in Nat, NEW g, NEW s, AllOK(g, s, u),
           Len(Since(g, 0, u - MINUTE)) < GlobalRpmLimit,
           Len(Since(g, 0, u - DAY)) < GlobalRpdLimit
    PROVE  AllOK(Append(Since(g, 0, u - DAY), u), Append(s, u), u)
<1>1. /\ g \in Seq(Nat) /\ Before(g, u) /\ s \in Seq(Nat) /\ Ascending(s) /\ Before(s, u)
      /\ AtMostIn(s, MINUTE, GlobalRpmLimit) /\ AtMostIn(s, DAY, GlobalRpdLimit)
  BY DEF AllOK, IsTimes
<1>2. /\ DAY \in Nat \ {0} /\ MINUTE \in Nat \ {0} /\ MINUTE <= DAY
      /\ GlobalRpmLimit \in Nat \ {0} /\ GlobalRpdLimit \in Nat \ {0}
  BY DemoNumbers
<1>3. PICK t \in Int : t = u - DAY
  BY <1>2
<1>4. PICK v \in Int : v = u - MINUTE
  BY <1>2
<1>5. t <= v /\ u > t /\ u > v /\ t <= t /\ 0 \in Nat
  BY <1>2, <1>3, <1>4
<1>6. Since(g, 0, t) = Since(s, 0, t)
  BY <1>3 DEF AllOK
<1>7. Since(g, 0, v) = Since(s, 0, v)
  <2>1. g \in Seq(Nat) /\ s \in Seq(Nat) /\ 0 \in Nat /\ t <= v
    BY <1>1, <1>5
  <2>. QED  BY ONLY <1>6, <2>1, t \in Int, v \in Int, AgreeLater
<1>8. /\ Len(Since(s, 0, t)) = Cardinality(Past(s, 0, t))
      /\ Len(Since(s, 0, v)) = Cardinality(Past(s, 0, v))
  BY <1>1, <1>5, SinceList
<1>9. Cardinality(Past(s, 0, v)) < GlobalRpmLimit /\ Cardinality(Past(s, 0, t)) < GlobalRpdLimit
  BY <1>3, <1>4, <1>6, <1>7, <1>8
<1>10. /\ AtMostIn(Append(s, u), MINUTE, GlobalRpmLimit)
       /\ AtMostIn(Append(s, u), DAY, GlobalRpdLimit)
  <2>1. /\ Cardinality(Past(s, 0, u - MINUTE)) < GlobalRpmLimit
        /\ Cardinality(Past(s, 0, u - DAY)) < GlobalRpdLimit
    BY <1>3, <1>4, <1>9
  <2>. QED  BY <1>1, <1>2, <2>1, LimitKept
<1>11. PICK q : q = Since(g, 0, t)
  OBVIOUS
<1>12. q \in Seq(Nat) /\ Before(q, u)
  BY <1>1, <1>5, <1>11, SinceList
<1>13. Since(Append(q, u), 0, t) = Since(Append(s, u), 0, t)
  <2>1. 0 \in 0..Len(q) /\ 0 \in 0..Len(s)
    BY <1>1, <1>12, ListOf
  <2>2. Since(Append(q, u), 0, t) = Append(Since(q, 0, t), u)
    BY ONLY <1>5, <1>12, <2>1, t \in Int, u \in Nat, SinceAppend
  <2>3. Since(Append(s, u), 0, t) = Append(Since(s, 0, t), u)
    BY ONLY <1>1, <1>5, <2>1, t \in Int, u \in Nat, SinceAppend
  <2>4. Since(q, 0, t) = Since(g, 0, t)
    <3>1. g \in Seq(Nat) /\ 0 \in Nat /\ t <= t
      BY <1>1, <1>5
    <3>. QED  BY ONLY <1>11, <3>1, t \in Int, SinceTwice
  <2>. QED  BY <1>6, <2>2, <2>3, <2>4
<1>14. IsTimes(Append(s, u), u) /\ Append(q, u) \in Seq(Nat) /\ Before(Append(q, u), u)
  <2>1. /\ Append(s, u) \in Seq(Nat) /\ Ascending(Append(s, u))
        /\ Append(q, u) \in Seq(Nat)
    BY <1>1, <1>12, AppendTime
  <2>. QED  BY <1>1, <1>12, <2>1, BeforeAppend DEF IsTimes
<1>. QED  BY <1>3, <1>10, <1>11, <1>13, <1>14 DEF AllOK

\* A silence before a time that is added.
LEMMA SilentAppend ==
    ASSUME NEW u \in Nat, NEW s \in Seq(Nat), NEW c \in 0..Len(s),
           Silent(s, c, u)
    PROVE  Silent(Append(s, u), c, u)
<1>1. PICK n \in Nat : n = Len(s)
  BY ListOf
<1>2. PICK z : z = Append(s, u)
  OBVIOUS
<1>3. Len(z) = n + 1 /\ z[n + 1] = u /\ \A i \in 1..n : z[i] = s[i]
  BY <1>1, <1>2, AppendTime
<1>4. c \in 0..n
  BY <1>1
<1>5. ASSUME c # 0, c < n, s[c + 1] - s[c] > STALE PROVE c < n + 1 /\ z[c + 1] - z[c] > STALE
  <2>1. c \in 1..n /\ c + 1 \in 1..n /\ c < n + 1
    BY ONLY <1>4, <1>5, n \in Nat
  <2>. QED  BY <1>3, <1>5, <2>1
<1>6. ASSUME c # 0, c = n, u - s[c] > STALE PROVE c < n + 1 /\ z[c + 1] - z[c] > STALE
  <2>1. c \in 1..n /\ c < n + 1
    BY ONLY <1>4, <1>6, n \in Nat
  <2>2. z[c] = s[c] /\ z[c + 1] = u
    BY <1>3, <1>6, <2>1
  <2>. QED  BY <1>6, <2>1, <2>2
<1>. QED  BY <1>1, <1>2, <1>3, <1>5, <1>6 DEF Silent

\* A request is admitted within the limits of its address.
LEMMA IpAdmits ==
    ASSUME NEW u \in Nat, NEW x, NEW s, IpOK(x, s, u),
           Len(Since(Window(x), 0, u - MINUTE)) < IpRpmLimit,
           Len(Since(Window(x), 0, u - DAY)) < IpRpdLimit
    PROVE  /\ Append(Since(Window(x), 0, u - DAY), u) # NONE
           /\ IpOK(Append(Since(Window(x), 0, u - DAY), u), Append(s, u), u)
<1>1. PICK w \in Seq(Nat) : w = Window(x) /\ Before(w, u)
  BY WindowList
<1>2. /\ s \in Seq(Nat) /\ Ascending(s) /\ Before(s, u)
      /\ AtMostIn(s, MINUTE, IpRpmLimit) /\ DayKept(s)
  BY DEF IpOK, IsTimes
<1>3. /\ DAY \in Nat \ {0} /\ MINUTE \in Nat \ {0} /\ MINUTE <= DAY
      /\ IpRpmLimit \in Nat \ {0} /\ IpRpdLimit \in Nat \ {0}
  BY DemoNumbers
<1>4. PICK t \in Int : t = u - DAY
  BY <1>3
<1>5. PICK v \in Int : v = u - MINUTE
  BY <1>3
<1>6. t <= v /\ u > t /\ u > v /\ t <= t /\ 0 \in Nat
  BY <1>3, <1>4, <1>5
<1>7. PICK c \in 0..Len(s) : Silent(s, c, u) /\ Since(w, 0, t) = Since(s, c, t)
  BY <1>1, <1>4 DEF IpOK, Remembers
<1>8. c \in Nat /\ Len(s) \in Nat
  BY <1>2, ListOf
<1>9. Since(w, 0, v) = Since(s, c, v)
  BY ONLY <1>2, <1>6, <1>7, <1>8, w \in Seq(Nat), t \in Int, v \in Int, AgreeLater
<1>10. Past(s, c, v) = Past(s, 0, v)
  BY <1>2, <1>5, <1>7, SilentMinute
<1>11. /\ Len(Since(s, c, t)) = Cardinality(Past(s, c, t))
       /\ Len(Since(s, c, v)) = Cardinality(Past(s, c, v))
  BY ONLY <1>2, <1>8, t \in Int, v \in Int, SinceList
<1>12. PICK room : room = Cardinality(Past(s, c, t))
  OBVIOUS
<1>13. room \in Nat /\ room < IpRpdLimit
  <2>1. Len(Since(s, c, t)) \in Nat
    <3>1. Since(s, c, t) \in Seq(Nat)
      BY ONLY <1>2, <1>8, t \in Int, SinceList
    <3>. QED  BY <3>1, ListOf
  <2>. QED  BY <1>1, <1>4, <1>7, <1>11, <1>12, <2>1
<1>14. DayKept(Append(s, u))
  BY <1>2, <1>4, <1>7, <1>12, <1>13, DayLimitKept
<1>15. AtMostIn(Append(s, u), MINUTE, IpRpmLimit)
  <2>1. Cardinality(Past(s, 0, u - MINUTE)) < IpRpmLimit
    BY <1>1, <1>5, <1>9, <1>10, <1>11
  <2>. QED  BY <1>2, <1>3, <2>1, LimitKept
<1>16. PICK q : q = Since(w, 0, t)
  OBVIOUS
<1>17. q \in Seq(Nat) /\ Before(q, u)
  BY <1>1, <1>6, <1>16, SinceList
<1>18. PICK z : z = Append(s, u)
  OBVIOUS
<1>19. PICK y : y = Append(q, u)
  OBVIOUS
<1>20. z \in Seq(Nat) /\ Ascending(z) /\ Before(z, u) /\ Len(z) = Len(s) + 1 /\ z[Len(s) + 1] = u
  BY <1>2, <1>18, AppendTime, BeforeAppend
<1>21. y \in Seq(Nat) /\ Before(y, u) /\ Len(y) = Len(q) + 1 /\ y[Len(q) + 1] = u /\ Len(q) \in Nat
  BY <1>17, <1>19, AppendTime, BeforeAppend
<1>22. y # NONE
  BY <1>21, DemoNumbers
<1>23. EndsWith(y, z)
  <2>1. Len(y) \in Nat \ {0} /\ Len(z) \in Nat \ {0}
    BY ONLY <1>8, <1>20, <1>21
  <2>2. y[Len(y)] = u /\ z[Len(z)] = u
    BY ONLY <1>20, <1>21
  <2>. QED  BY <2>1, <2>2 DEF EndsWith
<1>24. Since(y, 0, t) = Since(z, c, t)
  <2>1. 0 \in 0..Len(q)
    BY <1>21
  <2>2. Since(y, 0, t) = Append(Since(q, 0, t), u)
    BY ONLY <1>6, <1>17, <1>19, <2>1, t \in Int, u \in Nat, SinceAppend
  <2>3. Since(z, c, t) = Append(Since(s, c, t), u)
    BY ONLY <1>2, <1>6, <1>18, c \in 0..Len(s), t \in Int, u \in Nat, SinceAppend
  <2>4. Since(q, 0, t) = Since(w, 0, t)
    BY ONLY <1>6, <1>16, w \in Seq(Nat), t \in Int, SinceTwice
  <2>. QED  BY <1>7, <2>2, <2>3, <2>4
<1>25. Remembers(y, z, u)
  <2>1. c \in 0..Len(z)
    BY <1>8, <1>20
  <2>2. Silent(z, c, u)
    BY <1>2, <1>7, <1>18, SilentAppend
  <2>. QED  BY <1>4, <1>24, <2>1, <2>2 DEF Remembers
<1>26. IpOK(y, z, u)
  BY <1>14, <1>15, <1>18, <1>20, <1>21, <1>22, <1>23, <1>25 DEF IpOK, IsTimes, Window
<1>. QED  BY <1>1, <1>4, <1>16, <1>18, <1>19, <1>22, <1>26

-----------------------------------------------------------------------------
(* The object.                                                             *)

\* The values of the numbers.
DemoTypes ==
    /\ clock \in 0..MaxClock /\ up \in BOOLEAN /\ firing \in BOOLEAN
    /\ issued \in 0..MaxTokens /\ currentToken \in 0..issued
    /\ tokenExpiresAt \in 0..(MaxClock + ROTATION)
    /\ storage \in [token : 0..issued \cup {NONE}, expiry : 0..(MaxClock + ROTATION) \cup {NONE}]
    /\ alarmAt \in 0..(MaxClock + ROTATION) \cup {NONE}

\* The object that is up, and whoever was promised a token, knows what is stored.
DemoToken ==
    /\ up => currentToken = storage.token /\ tokenExpiresAt = storage.expiry
    /\ promise # NONE => promise.token = storage.token /\ promise.expiresAt = storage.expiry

\* The windows remember the log; what is lost is lost with the log.
DemoCounts ==
    /\ clock \in Nat
    /\ log \in Seq(Entries)
    /\ AllOK(globalTimestamps, TimesOf(log), clock)
    /\ DOMAIN ipSlidingWindows = Ips
    /\ \A ip \in Ips : IpOK(ipSlidingWindows[ip], TimesFor(log, ip), clock)
    /\ ~up => log = <<>> /\ globalTimestamps = <<>>

\* The inductive invariant.
DemoInv == DemoTypes /\ DemoToken /\ DemoCounts

\* Initially.
LEMMA DemoInitInv == DemoInit => DemoInv
<1>. SUFFICES ASSUME DemoInit PROVE DemoInv
  OBVIOUS
<1>1. DemoTypes
  <2>1. MaxClock \in Nat /\ ROTATION \in Nat /\ MaxTokens \in Nat
    BY DemoNumbers
  <2>2. 0 \in 0..MaxClock /\ 0 \in 0..MaxTokens /\ 0 \in 0..0 /\ 0 \in 0..(MaxClock + ROTATION)
    BY ONLY <2>1
  <2>. QED  BY <2>2 DEF DemoTypes, DemoInit
<1>2. DemoToken
  BY DEF DemoToken, DemoInit
<1>3. DemoCounts
  <2>1. log = <<>> /\ globalTimestamps = <<>> /\ clock = 0 /\ up = FALSE
        /\ ipSlidingWindows = [ip \in Ips |-> NONE]
    BY DEF DemoInit, NoWindows
  <2>2. clock \in Nat
    BY <2>1
  <2>3. AllOK(<<>>, <<>>, clock) /\ IpOK(NONE, <<>>, clock)
    BY <2>2, NothingAdmitted
  <2>4. log \in Seq(Entries)
    BY <2>1
  <2>. QED  BY <2>1, <2>2, <2>3, <2>4, LogEmpty DEF DemoCounts
<1>. QED  BY <1>1, <1>2, <1>3 DEF DemoInv

\* The memory is lost.
LEMMA ForgetCounts ==
    ASSUME clock \in Nat, Forget, clock' = clock
    PROVE  DemoCounts'
<1>1. log' = <<>> /\ globalTimestamps' = <<>> /\ ipSlidingWindows' = [ip \in Ips |-> NONE]
  BY DEF Forget, NoWindows
<1>2. AllOK(<<>>, <<>>, clock) /\ IpOK(NONE, <<>>, clock)
  BY NothingAdmitted
<1>3. log' \in Seq(Entries)
  BY <1>1
<1>. QED  BY <1>1, <1>2, <1>3, LogEmpty DEF DemoCounts

\* Nothing changes in the windows.
LEMMA SameCounts ==
    ASSUME DemoCounts, clock' = clock, log' = log, globalTimestamps' = globalTimestamps,
           ipSlidingWindows' = ipSlidingWindows, up' \/ up' = up
    PROVE  DemoCounts'
  BY DEF DemoCounts

\* A rotation drops the windows that were silent.
LEMMA RotatedCounts ==
    ASSUME DemoCounts, clock' = clock, log' = log,
           globalTimestamps' = globalTimestamps, up' \/ up' = up,
           ipSlidingWindows' = pruneStaleWindows(ipSlidingWindows)
    PROVE  DemoCounts'
<1>1. clock \in Nat /\ \A ip \in Ips : IpOK(ipSlidingWindows[ip], TimesFor(log, ip), clock)
  BY DEF DemoCounts
<1>2. ASSUME NEW ip \in Ips
      PROVE  IpOK(ipSlidingWindows'[ip], TimesFor(log, ip), clock)
  <2>1. PICK x : x = ipSlidingWindows[ip]
    OBVIOUS
  <2>2. IpOK(x, TimesFor(log, ip), clock)
    BY <1>1, <2>1
  <2>3. ipSlidingWindows'[ip] = IF x # NONE /\ x[Len(x)] < clock - STALE THEN NONE ELSE x
    BY <2>1 DEF pruneStaleWindows
  <2>4. CASE x # NONE /\ x[Len(x)] < clock - STALE
    <3>1. IpOK(NONE, TimesFor(log, ip), clock)
      BY <1>1, <2>2, <2>4, IpPruned
    <3>. QED  BY <2>3, <2>4, <3>1
  <2>5. CASE ~(x # NONE /\ x[Len(x)] < clock - STALE)
    BY <2>2, <2>3, <2>5
  <2>. QED  BY <2>4, <2>5
<1>3. DOMAIN ipSlidingWindows' = Ips
  BY DEF pruneStaleWindows
<1>. QED  BY <1>2, <1>3 DEF DemoCounts

\* One without windows has none to drop.
LEMMA RotatedAtBoot ==
    ASSUME DemoCounts, ~up, clock' = clock, log' = log,
           globalTimestamps' = globalTimestamps, up',
           ipSlidingWindows' = pruneStaleWindows(NoWindows)
    PROVE  DemoCounts'
<1>1. clock \in Nat /\ log = <<>> /\ globalTimestamps = <<>>
  BY DEF DemoCounts
<1>2. ipSlidingWindows' = [ip \in Ips |-> NONE]
  BY DEF pruneStaleWindows, NoWindows
<1>3. IpOK(NONE, <<>>, clock)
  BY <1>1, NothingAdmitted
<1>. QED  BY <1>1, <1>2, <1>3, LogEmpty DEF DemoCounts

\* The demo's filter of a list.
LEMMA SameWithin ==
    ASSUME NEW s \in Seq(Nat), NEW span
    PROVE  Recent(s, span) = Since(s, 0, clock - span)
<1>1. Recent(s, span) = Through(s, {i \in DOMAIN s : s[i] > clock - span})
  BY DEF Recent
<1>2. \A i \in DOMAIN s : i > 0
  BY ListOf
<1>3. {i \in DOMAIN s : s[i] > clock - span} = Past(s, 0, clock - span)
  BY <1>2 DEF Past
<1>. QED  BY <1>1, <1>3 DEF Since

\* A request is admitted.
LEMMA ConsumeCounts ==
    ASSUME DemoCounts, NEW ip \in Ips, NEW token, checkAndConsume(ip, token)
    PROVE  DemoCounts'
<1>1. /\ clock \in Nat /\ log \in Seq(Entries) /\ AllOK(globalTimestamps, TimesOf(log), clock)
      /\ DOMAIN ipSlidingWindows = Ips
      /\ \A a \in Ips : IpOK(ipSlidingWindows[a], TimesFor(log, a), clock)
  BY DEF DemoCounts
<1>2. PICK x : x = ipSlidingWindows[ip]
  OBVIOUS
<1>3. IpOK(x, TimesFor(log, ip), clock)
  BY <1>1, <1>2
<1>4. PICK w : w = Window(x)
  OBVIOUS
<1>5. w \in Seq(Nat) /\ globalTimestamps \in Seq(Nat)
  BY <1>1, <1>3, <1>4, WindowList DEF AllOK
<1>6. Times(ip) = w
  BY <1>2, <1>4 DEF Times, Window
<1>7. PICK q : q = Since(w, 0, clock - DAY)
  OBVIOUS
<1>8. PICK g : g = Since(globalTimestamps, 0, clock - DAY)
  OBVIOUS
<1>9. /\ Len(Since(w, 0, clock - MINUTE)) < IpRpmLimit
      /\ Len(q) < IpRpdLimit
      /\ Len(Since(globalTimestamps, 0, clock - MINUTE)) < GlobalRpmLimit
      /\ Len(g) < GlobalRpdLimit
  BY <1>5, <1>6, <1>7, <1>8, SameWithin DEF checkAndConsume, checkRateLimit
<1>10. /\ globalTimestamps' = Append(g, clock)
       /\ ipSlidingWindows' = [ipSlidingWindows EXCEPT ![ip] = Append(q, clock)]
       /\ log' = Append(log, [ip |-> ip, at |-> clock])
       /\ clock' = clock /\ up' = up /\ up
  BY <1>5, <1>6, <1>7, <1>8, SameWithin DEF checkAndConsume, recordRequest
<1>11. PICK e \in Entries : e = [ip |-> ip, at |-> clock]
  BY <1>1 DEF Entries
<1>12. e.ip = ip /\ e.at = clock
  BY <1>11
<1>13. /\ TimesOf(log') = Append(TimesOf(log), clock)
       /\ TimesFor(log', ip) = Append(TimesFor(log, ip), clock)
       /\ \A a \in Ips : a # ip => TimesFor(log', a) = TimesFor(log, a)
  <2>1. PICK lg \in Seq(Entries) : lg = log
    BY <1>1
  <2>2. log' = Append(lg, e)
    BY <1>10, <1>11, <2>1
  <2>3. /\ TimesOf(Append(lg, e)) = Append(TimesOf(lg), e.at)
        /\ \A a : TimesFor(Append(lg, e), a) = IF e.ip = a THEN Append(TimesFor(lg, a), e.at)
                                                          ELSE TimesFor(lg, a)
    BY LogLonger
  <2>. QED  BY ONLY <1>12, <2>1, <2>2, <2>3
<1>14. AllOK(Append(g, clock), TimesOf(log'), clock)
  BY <1>1, <1>8, <1>9, <1>13, AllAdmits
<1>15. IpOK(Append(q, clock), TimesFor(log', ip), clock)
  BY <1>1, <1>3, <1>4, <1>7, <1>9, <1>13, IpAdmits
<1>16. ASSUME NEW a \in Ips PROVE IpOK(ipSlidingWindows'[a], TimesFor(log', a), clock)
  <2>1. CASE a = ip
    BY <1>1, <1>10, <1>15, <2>1
  <2>2. CASE a # ip
    BY <1>1, <1>10, <1>13, <2>2
  <2>. QED  BY <2>1, <2>2
<1>17. log' \in Seq(Entries)
  BY <1>1, <1>10, <1>11, AppendProperties
<1>18. DOMAIN ipSlidingWindows' = Ips
  BY <1>1, <1>10
<1>. QED  BY <1>1, <1>10, <1>14, <1>16, <1>17, <1>18 DEF DemoCounts

\* Time passes.
LEMMA TickCounts ==
    ASSUME DemoCounts, DemoTick
    PROVE  DemoCounts'
<1>1. clock' = clock + 1 /\ UNCHANGED <<up, globalTimestamps, ipSlidingWindows, log>>
  BY DEF DemoTick, memory
<1>2. clock \in Nat /\ clock + 1 \in Nat
  BY DEF DemoCounts
<1>3. AllOK(globalTimestamps, TimesOf(log), clock + 1)
  BY <1>2, AllLater DEF DemoCounts
<1>4. \A ip \in Ips : IpOK(ipSlidingWindows[ip], TimesFor(log, ip), clock + 1)
  BY <1>2, IpLater DEF DemoCounts
<1>. QED  BY <1>1, <1>2, <1>3, <1>4 DEF DemoCounts

\* A new token.
LEMMA RotatedNumbers ==
    ASSUME DemoTypes, NEW windows, rotateToken(windows),
           clock' = clock, up' \in BOOLEAN, firing' \in BOOLEAN
    PROVE  DemoTypes' /\ DemoToken'
<1>1. MaxClock \in Nat /\ ROTATION \in Nat /\ MaxTokens \in Nat
  BY DemoNumbers
<1>2. /\ issued < MaxTokens /\ issued' = issued + 1
      /\ currentToken' = issued + 1 /\ tokenExpiresAt' = clock + ROTATION
      /\ storage' = [token |-> issued + 1, expiry |-> clock + ROTATION]
      /\ promise' = NONE /\ alarmAt' = clock + ROTATION
  BY DEF rotateToken, FreshToken
<1>3. storage'.token = issued + 1 /\ storage'.expiry = clock + ROTATION
  BY <1>2
<1>4. issued \in 0..MaxTokens /\ clock \in 0..MaxClock
  BY DEF DemoTypes
<1>5. /\ issued + 1 \in 0..MaxTokens /\ issued + 1 \in 0..(issued + 1)
      /\ clock + ROTATION \in 0..(MaxClock + ROTATION)
  BY ONLY <1>1, <1>2, <1>4
<1>. QED  BY <1>2, <1>3, <1>4, <1>5 DEF DemoTypes, DemoToken

\* The constructor.
LEMMA BootInv == ASSUME DemoInv, Boot PROVE DemoInv'
<1>1. DemoTypes /\ DemoToken /\ DemoCounts
  BY DEF DemoInv
<1>2. /\ ~up /\ up' /\ up' = TRUE /\ clock' = clock /\ firing' = firing /\ log' = log
      /\ globalTimestamps' = globalTimestamps /\ evictions' = evictions
  BY DEF Boot
<1>3. CASE Restorable
  <2>1. /\ currentToken' = storage.token /\ tokenExpiresAt' = storage.expiry /\ alarmAt' = storage.expiry
        /\ ipSlidingWindows' = ipSlidingWindows /\ storage' = storage /\ issued' = issued
        /\ promise' = promise
    BY <1>3 DEF Boot, ensureInitialized
  <2>2. storage.token # NONE /\ storage.expiry # NONE
    BY <1>3 DEF Restorable
  <2>3. DemoTypes' /\ DemoToken'
    BY <1>1, <1>2, <2>1, <2>2 DEF DemoTypes, DemoToken
  <2>4. DemoCounts'
    BY <1>1, <1>2, <2>1, SameCounts
  <2>. QED  BY <2>3, <2>4 DEF DemoInv
<1>4. CASE ~Restorable
  <2>1. rotateToken(NoWindows)
    BY <1>4 DEF Boot, ensureInitialized
  <2>2. firing' \in BOOLEAN /\ up' \in BOOLEAN
    BY <1>1, <1>2 DEF DemoTypes
  <2>3. DemoTypes' /\ DemoToken'
    BY <1>1, <1>2, <2>1, <2>2, RotatedNumbers
  <2>4. ipSlidingWindows' = pruneStaleWindows(NoWindows)
    BY <2>1 DEF rotateToken
  <2>5. DemoCounts'
    BY <1>1, <1>2, <2>4, RotatedAtBoot
  <2>. QED  BY <2>3, <2>5 DEF DemoInv
<1>. QED  BY <1>3, <1>4

\* The object is lost between two events.
LEMMA DemoEvictInv == ASSUME DemoInv, DemoEvict PROVE DemoInv'
<1>1. DemoTypes /\ DemoToken /\ DemoCounts
  BY DEF DemoInv
<1>2. /\ clock' = clock /\ storage' = storage /\ alarmAt' = alarmAt /\ firing' = firing /\ issued' = issued
      /\ promise' = promise /\ Forget
  BY DEF DemoEvict
<1>3. up' = FALSE /\ currentToken' = 0 /\ tokenExpiresAt' = 0
  BY <1>2 DEF Forget
<1>4. DemoTypes'
  <2>1. MaxClock \in Nat /\ ROTATION \in Nat /\ MaxTokens \in Nat
    BY DemoNumbers
  <2>2. \A k \in 0..MaxTokens : 0 \in 0..k
    BY ONLY <2>1
  <2>3. 0 \in 0..(MaxClock + ROTATION)
    BY ONLY <2>1
  <2>. QED  BY <1>1, <1>2, <1>3, <2>2, <2>3 DEF DemoTypes
<1>5. DemoToken'
  BY <1>1, <1>2, <1>3 DEF DemoToken
<1>6. DemoCounts'
  BY <1>1, <1>2, ForgetCounts DEF DemoCounts
<1>. QED  BY <1>4, <1>5, <1>6 DEF DemoInv

\* It is lost in the middle of a rotation.
LEMMA LostInRotationInv == ASSUME DemoInv, LostInRotation PROVE DemoInv'
<1>1. DemoTypes /\ DemoToken /\ DemoCounts
  BY DEF DemoInv
<1>2. /\ clock' = clock /\ alarmAt' = alarmAt /\ firing' = firing
      /\ promise' = NONE /\ Forget
      /\ issued < MaxTokens /\ issued' = issued + 1
      /\ \/ storage' = [storage EXCEPT !.token = issued + 1]
         \/ storage' = [token |-> issued + 1, expiry |-> clock + ROTATION]
  BY DEF LostInRotation, FreshToken
<1>3. up' = FALSE /\ currentToken' = 0 /\ tokenExpiresAt' = 0
  BY <1>2 DEF Forget
<1>4. DemoTypes'
  <2>1. MaxClock \in Nat /\ ROTATION \in Nat /\ MaxTokens \in Nat
    BY DemoNumbers
  <2>2. issued \in 0..MaxTokens /\ clock \in 0..MaxClock
    BY <1>1 DEF DemoTypes
  <2>3. /\ issued + 1 \in 0..MaxTokens /\ issued + 1 \in 0..(issued + 1) /\ 0 \in 0..(issued + 1)
        /\ clock + ROTATION \in 0..(MaxClock + ROTATION) /\ 0 \in 0..(MaxClock + ROTATION)
    BY ONLY <1>2, <2>1, <2>2
  <2>4. storage' \in [token : 0..(issued + 1) \cup {NONE},
                  expiry : 0..(MaxClock + ROTATION) \cup {NONE}]
    <3>1. storage \in [token : 0..issued \cup {NONE}, expiry : 0..(MaxClock + ROTATION) \cup {NONE}]
      BY <1>1 DEF DemoTypes
    <3>. QED  BY ONLY <1>2, <2>3, <3>1
  <2>. QED  BY <1>1, <1>2, <1>3, <2>3, <2>4 DEF DemoTypes
<1>5. DemoToken'
  BY <1>2, <1>3 DEF DemoToken
<1>6. DemoCounts'
  BY <1>1, <1>2, ForgetCounts DEF DemoCounts
<1>. QED  BY <1>4, <1>5, <1>6 DEF DemoInv

\* A rotation, by the alarm or by the caller.
LEMMA RotateInv ==
    ASSUME DemoInv, up, rotateToken(ipSlidingWindows), firing' \in BOOLEAN,
           clock' = clock, up' = up, globalTimestamps' = globalTimestamps, log' = log
    PROVE  DemoInv'
<1>1. DemoTypes /\ DemoToken /\ DemoCounts /\ up' \in BOOLEAN
  BY DEF DemoInv, DemoTypes
<1>2. DemoTypes' /\ DemoToken'
  BY <1>1, RotatedNumbers
<1>3. ipSlidingWindows' = pruneStaleWindows(ipSlidingWindows)
  BY DEF rotateToken
<1>4. DemoCounts'
  BY <1>1, <1>3, RotatedCounts
<1>. QED  BY <1>2, <1>4 DEF DemoInv

\* Every step keeps the invariant.
LEMMA DemoNextInv == ASSUME DemoInv, [DemoNext]_demoVars PROVE DemoInv'
<1>1. DemoTypes /\ DemoToken /\ DemoCounts
  BY DEF DemoInv
<1>2. CASE Boot
  BY <1>2, BootInv
<1>3. CASE DemoEvict
  BY <1>3, DemoEvictInv
<1>4. CASE LostInRotation
  BY <1>4, LostInRotationInv
<1>5. CASE Deliver
  <2>1. /\ firing' = TRUE /\ alarmAt' = NONE /\ clock' = clock /\ up' = up /\ storage' = storage
        /\ currentToken' = currentToken /\ tokenExpiresAt' = tokenExpiresAt
        /\ ipSlidingWindows' = ipSlidingWindows /\ globalTimestamps' = globalTimestamps
        /\ issued' = issued /\ log' = log /\ promise' = promise
    BY <1>5 DEF Deliver, memory
  <2>2. DemoTypes' /\ DemoToken'
    BY <1>1, <2>1 DEF DemoTypes, DemoToken
  <2>3. DemoCounts'
    BY <1>1, <2>1, SameCounts
  <2>. QED  BY <2>2, <2>3 DEF DemoInv
<1>6. CASE rotationAlarm
  <2>1. /\ up /\ rotateToken(ipSlidingWindows) /\ firing' \in BOOLEAN /\ clock' = clock
        /\ up' = up /\ globalTimestamps' = globalTimestamps /\ log' = log
    BY <1>6 DEF rotationAlarm
  <2>. QED  BY <2>1, RotateInv
<1>7. CASE rotate
  <2>1. /\ up /\ rotateToken(ipSlidingWindows) /\ firing' = firing /\ clock' = clock
        /\ up' = up /\ globalTimestamps' = globalTimestamps /\ log' = log
    BY <1>7 DEF rotate
  <2>2. firing' \in BOOLEAN
    BY <1>1, <2>1 DEF DemoTypes
  <2>. QED  BY <2>1, <2>2, RotateInv
<1>8. CASE getActiveDemoToken
  <2>1. /\ promise' = [token |-> currentToken, expiresAt |-> tokenExpiresAt] /\ up
        /\ clock' = clock /\ up' = up /\ storage' = storage /\ alarmAt' = alarmAt /\ firing' = firing
        /\ currentToken' = currentToken /\ tokenExpiresAt' = tokenExpiresAt
        /\ ipSlidingWindows' = ipSlidingWindows /\ globalTimestamps' = globalTimestamps
        /\ issued' = issued /\ log' = log
    BY <1>8 DEF getActiveDemoToken, memory
  <2>2. promise'.token = currentToken /\ promise'.expiresAt = tokenExpiresAt
    BY <2>1
  <2>3. DemoTypes' /\ DemoToken'
    BY <1>1, <2>1, <2>2 DEF DemoTypes, DemoToken
  <2>4. DemoCounts'
    BY <1>1, <2>1, SameCounts
  <2>. QED  BY <2>3, <2>4 DEF DemoInv
<1>9. ASSUME NEW ip \in Ips, NEW token \in 1..issued, checkAndConsume(ip, token) PROVE DemoInv'
  <2>1. /\ clock' = clock /\ up' = up /\ currentToken' = currentToken
        /\ tokenExpiresAt' = tokenExpiresAt /\ storage' = storage /\ alarmAt' = alarmAt
        /\ firing' = firing /\ issued' = issued /\ promise' = promise
    BY <1>9 DEF checkAndConsume
  <2>2. DemoTypes' /\ DemoToken'
    BY <1>1, <2>1 DEF DemoTypes, DemoToken
  <2>3. DemoCounts'
    BY <1>1, <1>9, ConsumeCounts
  <2>. QED  BY <2>2, <2>3 DEF DemoInv
<1>10. CASE DemoTick
  <2>1. /\ clock < MaxClock /\ clock' = clock + 1 /\ up' = up /\ currentToken' = currentToken
        /\ tokenExpiresAt' = tokenExpiresAt /\ storage' = storage /\ alarmAt' = alarmAt
        /\ firing' = firing /\ issued' = issued /\ promise' = promise
    BY <1>10 DEF DemoTick, memory
  <2>2. clock + 1 \in 0..MaxClock
    <3>1. MaxClock \in Nat
      BY DemoNumbers
    <3>2. clock \in 0..MaxClock
      BY <1>1 DEF DemoTypes
    <3>. QED  BY ONLY <2>1, <3>1, <3>2
  <2>3. DemoTypes' /\ DemoToken'
    BY <1>1, <2>1, <2>2 DEF DemoTypes, DemoToken
  <2>4. DemoCounts'
    BY <1>1, <1>10, TickCounts
  <2>. QED  BY <2>3, <2>4 DEF DemoInv
<1>11. CASE UNCHANGED demoVars
  <2>1. /\ clock' = clock /\ up' = up /\ currentToken' = currentToken
        /\ tokenExpiresAt' = tokenExpiresAt /\ storage' = storage /\ alarmAt' = alarmAt
        /\ firing' = firing /\ issued' = issued /\ promise' = promise /\ log' = log
        /\ ipSlidingWindows' = ipSlidingWindows /\ globalTimestamps' = globalTimestamps
    BY <1>11 DEF demoVars, memory
  <2>2. DemoTypes' /\ DemoToken'
    BY <1>1, <2>1 DEF DemoTypes, DemoToken
  <2>3. DemoCounts'
    BY <1>1, <2>1, SameCounts
  <2>. QED  BY <2>2, <2>3 DEF DemoInv
<1>. QED
  BY <1>2, <1>3, <1>4, <1>5, <1>6, <1>7, <1>8, <1>9, <1>10, <1>11 DEF DemoNext

\* The demo's numbers keep their types, its windows remember what they must of
\* the requests that were admitted, and the token in memory and the one promised
\* are the stored one.
THEOREM DemoInductive == DemoSpec => []DemoInv
<1>1. DemoInit => DemoInv
  BY DemoInitInv
<1>2. DemoInv /\ [DemoNext]_demoVars => DemoInv'
  BY DemoNextInv
<1>. QED  BY <1>1, <1>2, PTL DEF DemoSpec

\* A token that was handed out keeps its time, also when the object is lost
\* meanwhile (ensureInitialized restores what persistTokenData stored).
THEOREM DemoPromiseKept == DemoSpec => []PromiseKept
<1>1. DemoInv => PromiseKept
  BY DEF DemoInv, DemoToken, PromiseKept
<1>. QED  BY <1>1, DemoInductive, PTL

\* Times until u are times of 0..u.
LEMMA UntilNow ==
    ASSUME NEW u \in Nat, NEW s \in Seq(Nat), Before(s, u)
    PROVE  s \in Seq(0..u)
<1>1. PICK n \in Nat : n = Len(s) /\ DOMAIN s = 1..n /\ s \in [1..n -> Nat]
  BY LenProperties
<1>2. \A i \in 1..n : s[i] \in 0..u
  BY <1>1 DEF Before
<1>3. s \in [1..n -> 0..u]
  BY <1>1, <1>2
<1>. QED  BY <1>3, SeqDef

\* No minute and no day admits more than the limits, of all requests and, in a
\* minute, of one address, and an address gets past its limit of a day only by
\* staying away so long that a rotation forgets it (checkRateLimit,
\* recordRequest, pruneStaleWindows).
THEOREM DemoCapsHold == DemoSpec => []CapsHold
<1>1. ASSUME DemoInv PROVE CapsHold
  <2>1. DemoTypes /\ DemoCounts
    BY <1>1 DEF DemoInv
  <2>2. clock \in Nat /\ AllOK(globalTimestamps, TimesOf(log), clock)
    BY <2>1 DEF DemoCounts
  <2>3. \A ip \in Ips : IpOK(ipSlidingWindows[ip], TimesFor(log, ip), clock)
    BY <2>1 DEF DemoCounts
  <2>4. DemoTypeOK
    <3>1. globalTimestamps \in Seq(0..clock)
      BY <2>2, UntilNow DEF AllOK
    <3>2. ASSUME NEW ip \in Ips, ipSlidingWindows[ip] # NONE
          PROVE  ipSlidingWindows[ip] \in Seq(0..clock) \ {<<>>}
      <4>1. PICK x : x = ipSlidingWindows[ip]
        OBVIOUS
      <4>2. x \in Seq(Nat) /\ Before(x, clock) /\ Len(x) \in Nat \ {0}
        BY <2>3, <3>2, <4>1 DEF IpOK, EndsWith
      <4>3. x # <<>>
        <5>1. Len(<<>>) = 0
          OBVIOUS
        <5>. QED  BY <4>2, <5>1
      <4>. QED  BY <2>2, <4>1, <4>2, <4>3, UntilNow
    <3>. QED  BY <2>1, <3>1, <3>2 DEF DemoTypeOK, DemoTypes
  <2>5. /\ AtMostIn(Admitted, MINUTE, GlobalRpmLimit)
        /\ AtMostIn(Admitted, DAY, GlobalRpdLimit)
    BY <2>2, SameTimes DEF AllOK
  <2>6. ASSUME NEW ip \in Ips
        PROVE  /\ AtMostIn(AdmittedTo(ip), MINUTE, IpRpmLimit)
               /\ DayKept(AdmittedTo(ip))
    BY <2>3, SameTimes DEF IpOK
  <2>. QED  BY <2>4, <2>5, <2>6 DEF CapsHold, DayKept
<1>. QED  BY <1>1, DemoInductive, PTL

=============================================================================
