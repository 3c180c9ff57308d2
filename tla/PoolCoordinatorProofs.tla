------------------------- MODULE PoolCoordinatorProofs -------------------------
(***************************************************************************)
(* Proofs about PoolCoordinator for every finite set of tenants, all       *)
(* volumes, windows and brake times.                                       *)
(***************************************************************************)
EXTENDS PoolCoordinator, FiniteSetTheorems, SequenceTheorems, WellFoundedInduction, TLAPS

\* The reports that the object and the history hold.
Report == [volume : Volumes, timestamp : Nat]
Logged == [tenant : Tenants, volume : Volumes, timestamp : Nat, wiped : BOOLEAN]

\* The reports after c: any, and those of a tenant that were not wiped.
Recent(c) == {v \in Report : v.timestamp > c}
RecentOf(t, c) == {v \in Logged : v.tenant = t /\ ~v.wiped /\ v.timestamp > c}

\* The tokens of the reports of a list that are in R.
VolumeIn(s, R) == VolumeAt(s, {i \in DOMAIN s : s[i] \in R})

\* From the beginning of the window on, whatever is left of it is left of it in
\* the object as in the history.
Kept(vols, reports, u) ==
    \A t \in Tenants, c \in Int :
        c >= u - WindowSeconds =>
            VolumeIn(vols[t], Recent(c)) = VolumeIn(reports, RecentOf(t, c))

\* All of a list is in the window that ends at u.
AllWithin(s, u) == \A i \in DOMAIN s : s[i].timestamp > u - WindowSeconds

\* The inductive invariant.
IndInv ==
    /\ RestartTransparent
    /\ AllWithin(log, now)
    /\ Kept(tenantVolumes, log, now)

-----------------------------------------------------------------------------
(* Sums over finite sets: Total *)

\* The element that the sum takes off a set first.
Pick(s) == CHOOSE x \in s : TRUE

\* g sums f over every subset of S, by the recursion of MapThenFoldSet.
Sums(f, S, g) ==
    g = [s \in SUBSET S |-> IF s = {} THEN 0 ELSE f[Pick(s)] + g[s \ {Pick(s)}]]

\* The sum that this recursion defines.
SumOver(f, S) == (CHOOSE g : Sums(f, S, g))[S]

\* Total, with its recursion in sight.
LEMMA TotalIsSum ==
    ASSUME NEW f, NEW S
    PROVE  Total(f, S) = SumOver(f, S)
BY DEF Total, SumOver, Sums, Pick, MapThenSumSet, MapThenFoldSet

\* A set of subsets of a finite set has a member that holds no other: induction,
\* in the form of the smallest counterexample.
LEMMA Smallest ==
    ASSUME NEW S, IsFiniteSet(S), NEW B, B \subseteq SUBSET S, B # {}
    PROVE  \E T \in B : \A U \in B : U \subseteq T => U = T
<1>1. B \subseteq FiniteSubsetsOf(S)
  BY FS_FiniteSubsetsOfFinite
<1>2. IsWellFoundedOn(StrictSubsetOrdering(S), FiniteSubsetsOf(S))
  BY FS_StrictSubsetOrderingWellFounded
<1>3. PICK T \in B : \A U \in B : ~(<<U, T>> \in StrictSubsetOrdering(S))
  BY <1>1, <1>2, WFMin
<1>4. ASSUME NEW U \in B, U \subseteq T, U # T
      PROVE  FALSE
  <2>1. <<U, T>> \in StrictSubsetOrdering(S)
    BY <1>4 DEF StrictSubsetOrdering
  <2>. QED  BY <1>3, <2>1
<1>. QED  BY <1>4

\* Two solutions agree where both are defined.
LEMMA SumsUnique ==
    ASSUME NEW f, NEW S, IsFiniteSet(S), NEW R, IsFiniteSet(R),
           NEW g, Sums(f, S, g), NEW h, Sums(f, R, h)
    PROVE  \A T \in (SUBSET S) \cap (SUBSET R) : g[T] = h[T]
<1>. DEFINE B == {T \in SUBSET S : T \subseteq R /\ g[T] # h[T]}
<1>. SUFFICES ASSUME B # {} PROVE FALSE
  OBVIOUS
<1>1. PICK T \in B : \A U \in B : U \subseteq T => U = T
  <2>. B \subseteq SUBSET S  OBVIOUS
  <2>. HIDE DEF B
  <2>. QED  BY Smallest
<1>2. T # {}
  BY DEF Sums
<1>3. Pick(T) \in T
  BY <1>2 DEF Pick
<1>4. g[T \ {Pick(T)}] = h[T \ {Pick(T)}]
  BY <1>1, <1>3
<1>5. g[T] = f[Pick(T)] + g[T \ {Pick(T)}] /\ h[T] = f[Pick(T)] + h[T \ {Pick(T)}]
  BY <1>2 DEF Sums
<1>. QED  BY <1>4, <1>5

\* The recursion has a solution.
LEMMA SumsExist ==
    ASSUME NEW f, NEW S, IsFiniteSet(S)
    PROVE  \E g : Sums(f, S, g)
<1>. DEFINE B == {T \in SUBSET S : ~\E g : Sums(f, T, g)}
<1>. SUFFICES ASSUME B # {} PROVE FALSE
  OBVIOUS
<1>1. PICK T \in B : \A U \in B : U \subseteq T => U = T
  <2>. B \subseteq SUBSET S  OBVIOUS
  <2>. HIDE DEF B
  <2>. QED  BY Smallest
<1>. DEFINE Sol(U) == CHOOSE g : Sums(f, U, g)
            g == [U \in SUBSET T |->
                     IF U = {} THEN 0
                     ELSE f[Pick(U)] + Sol(U \ {Pick(U)})[U \ {Pick(U)}]]
<1>2. \A U \in SUBSET T : IsFiniteSet(U) /\ (U # {} => Pick(U) \in U)
  BY FS_Subset DEF Pick
<1>3. \A U \in SUBSET T : U # T => Sums(f, U, Sol(U))
  <2>1. \A U \in SUBSET T : U # T => \E h : Sums(f, U, h)
    BY <1>1
  <2>. QED  BY <2>1
<1>4. ASSUME NEW U \in SUBSET T, U # T
      PROVE  g[U] = Sol(U)[U]
  <2>1. CASE U = {}
    <3>. DEFINE h == Sol(U)
    <3>1. Sums(f, U, h)
      BY <1>3, <1>4
    <3>. HIDE DEF h
    <3>2. h[U] = 0
      BY <2>1, <3>1 DEF Sums
    <3>. QED  BY <2>1, <3>2 DEF h
  <2>2. CASE U # {}
    <3>. DEFINE V == U \ {Pick(U)}
    <3>1. V \in SUBSET U /\ V # T /\ V \in SUBSET T
      BY <1>2, <2>2, <1>4
    <3>2. Sums(f, U, Sol(U)) /\ Sums(f, V, Sol(V))
      BY <1>3, <1>4, <3>1
    <3>3. Sol(U)[U] = f[Pick(U)] + Sol(U)[V]
      BY <3>2, <2>2 DEF Sums
    <3>4. Sol(U)[V] = Sol(V)[V]
      <4>1. IsFiniteSet(U) /\ IsFiniteSet(V) /\ V \in (SUBSET U) \cap (SUBSET V)
        BY <1>2, <3>1
      <4>. DEFINE a == Sol(U)  b == Sol(V)
      <4>2. Sums(f, U, a) /\ Sums(f, V, b)
        BY <3>2
      <4>. HIDE DEF a, b, V
      <4>3. a[V] = b[V]
        BY <4>1, <4>2, SumsUnique
      <4>. QED  BY <4>3 DEF a, b
    <3>. QED  BY <3>3, <3>4, <2>2
  <2>. QED  BY <2>1, <2>2
<1>5. g = [U \in SUBSET T |-> IF U = {} THEN 0 ELSE f[Pick(U)] + g[U \ {Pick(U)}]]
  <2>1. ASSUME NEW U \in SUBSET T, U # {}
        PROVE  Sol(U \ {Pick(U)})[U \ {Pick(U)}] = g[U \ {Pick(U)}]
    <3>1. U \ {Pick(U)} \in SUBSET T /\ U \ {Pick(U)} # T
      BY <1>2, <2>1
    <3>. HIDE DEF g, Sol
    <3>. QED  BY <1>4, <3>1
  <2>. DEFINE h == [U \in SUBSET T |-> IF U = {} THEN 0 ELSE f[Pick(U)] + g[U \ {Pick(U)}]]
  <2>2. \A U \in SUBSET T : g[U] = h[U]
    <3>. TAKE U \in SUBSET T
    <3>1. CASE U = {}
      BY <3>1
    <3>2. CASE U # {}
      <4>. DEFINE V == U \ {Pick(U)}
      <4>1. g[U] = f[Pick(U)] + Sol(V)[V]
        BY <3>2
      <4>2. Sol(V)[V] = g[V]
        BY <3>2, <2>1
      <4>3. h[U] = f[Pick(U)] + g[V]
        <5>. HIDE DEF g
        <5>. QED  BY <3>2
      <4>. HIDE DEF g, h, V
      <4>. QED  BY <4>1, <4>2, <4>3
    <3>. QED  BY <3>1, <3>2
  <2>. QED  BY <2>2
<1>6. Sums(f, T, g)
  BY <1>5 DEF Sums
<1>. QED  BY <1>1, <1>6

\* What the sum is.
LEMMA SumUnfold ==
    ASSUME NEW f, NEW S, IsFiniteSet(S)
    PROVE  /\ SumOver(f, {}) = 0
           /\ S # {} => Pick(S) \in S /\ SumOver(f, S) = f[Pick(S)] + SumOver(f, S \ {Pick(S)})
<1>. DEFINE Sol(U) == CHOOSE g : Sums(f, U, g)
<1>1. Sums(f, {}, Sol({})) /\ Sums(f, S, Sol(S))
  BY SumsExist, FS_EmptySet
<1>2. SumOver(f, {}) = 0
  BY <1>1 DEF SumOver, Sums
<1>3. ASSUME S # {}
      PROVE  Pick(S) \in S /\ SumOver(f, S) = f[Pick(S)] + SumOver(f, S \ {Pick(S)})
  <2>1. Pick(S) \in S
    BY <1>3 DEF Pick
  <2>. DEFINE V == S \ {Pick(S)}
  <2>2. IsFiniteSet(V) /\ V \subseteq S
    BY FS_Subset
  <2>3. Sums(f, V, Sol(V))
    BY <2>2, SumsExist
  <2>4. Sol(S)[V] = Sol(V)[V]
    <3>. DEFINE a == Sol(S)  b == Sol(V)
    <3>1. Sums(f, S, a) /\ Sums(f, V, b) /\ V \in (SUBSET S) \cap (SUBSET V)
      BY <1>1, <2>2, <2>3
    <3>. HIDE DEF a, b, V
    <3>2. a[V] = b[V]
      BY <2>2, <3>1, SumsUnique
    <3>. QED  BY <3>2 DEF a, b
  <2>5. Sol(S)[S] = f[Pick(S)] + Sol(S)[V]
    BY <1>1, <1>3 DEF Sums
  <2>. QED  BY <2>1, <2>4, <2>5 DEF SumOver
<1>. QED  BY <1>2, <1>3

\* A sum of naturals is one.
LEMMA SumType ==
    ASSUME NEW f, NEW S, IsFiniteSet(S), \A x \in S : f[x] \in Nat
    PROVE  SumOver(f, S) \in Nat
<1>. DEFINE B == {T \in SUBSET S : SumOver(f, T) \notin Nat}
<1>. SUFFICES ASSUME B # {} PROVE FALSE
  OBVIOUS
<1>1. PICK T \in B : \A U \in B : U \subseteq T => U = T
  <2>. B \subseteq SUBSET S  OBVIOUS
  <2>. HIDE DEF B
  <2>. QED  BY Smallest
<1>2. IsFiniteSet(T) /\ T \subseteq S
  BY FS_Subset
<1>3. T # {}
  <2>1. SumOver(f, {}) = 0
    BY SumUnfold, FS_EmptySet
  <2>. QED  BY <2>1
<1>4. Pick(T) \in T /\ SumOver(f, T) = f[Pick(T)] + SumOver(f, T \ {Pick(T)})
  BY SumUnfold, <1>2, <1>3
<1>5. SumOver(f, T \ {Pick(T)}) \in Nat
  BY <1>1, <1>4
<1>. QED  BY <1>2, <1>4, <1>5

\* Any element may be taken off first.
LEMMA SumTakeOff ==
    ASSUME NEW f, NEW S, IsFiniteSet(S), \A x \in S : f[x] \in Nat, NEW e \in S
    PROVE  SumOver(f, S) = f[e] + SumOver(f, S \ {e})
<1>. DEFINE B == {T \in SUBSET S : \E x \in T : SumOver(f, T) # f[x] + SumOver(f, T \ {x})}
<1>. SUFFICES ASSUME B # {} PROVE FALSE
  OBVIOUS
<1>1. PICK T \in B : \A U \in B : U \subseteq T => U = T
  <2>. B \subseteq SUBSET S  OBVIOUS
  <2>. HIDE DEF B
  <2>. QED  BY Smallest
<1>2. PICK x \in T : SumOver(f, T) # f[x] + SumOver(f, T \ {x})
  OBVIOUS
<1>3. IsFiniteSet(T) /\ T \subseteq S /\ T # {} /\ IsFiniteSet(T \ {x})
  BY FS_Subset
<1>. DEFINE c == Pick(T)
<1>4. c \in T /\ SumOver(f, T) = f[c] + SumOver(f, T \ {c})
  BY SumUnfold, <1>3
<1>5. x # c
  BY <1>2, <1>4
<1>. DEFINE R == T \ {x, c}
<1>6. SumOver(f, T \ {c}) = f[x] + SumOver(f, R)
  <2>1. T \ {c} \in SUBSET S /\ T \ {c} \notin B
    BY <1>1, <1>4
  <2>2. (T \ {c}) \ {x} = R
    OBVIOUS
  <2>. QED  BY <2>1, <2>2, <1>5
<1>7. SumOver(f, T \ {x}) = f[c] + SumOver(f, R)
  <2>1. T \ {x} \in SUBSET S /\ T \ {x} \notin B
    BY <1>1
  <2>2. (T \ {x}) \ {c} = R
    OBVIOUS
  <2>. QED  BY <2>1, <2>2, <1>4, <1>5
<1>8. SumOver(f, R) \in Nat /\ f[x] \in Nat /\ f[c] \in Nat
  <2>1. IsFiniteSet(R) /\ R \subseteq S
    BY <1>3, FS_Subset
  <2>. HIDE DEF R
  <2>. QED  BY <2>1, SumType, <1>3, <1>4
<1>. HIDE DEF R, c
<1>. QED  BY <1>2, <1>4, <1>6, <1>7, <1>8

\* An element that joins adds its value.
LEMMA SumAdd ==
    ASSUME NEW f, NEW S, IsFiniteSet(S), NEW e, e \notin S,
           \A x \in S \cup {e} : f[x] \in Nat
    PROVE  SumOver(f, S \cup {e}) = SumOver(f, S) + f[e]
<1>1. IsFiniteSet(S \cup {e}) /\ (S \cup {e}) \ {e} = S /\ e \in S \cup {e}
  BY FS_AddElement
<1>2. SumOver(f, S \cup {e}) = f[e] + SumOver(f, (S \cup {e}) \ {e})
  BY <1>1, SumTakeOff
<1>3. SumOver(f, S) \in Nat
  BY SumType
<1>4. f[e] \in Nat
  OBVIOUS
<1>. QED  BY <1>1, <1>2, <1>3, <1>4

\* Two functions that agree on a set have the same sum over it.
LEMMA SumSame ==
    ASSUME NEW f, NEW g, NEW S, IsFiniteSet(S), \A x \in S : f[x] = g[x] /\ f[x] \in Nat
    PROVE  SumOver(f, S) = SumOver(g, S)
<1>. DEFINE B == {T \in SUBSET S : SumOver(f, T) # SumOver(g, T)}
<1>. SUFFICES ASSUME B # {} PROVE FALSE
  OBVIOUS
<1>1. PICK T \in B : \A U \in B : U \subseteq T => U = T
  <2>. B \subseteq SUBSET S  OBVIOUS
  <2>. HIDE DEF B
  <2>. QED  BY Smallest
<1>2. IsFiniteSet(T) /\ T \subseteq S
  BY FS_Subset
<1>3. T # {}
  <2>1. SumOver(f, {}) = 0 /\ SumOver(g, {}) = 0
    BY SumUnfold, FS_EmptySet
  <2>. QED  BY <2>1
<1>4. /\ Pick(T) \in T /\ SumOver(f, T) = f[Pick(T)] + SumOver(f, T \ {Pick(T)})
      /\ SumOver(g, T) = g[Pick(T)] + SumOver(g, T \ {Pick(T)})
  BY SumUnfold, <1>2, <1>3
<1>5. SumOver(f, T \ {Pick(T)}) = SumOver(g, T \ {Pick(T)})
  BY <1>1, <1>4
<1>. QED  BY <1>2, <1>4, <1>5

\* A sum over places may be taken over what the places are mapped to.
LEMMA SumMoved ==
    ASSUME NEW S, IsFiniteSet(S), NEW P, IsFiniteSet(P), NEW at \in [S -> P],
           \A i, j \in S : at[i] = at[j] => i = j,
           NEW f, \A p \in P : f[p] \in Nat,
           NEW g, \A i \in S : g[i] = f[at[i]]
    PROVE  SumOver(g, S) = SumOver(f, {at[i] : i \in S})
<1>. DEFINE Image(T) == {at[i] : i \in T}
            B == {T \in SUBSET S : SumOver(g, T) # SumOver(f, Image(T))}
<1>. SUFFICES ASSUME B # {} PROVE FALSE
  <2>1. S \in SUBSET S
    OBVIOUS
  <2>. QED  BY <2>1
<1>1. PICK T \in B : \A U \in B : U \subseteq T => U = T
  <2>. B \subseteq SUBSET S  OBVIOUS
  <2>. HIDE DEF B
  <2>. QED  BY Smallest
<1>2. IsFiniteSet(T) /\ T \subseteq S
  BY FS_Subset
<1>3. T # {}
  <2>1. SumOver(g, {}) = 0 /\ SumOver(f, {}) = 0
    BY SumUnfold, FS_EmptySet
  <2>2. Image({}) = {}
    OBVIOUS
  <2>. QED  BY <2>1, <2>2
<1>. DEFINE c == Pick(T)
            U == T \ {c}
<1>4. c \in T /\ SumOver(g, T) = g[c] + SumOver(g, U)
  BY SumUnfold, <1>2, <1>3
<1>5. SumOver(g, U) = SumOver(f, Image(U))
  <2>1. U \in SUBSET S /\ U # T /\ U \subseteq T
    BY <1>2, <1>4
  <2>. QED  BY <1>1, <2>1
<1>6. /\ Image(T) = Image(U) \cup {at[c]} /\ at[c] \notin Image(U)
      /\ Image(U) \subseteq P /\ at[c] \in P
  <2>1. T = U \cup {c} /\ c \notin U /\ c \in S /\ U \subseteq S
    BY <1>2, <1>4
  <2>. HIDE DEF c, U
  <2>. QED  BY <2>1
<1>7. IsFiniteSet(Image(U)) /\ \A p \in Image(U) \cup {at[c]} : f[p] \in Nat
  <2>1. Image(U) \in SUBSET P
    BY <1>6
  <2>. HIDE DEF Image, U, c
  <2>. QED  BY <1>6, <2>1, FS_Subset
<1>8. SumOver(f, Image(T)) = SumOver(f, Image(U)) + f[at[c]]
  <2>. HIDE DEF Image, U, c
  <2>. QED  BY <1>6, <1>7, SumAdd
<1>9. SumOver(f, Image(U)) \in Nat /\ f[at[c]] \in Nat /\ g[c] = f[at[c]]
  <2>1. SumOver(f, Image(U)) \in Nat
    <3>. HIDE DEF Image, U, c
    <3>. QED  BY <1>7, SumType
  <2>2. c \in S
    BY <1>2, <1>4
  <2>. QED  BY <1>7, <2>1, <2>2
<1>10. SumOver(g, T) = SumOver(f, Image(T))
  <2>. HIDE DEF Image, U, c
  <2>. QED  BY <1>4, <1>5, <1>8, <1>9
<1>. QED  BY <1>1, <1>10

\* The sum of two disjoint sets.
LEMMA SumUnion ==
    ASSUME NEW f, NEW S, IsFiniteSet(S), NEW R, IsFiniteSet(R), S \cap R = {},
           \A x \in S \cup R : f[x] \in Nat
    PROVE  SumOver(f, S \cup R) = SumOver(f, S) + SumOver(f, R)
<1>. DEFINE B == {T \in SUBSET R : SumOver(f, S \cup T) # SumOver(f, S) + SumOver(f, T)}
<1>. SUFFICES ASSUME B # {} PROVE FALSE
  <2>1. R \in SUBSET R
    OBVIOUS
  <2>. QED  BY <2>1
<1>1. PICK T \in B : \A U \in B : U \subseteq T => U = T
  <2>. B \subseteq SUBSET R  OBVIOUS
  <2>. HIDE DEF B
  <2>. QED  BY Smallest
<1>2. IsFiniteSet(T) /\ T \subseteq R
  BY FS_Subset
<1>3. T # {}
  <2>1. SumOver(f, {}) = 0 /\ SumOver(f, S) \in Nat
    BY SumUnfold, SumType, FS_EmptySet
  <2>2. S \cup {} = S
    OBVIOUS
  <2>. QED  BY <2>1, <2>2
<1>. DEFINE c == Pick(T)
            U == T \ {c}
<1>4. c \in T /\ SumOver(f, T) = f[c] + SumOver(f, U)
  BY SumUnfold, <1>2, <1>3
<1>5. SumOver(f, S \cup U) = SumOver(f, S) + SumOver(f, U)
  <2>1. U \in SUBSET R /\ U # T /\ U \subseteq T
    BY <1>2, <1>4
  <2>. QED  BY <1>1, <2>1
<1>6. /\ IsFiniteSet(U) /\ IsFiniteSet(S \cup U) /\ c \notin S \cup U
      /\ S \cup T = (S \cup U) \cup {c} /\ U \subseteq R /\ c \in R
  <2>1. U \in SUBSET T /\ c \in T
    BY <1>4
  <2>2. IsFiniteSet(U)
    <3>. HIDE DEF U
    <3>. QED  BY <1>2, <2>1, FS_Subset
  <2>3. IsFiniteSet(S \cup U)
    <3>. HIDE DEF U
    <3>. QED  BY <2>2, FS_Union
  <2>. QED  BY <1>2, <2>1, <2>2, <2>3
<1>. HIDE DEF U, c
<1>7. SumOver(f, S \cup T) = SumOver(f, S \cup U) + f[c]
  <2>. DEFINE W == S \cup U
  <2>1. IsFiniteSet(W) /\ c \notin W /\ \A x \in W \cup {c} : f[x] \in Nat
    BY <1>6
  <2>. HIDE DEF W
  <2>2. SumOver(f, W \cup {c}) = SumOver(f, W) + f[c]
    BY <2>1, SumAdd
  <2>. QED  BY <1>6, <2>2 DEF W
<1>8. SumOver(f, S) \in Nat /\ SumOver(f, U) \in Nat /\ f[c] \in Nat
  BY <1>6, SumType
<1>. QED  BY <1>1, <1>4, <1>5, <1>7, <1>8

\* Sets of summands apart from each other, and the sum of each.
Parts(P, D, f, g, of) ==
    /\ IsFiniteSet(P) /\ IsFiniteSet(D) /\ \A x \in D : f[x] \in Nat
    /\ \A i \in P : of[i] \subseteq D /\ g[i] = SumOver(f, of[i])
    /\ \A i, j \in P : i # j => of[i] \cap of[j] = {}

\* The sum of the sums is the sum of them all.
LEMMA SumOfParts ==
    ASSUME NEW P, NEW D, NEW f, NEW g, NEW of, Parts(P, D, f, g, of)
    PROVE  SumOver(g, P) = SumOver(f, UNION {of[i] : i \in P})
<1>. DEFINE All(T) == UNION {of[i] : i \in T}
            B == {T \in SUBSET P : SumOver(g, T) # SumOver(f, All(T))}
<1>0. /\ IsFiniteSet(P) /\ IsFiniteSet(D) /\ \A x \in D : f[x] \in Nat
      /\ \A i \in P : of[i] \subseteq D /\ g[i] = SumOver(f, of[i])
      /\ \A i, j \in P : i # j => of[i] \cap of[j] = {}
  BY DEF Parts
<1>. USE <1>0
<1>. SUFFICES ASSUME B # {} PROVE FALSE
  <2>1. P \in SUBSET P
    OBVIOUS
  <2>. QED  BY <2>1
<1>1. PICK T \in B : \A U \in B : U \subseteq T => U = T
  <2>. B \subseteq SUBSET P  OBVIOUS
  <2>. HIDE DEF B
  <2>. QED  BY Smallest
<1>2. IsFiniteSet(T) /\ T \subseteq P
  BY FS_Subset
<1>3. T # {}
  <2>1. SumOver(g, {}) = 0 /\ SumOver(f, {}) = 0
    BY SumUnfold, FS_EmptySet
  <2>2. All({}) = {}
    OBVIOUS
  <2>. QED  BY <2>1, <2>2
<1>. DEFINE c == Pick(T)
            U == T \ {c}
<1>4. c \in T /\ SumOver(g, T) = g[c] + SumOver(g, U)
  BY SumUnfold, <1>2, <1>3
<1>5. SumOver(g, U) = SumOver(f, All(U))
  <2>1. U \in SUBSET P /\ U # T /\ U \subseteq T
    BY <1>2, <1>4
  <2>. QED  BY <1>1, <2>1
<1>6. All(T) = of[c] \cup All(U) /\ of[c] \cap All(U) = {}
  <2>1. \A i \in U : i \in P /\ c \in P /\ i # c
    BY <1>2, <1>4
  <2>2. \A i \in U : of[i] \cap of[c] = {}
    BY <2>1
  <2>3. T = U \cup {c}
    BY <1>4
  <2>. HIDE DEF c, U
  <2>. QED  BY <2>2, <2>3
<1>7. /\ IsFiniteSet(of[c]) /\ IsFiniteSet(All(U)) /\ g[c] = SumOver(f, of[c])
      /\ \A x \in of[c] \cup All(U) : f[x] \in Nat
  <2>1. of[c] \subseteq D /\ g[c] = SumOver(f, of[c])
    BY <1>2, <1>4
  <2>2. All(U) \subseteq D
    BY <1>2
  <2>. HIDE DEF All, c, U
  <2>. QED  BY <2>1, <2>2, FS_Subset
<1>8. SumOver(f, All(T)) = SumOver(f, of[c]) + SumOver(f, All(U))
  <2>. HIDE DEF All, c, U
  <2>. QED  BY <1>6, <1>7, SumUnion
<1>. QED  BY <1>1, <1>4, <1>5, <1>7, <1>8

-----------------------------------------------------------------------------
(* Filters, and the tokens of a list *)

\* The places of P in order, each once, as a filter goes through them.
Placed(at, s, P) ==
    /\ at \in [1..Cardinality(P) -> P]
    /\ \A i, j \in 1..Cardinality(P) : i < j => at[i] < at[j]
    /\ \A p \in P : \E i \in 1..Cardinality(P) : at[i] = p
    /\ Through(s, P) = [j \in 1..Cardinality(P) |-> s[at[j]]]

\* A filter goes through the places that it is asked for.
LEMMA ThroughPlaces ==
    ASSUME NEW n \in Nat, NEW P, P \subseteq 1..n, NEW s
    PROVE  /\ IsFiniteSet(P) /\ Cardinality(P) \in Nat
           /\ \E at : Placed(at, s, P)
<1>. DEFINE m == Cardinality(P)
            Upto(i) == {h \in P : h <= i}
            rank == [i \in P |-> Cardinality(Upto(i))]
            at == [j \in 1..m |-> CHOOSE i \in P : Cardinality(Upto(i)) = j]
<1>1. IsFiniteSet(P) /\ m \in Nat
  <2>1. IsFiniteSet(1..n)
    BY FS_Interval
  <2>. QED  BY <2>1, FS_Subset, FS_CardinalityType
<1>2. ASSUME NEW i \in P
      PROVE  /\ IsFiniteSet(Upto(i)) /\ Cardinality(Upto(i)) \in 1..m
  <2>1. Upto(i) \in SUBSET P /\ i \in Upto(i)
    OBVIOUS
  <2>. HIDE DEF Upto
  <2>2. IsFiniteSet(Upto(i)) /\ Cardinality(Upto(i)) <= m
    BY <1>1, <2>1, FS_Subset
  <2>3. Cardinality(Upto(i)) \in Nat /\ Cardinality(Upto(i)) # 0
    BY <2>1, <2>2, FS_CardinalityType, FS_EmptySet
  <2>. QED  BY <1>1, <2>2, <2>3
<1>3. ASSUME NEW i \in P, NEW j \in P, i < j
      PROVE  Cardinality(Upto(i)) < Cardinality(Upto(j))
  <2>1. Upto(i) \in SUBSET Upto(j) /\ Upto(i) # Upto(j)
    <3>1. i \in Int /\ j \in Int /\ P \subseteq Int
      OBVIOUS
    <3>2. j \in Upto(j) /\ j \notin Upto(i)
      BY <1>3, <3>1
    <3>3. \A h \in P : h <= i => h <= j
      BY <1>3, <3>1
    <3>. QED  BY <3>2, <3>3
  <2>. HIDE DEF Upto
  <2>2. IsFiniteSet(Upto(j)) /\ Cardinality(Upto(i)) \in 1..m /\ Cardinality(Upto(j)) \in 1..m
    BY <1>2
  <2>3. /\ Cardinality(Upto(i)) <= Cardinality(Upto(j))
        /\ Cardinality(Upto(i)) # Cardinality(Upto(j))
    BY <2>1, <2>2, FS_Subset
  <2>. QED  BY <1>1, <2>2, <2>3
<1>4. rank \in Surjection(P, 1..m)
  <2>1. rank \in [P -> 1..m]
    <3>. HIDE DEF Upto
    <3>. QED  BY <1>2
  <2>2. \A i, j \in P : rank[i] = rank[j] => i = j
    <3>. SUFFICES ASSUME NEW i \in P, NEW j \in P, rank[i] = rank[j], i # j
                  PROVE  FALSE
      OBVIOUS
    <3>1. i \in Int /\ j \in Int /\ (i < j \/ j < i)
      OBVIOUS
    <3>2. rank[i] < rank[j] \/ rank[j] < rank[i]
      BY <1>3, <3>1
    <3>3. rank[i] \in Int /\ rank[j] \in Int
      BY <1>1, <2>1
    <3>. QED  BY <3>2, <3>3
  <2>3. rank \in Injection(P, 1..m)
    <3>. HIDE DEF rank, m
    <3>. QED  BY <2>1, <2>2 DEF Injection, IsInjective
  <2>4. IsFiniteSet(1..m) /\ Cardinality(1..m) = m
    BY <1>1, FS_Interval
  <2>5. rank \in Surjection(P, 1..m) <=> Cardinality(P) = Cardinality(1..m)
    <3>. DEFINE R == 1..m
    <3>1. rank \in Injection(P, R) /\ IsFiniteSet(R)
      BY <2>3, <2>4
    <3>2. rank \in Surjection(P, R) <=> Cardinality(P) = Cardinality(R)
      <4>. HIDE DEF rank, R
      <4>. QED  BY ONLY <3>1, FS_Injection
    <3>. QED  BY <3>2
  <2>. QED  BY <2>4, <2>5
<1>5. \A j \in 1..m : at[j] \in P /\ rank[at[j]] = j
  <2>1. \A j \in 1..m : \E i \in P : rank[i] = j
    <3>. HIDE DEF rank
    <3>. QED  BY <1>4 DEF Surjection
  <2>. HIDE DEF Upto
  <2>. QED  BY <2>1
<1>6. at \in [1..m -> P]
  BY <1>5
<1>7. ASSUME NEW i \in 1..m, NEW j \in 1..m, i < j
      PROVE  at[i] < at[j]
  <2>1. at[i] \in P /\ at[j] \in P /\ rank[at[i]] = i /\ rank[at[j]] = j
    BY <1>5
  <2>2. at[i] \in Int /\ at[j] \in Int /\ i \in Int /\ j \in Int
    <3>1. P \subseteq Int
      OBVIOUS
    <3>2. i \in Int /\ j \in Int
      <4>. HIDE DEF m
      <4>. QED  BY <1>1
    <3>3. at[i] \in P /\ at[j] \in P
      BY <2>1
    <3>. HIDE DEF at
    <3>. QED  BY <3>1, <3>2, <3>3
  <2>3. at[j] < at[i] => rank[at[j]] < rank[at[i]]
    <3>. HIDE DEF at, Upto
    <3>. QED  BY <1>3, <2>1
  <2>4. at[i] # at[j]
    <3>. HIDE DEF at, rank
    <3>. QED  BY <1>7, <2>1, <2>2
  <2>. HIDE DEF at, rank
  <2>. QED  BY <1>7, <2>1, <2>2, <2>3, <2>4
<1>8. ASSUME NEW p \in P
      PROVE  \E i \in 1..m : at[i] = p
  <2>. DEFINE r == rank[p]
  <2>1. r \in 1..m
    BY <1>2
  <2>2. at[r] \in P /\ rank[at[r]] = rank[p]
    BY <1>5, <2>1
  <2>3. at[r] = p
    <3>1. p \in Int /\ at[r] \in Int
      <4>1. P \subseteq Int
        OBVIOUS
      <4>. HIDE DEF at, rank, r
      <4>. QED  BY <2>2, <4>1
    <3>2. at[r] < p => rank[at[r]] < rank[p]
      <4>. HIDE DEF at, Upto, r
      <4>. QED  BY <1>3, <2>2
    <3>3. p < at[r] => rank[p] < rank[at[r]]
      <4>. HIDE DEF at, Upto, r
      <4>. QED  BY <1>3, <2>2
    <3>4. rank[p] \in Int
      BY <1>1, <2>1
    <3>. HIDE DEF at, r, rank
    <3>. QED  BY <2>2, <3>1, <3>2, <3>3, <3>4
  <2>. QED  BY <2>1, <2>3
<1>9. Through(s, P) = [j \in 1..m |-> s[at[j]]]
  <2>1. \A j \in 1..m : at[j] = CHOOSE i \in P : Cardinality({h \in P : h <= i}) = j
    OBVIOUS
  <2>2. Through(s, P) =
            [j \in 1..m |-> s[CHOOSE i \in P : Cardinality({h \in P : h <= i}) = j]]
    BY DEF Through
  <2>. HIDE DEF at, m
  <2>3. \A j \in 1..m : s[CHOOSE i \in P : Cardinality({h \in P : h <= i}) = j] = s[at[j]]
    BY <2>1
  <2>. QED  BY <2>2, <2>3
<1>. HIDE DEF at
<1>10. Placed(at, s, P)
  BY <1>6, <1>7, <1>8, <1>9 DEF Placed
<1>. QED  BY <1>1, <1>10

\* What a list of a type is.
LEMMA ListOf ==
    ASSUME NEW R, NEW s \in Seq(R)
    PROVE  /\ Len(s) \in Nat /\ DOMAIN s = 1..Len(s) /\ IsFiniteSet(DOMAIN s)
           /\ \A i \in 1..Len(s) : s[i] \in R
<1>1. Len(s) \in Nat /\ DOMAIN s = 1..Len(s) /\ s \in [1..Len(s) -> R]
  BY LenProperties
<1>2. IsFiniteSet(1..Len(s))
  BY <1>1, FS_Interval
<1>. QED  BY <1>1, <1>2

\* All of q is at some place of P in s.
TakenFrom(q, s, P) == \A i \in 1..Len(q) : \E p \in P : q[i] = s[p]

\* What is filtered out of a list is a list of the type.
LEMMA ThroughList ==
    ASSUME NEW R, NEW s \in Seq(R), NEW P, P \subseteq 1..Len(s)
    PROVE  /\ Through(s, P) \in Seq(R)
           /\ Len(Through(s, P)) = Cardinality(P) /\ Len(Through(s, P)) <= Len(s)
           /\ TakenFrom(Through(s, P), s, P)
<1>. DEFINE m == Cardinality(P)
            q == Through(s, P)
<1>1. Len(s) \in Nat /\ \A i \in 1..Len(s) : s[i] \in R
  BY ListOf
<1>2. m \in Nat /\ \E at : Placed(at, s, P)
  BY <1>1, ThroughPlaces
<1>3. PICK at \in [1..m -> P] : q = [j \in 1..m |-> s[at[j]]]
  BY <1>2 DEF Placed
<1>4. m <= Len(s)
  <2>. DEFINE D == 1..Len(s)
  <2>1. IsFiniteSet(D) /\ Cardinality(D) = Len(s) /\ P \in SUBSET D
    <3>. DEFINE n == Len(s)
    <3>1. n \in Nat /\ P \subseteq 1..n
      BY <1>1
    <3>. HIDE DEF n
    <3>2. IsFiniteSet(1..n) /\ Cardinality(1..n) = n
      BY <3>1, FS_Interval
    <3>. QED  BY <3>1, <3>2 DEF n
  <2>. HIDE DEF D
  <2>2. Cardinality(P) <= Cardinality(D)
    BY <2>1, FS_Subset
  <2>. QED  BY <2>1, <2>2
<1>. HIDE DEF m, q
<1>5. \A i \in 1..m : at[i] \in P /\ q[i] = s[at[i]] /\ q[i] \in R
  BY <1>1, <1>3
<1>6. q \in [1..m -> R]
  BY <1>3, <1>5
<1>7. q \in Seq(R)
  BY <1>2, <1>6, SeqDef
<1>8. Len(q) = m
  <2>1. DOMAIN q = 1..m /\ DOMAIN q = 1..Len(q) /\ Len(q) \in Nat
    BY <1>6, <1>7, LenProperties
  <2>. QED  BY <1>2, <2>1
<1>9. TakenFrom(q, s, P)
  BY <1>5, <1>8 DEF TakenFrom
<1>. QED  BY <1>4, <1>7, <1>8, <1>9 DEF m, q

\* The tokens of some of a list's reports.
LEMMA VolumeSum ==
    ASSUME NEW R, \A e \in R : e.volume \in Nat, NEW s \in Seq(R),
           NEW P, P \subseteq DOMAIN s
    PROVE  /\ IsFiniteSet(P) /\ VolumeAt(s, P) \in Nat
           /\ VolumeAt(s, P) = SumOver([i \in DOMAIN s |-> s[i].volume], P)
<1>. DEFINE f == [i \in DOMAIN s |-> s[i].volume]
<1>1. IsFiniteSet(P) /\ \A i \in P : f[i] \in Nat
  <2>1. IsFiniteSet(DOMAIN s) /\ \A i \in DOMAIN s : s[i] \in R
    BY ListOf
  <2>2. IsFiniteSet(P)
    BY <2>1, FS_Subset
  <2>. QED  BY <2>1, <2>2
<1>2. VolumeAt(s, P) = SumOver(f, P)
  BY TotalIsSum DEF VolumeAt
<1>. HIDE DEF f
<1>3. SumOver(f, P) \in Nat
  BY <1>1, SumType
<1>. QED  BY <1>1, <1>2, <1>3 DEF f

\* The tokens that are left of a list are those of the places that are left.
LEMMA ThroughVolume ==
    ASSUME NEW R, \A e \in R : e.volume \in Nat, NEW s \in Seq(R),
           NEW P, P \subseteq DOMAIN s, NEW X
    PROVE  VolumeIn(Through(s, P), X) = VolumeAt(s, {i \in P : s[i] \in X})
<1>. DEFINE m == Cardinality(P)
            n == Len(s)
            q == Through(s, P)
            f == [i \in DOMAIN s |-> s[i].volume]
            g == [i \in DOMAIN q |-> q[i].volume]
            T == {i \in DOMAIN q : q[i] \in X}
            U == {i \in P : s[i] \in X}
<1>1. n \in Nat /\ DOMAIN s = 1..n /\ IsFiniteSet(1..n) /\ \A i \in 1..n : s[i] \in R
  BY ListOf
<1>2. m \in Nat /\ IsFiniteSet(P) /\ \E at : Placed(at, s, P)
  <2>1. n \in Nat /\ P \subseteq 1..n
    BY <1>1
  <2>. HIDE DEF n
  <2>. QED  BY ONLY <2>1, ThroughPlaces
<1>3. PICK at \in [1..m -> P] :
         /\ \A i, j \in 1..m : i < j => at[i] < at[j]
         /\ \A p \in P : \E i \in 1..m : at[i] = p
         /\ q = [j \in 1..m |-> s[at[j]]]
  BY <1>2 DEF Placed
<1>. HIDE DEF m, n, q
<1>4. /\ q \in Seq(R) /\ DOMAIN q = 1..m
  <2>1. q \in Seq(R)
    BY <1>1, ThroughList DEF n, q
  <2>. QED  BY <1>3, <2>1
<1>5. \A i \in 1..m : at[i] \in P /\ q[i] = s[at[i]]
  BY <1>3
<1>6. VolumeIn(q, X) = SumOver(g, T)
  <2>1. VolumeIn(q, X) = VolumeAt(q, T) /\ T \subseteq DOMAIN q
    BY DEF VolumeIn
  <2>. HIDE DEF T
  <2>. QED  BY <1>4, <2>1, VolumeSum
<1>7. VolumeAt(s, U) = SumOver(f, U)
  <2>1. U \subseteq DOMAIN s
    OBVIOUS
  <2>. HIDE DEF U
  <2>. QED  BY <2>1, VolumeSum
<1>8. IsFiniteSet(T) /\ IsFiniteSet(U)
  <2>1. T \subseteq DOMAIN q /\ U \subseteq DOMAIN s
    OBVIOUS
  <2>. HIDE DEF T, U
  <2>. QED  BY <1>4, <2>1, VolumeSum
<1>9. T \subseteq 1..m /\ \A i \in 1..m : i \in T <=> at[i] \in U
  BY <1>4, <1>5
<1>10. U = {at[i] : i \in T}
  BY <1>3, <1>9
<1>11. \A i, j \in T : at[i] = at[j] => i = j
  <2>. SUFFICES ASSUME NEW i \in T, NEW j \in T, at[i] = at[j], i # j PROVE FALSE
    OBVIOUS
  <2>1. i \in 1..m /\ j \in 1..m /\ (i < j \/ j < i)
    BY <1>2, <1>9
  <2>2. at[i] < at[j] \/ at[j] < at[i]
    BY <1>3, <2>1
  <2>3. at[i] \in 1..n
    BY <1>1, <1>5, <2>1
  <2>. QED  BY <1>1, <2>2, <2>3
<1>12. \A i \in T : g[i] = f[at[i]] /\ f[at[i]] \in Nat
  BY <1>1, <1>4, <1>5, <1>9
<1>13. \A p \in U : f[p] \in Nat
  BY <1>1
<1>. DEFINE to == [i \in T |-> at[i]]
<1>14. to \in [T -> U] /\ \A i \in T : to[i] = at[i]
  BY <1>9
<1>. HIDE DEF T, U, f, g, to
<1>15. SumOver(g, T) = SumOver(f, {to[i] : i \in T})
  BY <1>8, <1>11, <1>12, <1>13, <1>14, SumMoved
<1>16. {to[i] : i \in T} = U
  BY <1>10, <1>14
<1>. QED  BY <1>6, <1>7, <1>15, <1>16 DEF q, U

\* A report that joins a list adds its tokens, where it counts.
LEMMA AppendVolume ==
    ASSUME NEW R, \A v \in R : v.volume \in Nat, NEW s \in Seq(R), NEW e \in R, NEW X
    PROVE  /\ VolumeIn(s, X) \in Nat
           /\ e \in X => VolumeIn(Append(s, e), X) = VolumeIn(s, X) + e.volume
           /\ e \notin X => VolumeIn(Append(s, e), X) = VolumeIn(s, X)
<1>. DEFINE q == Append(s, e)
            n == Len(s)
            f == [i \in DOMAIN s |-> s[i].volume]
            g == [i \in DOMAIN q |-> q[i].volume]
            T == {i \in DOMAIN q : q[i] \in X}
            U == {i \in DOMAIN s : s[i] \in X}
<1>1. n \in Nat /\ DOMAIN s = 1..n /\ \A i \in 1..n : s[i] \in R
  BY ListOf
<1>2. q \in Seq(R) /\ DOMAIN q = 1..(n + 1) /\ (\A i \in 1..n : q[i] = s[i]) /\ q[n + 1] = e
  <2>1. q \in Seq(R) /\ Len(q) = n + 1 /\ (\A i \in 1..n : q[i] = s[i]) /\ q[n + 1] = e
    BY AppendProperties
  <2>. QED  BY <2>1, ListOf
<1>. HIDE DEF q, n
<1>3. /\ IsFiniteSet(T) /\ VolumeIn(q, X) = SumOver(g, T)
      /\ IsFiniteSet(U) /\ VolumeIn(s, X) = SumOver(f, U) /\ SumOver(f, U) \in Nat
  <2>1. /\ VolumeIn(q, X) = VolumeAt(q, T) /\ T \subseteq DOMAIN q
        /\ VolumeIn(s, X) = VolumeAt(s, U) /\ U \subseteq DOMAIN s
    BY DEF VolumeIn
  <2>. HIDE DEF T, U
  <2>. QED  BY <1>2, <2>1, VolumeSum
<1>4. /\ U \subseteq 1..n /\ n + 1 \notin U
      /\ e \in X => T = U \cup {n + 1}
      /\ e \notin X => T = U
  <2>1. \A i \in 1..(n + 1) : i \in 1..n \/ i = n + 1
    BY <1>1
  <2>2. n + 1 \in 1..(n + 1) /\ n + 1 \notin 1..n /\ 1..n \subseteq 1..(n + 1)
    BY <1>1
  <2>3. \A i \in 1..n : i \in T <=> i \in U
    BY <1>1, <1>2, <2>2
  <2>4. n + 1 \in T <=> e \in X
    BY <1>2, <2>2
  <2>5. U \subseteq 1..n /\ T \subseteq 1..(n + 1)
    BY <1>1, <1>2
  <2>. HIDE DEF T, U
  <2>. QED  BY <2>1, <2>2, <2>3, <2>4, <2>5
<1>5. (\A i \in U : f[i] = g[i] /\ f[i] \in Nat /\ g[i] \in Nat)
  <2>1. 1..n \subseteq 1..(n + 1)
    BY <1>1
  <2>. QED  BY <1>1, <1>2, <1>4, <2>1
<1>6. g[n + 1] = e.volume /\ e.volume \in Nat
  <2>1. n + 1 \in 1..(n + 1)
    BY <1>1
  <2>. QED  BY <1>2, <2>1
<1>. HIDE DEF T, U, f, g
<1>7. SumOver(f, U) = SumOver(g, U)
  BY <1>3, <1>5, SumSame
<1>8. CASE e \in X
  <2>. DEFINE l == n + 1
  <2>1. l \notin U /\ T = U \cup {l} /\ g[l] = e.volume /\ \A i \in U \cup {l} : g[i] \in Nat
    BY <1>4, <1>5, <1>6, <1>8
  <2>. HIDE DEF l
  <2>2. SumOver(g, U \cup {l}) = SumOver(g, U) + g[l]
    BY <1>3, <2>1, SumAdd
  <2>. QED  BY <1>3, <1>7, <1>8, <2>1, <2>2 DEF q
<1>9. CASE e \notin X
  BY <1>3, <1>4, <1>7, <1>9 DEF q
<1>. QED  BY <1>3, <1>8, <1>9

\* What the types say of the reports and of the constants.
LEMMA Reports ==
    /\ \A v \in Report : v.volume \in Nat /\ v.volume \in Volumes /\ v.timestamp \in Nat
    /\ \A v \in Logged : /\ v.volume \in Nat /\ v.timestamp \in Nat
                         /\ v.tenant \in Tenants /\ v.wiped \in BOOLEAN
    /\ WindowSeconds \in Nat \ {0} /\ BrakeSeconds \in Nat \ {0} /\ IsFiniteSet(Tenants)
    /\ MaxTime \in Nat
BY CoordinatorAssumption DEF Report, Logged

\* A list of a type is one of a wider type.
LEMMA Wider ==
    ASSUME NEW A, NEW B, A \subseteq B, NEW s \in Seq(A)
    PROVE  s \in Seq(B)
<1>1. Len(s) \in Nat /\ s \in [1..Len(s) -> A]
  BY LenProperties
<1>2. s \in [1..Len(s) -> B]
  BY <1>1
<1>. QED  BY <1>1, <1>2, SeqDef

\* What a window holds of a list.
LEMMA WithinList ==
    ASSUME NEW R, NEW s \in Seq(R), NEW u
    PROVE  /\ Within(s, u) \in Seq(R) /\ Len(Within(s, u)) <= Len(s)
           /\ Len(s) \in Nat /\ Len(Within(s, u)) \in Nat
           /\ AllWithin(Within(s, u), u)
<1>. DEFINE P == {i \in DOMAIN s : s[i].timestamp > u - WindowSeconds}
            q == Within(s, u)
<1>1. Len(s) \in Nat /\ DOMAIN s = 1..Len(s)
  BY ListOf
<1>2. q = Through(s, P) /\ P \subseteq 1..Len(s)
  BY <1>1 DEF Within
<1>3. \A p \in P : s[p].timestamp > u - WindowSeconds
  OBVIOUS
<1>. HIDE DEF P, q
<1>4. /\ q \in Seq(R) /\ Len(q) <= Len(s)
      /\ TakenFrom(q, s, P)
  <2>1. /\ Through(s, P) \in Seq(R) /\ Len(Through(s, P)) <= Len(s)
        /\ TakenFrom(Through(s, P), s, P)
    BY <1>2, ThroughList
  <2>. QED  BY <1>2, <2>1
<1>5. Len(q) \in Nat /\ DOMAIN q = 1..Len(q)
  BY <1>4, ListOf
<1>6. AllWithin(q, u)
  BY <1>3, <1>4, <1>5 DEF AllWithin, TakenFrom
<1>. QED  BY <1>1, <1>4, <1>5, <1>6 DEF q

\* Where only reports of the window are asked for, it holds what the list holds.
LEMMA WithinVolume ==
    ASSUME NEW R, \A v \in R : v.volume \in Nat, NEW s \in Seq(R), NEW u, NEW X,
           \A v \in X : v.timestamp > u - WindowSeconds
    PROVE  VolumeIn(Within(s, u), X) = VolumeIn(s, X)
<1>. DEFINE P == {i \in DOMAIN s : s[i].timestamp > u - WindowSeconds}
<1>1. Within(s, u) = Through(s, P)
  BY DEF Within
<1>2. P \subseteq DOMAIN s /\ {i \in P : s[i] \in X} = {i \in DOMAIN s : s[i] \in X}
  OBVIOUS
<1>. HIDE DEF P
<1>3. VolumeIn(Through(s, P), X) = VolumeAt(s, {i \in P : s[i] \in X})
  BY <1>2, ThroughVolume
<1>. QED  BY <1>1, <1>2, <1>3 DEF VolumeIn

\* The bound of a later cutoff is within the window.
LEMMA Cutoff ==
    ASSUME NEW u \in Int, NEW c \in Int, c >= u - WindowSeconds
    PROVE  /\ \A v \in Recent(c) : v.timestamp > u - WindowSeconds
           /\ \A t : \A v \in RecentOf(t, c) : v.timestamp > u - WindowSeconds
<1>1. ASSUME NEW a \in Nat, a > c
      PROVE  a > u - WindowSeconds
  BY <1>1, Reports
<1>. QED  BY <1>1, Reports DEF Recent, RecentOf

\* A report that arrives counts in the object as in the history, and no other
\* tenant's reports are lost when all lists are pruned.
LEMMA KeptReport ==
    ASSUME NEW old \in [Tenants -> Seq(Report)], NEW reports \in Seq(Logged), NEW u \in Nat,
           Kept(old, reports, u), NEW t \in Tenants, NEW volume \in Volumes,
           NEW e, e = [volume |-> volume, timestamp |-> u],
           NEW g, g = [tenant |-> t, volume |-> volume, timestamp |-> u, wiped |-> FALSE],
           NEW vols, vols = [x \in Tenants |->
                                Within(IF x = t THEN Append(old[x], e) ELSE old[x], u)]
    PROVE  Kept(vols, Append(reports, g), u)
<1>. SUFFICES ASSUME NEW x \in Tenants, NEW c \in Int, c >= u - WindowSeconds
              PROVE  VolumeIn(vols[x], Recent(c))
                        = VolumeIn(Append(reports, g), RecentOf(x, c))
  BY DEF Kept
<1>1. VolumeIn(old[x], Recent(c)) = VolumeIn(reports, RecentOf(x, c))
  BY DEF Kept
<1>2. e \in Report /\ g \in Logged
  BY DEF Report, Logged
<1>3. old[x] \in Seq(Report)
  OBVIOUS
<1>4. /\ VolumeIn(reports, RecentOf(x, c)) \in Nat
      /\ g \in RecentOf(x, c) => VolumeIn(Append(reports, g), RecentOf(x, c))
                                    = VolumeIn(reports, RecentOf(x, c)) + volume
      /\ g \notin RecentOf(x, c) => VolumeIn(Append(reports, g), RecentOf(x, c))
                                       = VolumeIn(reports, RecentOf(x, c))
  <2>1. g.volume = volume /\ \A v \in Logged : v.volume \in Nat
    BY Reports
  <2>. QED  BY <1>2, <2>1, AppendVolume
<1>5. /\ e \in Recent(c) => VolumeIn(Append(old[x], e), Recent(c))
                               = VolumeIn(old[x], Recent(c)) + volume
      /\ e \notin Recent(c) => VolumeIn(Append(old[x], e), Recent(c))
                                  = VolumeIn(old[x], Recent(c))
  <2>. DEFINE s == old[x]
              X == Recent(c)
  <2>1. e.volume = volume /\ e \in Report /\ s \in Seq(Report)
    BY <1>2, <1>3
  <2>2. \A v \in Report : v.volume \in Nat
    BY Reports
  <2>. HIDE DEF s, X
  <2>3. /\ e \in X => VolumeIn(Append(s, e), X) = VolumeIn(s, X) + e.volume
        /\ e \notin X => VolumeIn(Append(s, e), X) = VolumeIn(s, X)
    BY ONLY <2>1, <2>2, AppendVolume
  <2>. QED  BY <2>1, <2>3 DEF s, X
<1>6. g \in RecentOf(x, c) <=> x = t /\ e \in Recent(c)
  <2>1. g.tenant = t /\ ~g.wiped /\ g.timestamp = u /\ e.timestamp = u
    OBVIOUS
  <2>. QED  BY <1>2, <2>1 DEF Recent, RecentOf
<1>7. ASSUME NEW s \in Seq(Report)
      PROVE  VolumeIn(Within(s, u), Recent(c)) = VolumeIn(s, Recent(c))
  <2>1. \A v \in Recent(c) : v.timestamp > u - WindowSeconds
    BY Cutoff
  <2>2. \A v \in Report : v.volume \in Nat
    BY Reports
  <2>. QED  BY <2>1, <2>2, WithinVolume
<1>8. Append(old[x], e) \in Seq(Report)
  BY <1>2, <1>3, AppendProperties
<1>9. CASE x = t
  <2>1. vols[x] = Within(Append(old[x], e), u)
    BY <1>9
  <2>2. VolumeIn(vols[x], Recent(c)) = VolumeIn(Append(old[x], e), Recent(c))
    BY <1>7, <1>8, <2>1
  <2>. QED  BY <1>1, <1>4, <1>5, <1>6, <1>9, <2>2
<1>10. CASE x # t
  <2>1. vols[x] = Within(old[x], u)
    BY <1>10
  <2>2. VolumeIn(vols[x], Recent(c)) = VolumeIn(old[x], Recent(c))
    BY <1>3, <1>7, <2>1
  <2>. QED  BY <1>1, <1>4, <1>6, <1>10, <2>2
<1>. QED  BY <1>9, <1>10

\* Pruning loses nothing of the window.
LEMMA KeptPruned ==
    ASSUME NEW old \in [Tenants -> Seq(Report)], NEW reports, NEW u \in Nat,
           Kept(old, reports, u), NEW vols, vols = [x \in Tenants |-> Within(old[x], u)]
    PROVE  Kept(vols, reports, u)
<1>. SUFFICES ASSUME NEW x \in Tenants, NEW c \in Int, c >= u - WindowSeconds
              PROVE  VolumeIn(vols[x], Recent(c)) = VolumeIn(reports, RecentOf(x, c))
  BY DEF Kept
<1>1. VolumeIn(old[x], Recent(c)) = VolumeIn(reports, RecentOf(x, c))
  BY DEF Kept
<1>2. vols[x] = Within(old[x], u) /\ old[x] \in Seq(Report)
  OBVIOUS
<1>3. \A v \in Recent(c) : v.timestamp > u - WindowSeconds
  BY Cutoff
<1>4. \A v \in Report : v.volume \in Nat
  BY Reports
<1>5. VolumeIn(Within(old[x], u), Recent(c)) = VolumeIn(old[x], Recent(c))
  BY <1>2, <1>3, <1>4, WithinVolume
<1>. QED  BY <1>1, <1>2, <1>5

\* The history may forget what is older than the window, a second later.
LEMMA KeptLater ==
    ASSUME NEW vols, NEW reports \in Seq(Logged), NEW u \in Nat, Kept(vols, reports, u),
           NEW w \in Nat, u <= w
    PROVE  Kept(vols, Within(reports, w), w)
<1>. SUFFICES ASSUME NEW x \in Tenants, NEW c \in Int, c >= w - WindowSeconds
              PROVE  VolumeIn(vols[x], Recent(c))
                        = VolumeIn(Within(reports, w), RecentOf(x, c))
  BY DEF Kept
<1>1. c >= u - WindowSeconds
  BY Reports
<1>2. VolumeIn(vols[x], Recent(c)) = VolumeIn(reports, RecentOf(x, c))
  BY <1>1 DEF Kept
<1>3. \A v \in RecentOf(x, c) : v.timestamp > w - WindowSeconds
  BY Cutoff
<1>4. \A v \in Logged : v.volume \in Nat
  BY Reports
<1>5. VolumeIn(Within(reports, w), RecentOf(x, c)) = VolumeIn(reports, RecentOf(x, c))
  BY <1>3, <1>4, WithinVolume
<1>. QED  BY <1>2, <1>5

\* There are no tokens where there is no report.
LEMMA NoVolume ==
    ASSUME NEW s, NEW X, \A i \in DOMAIN s : s[i] \notin X
    PROVE  VolumeIn(s, X) = 0
<1>1. {i \in DOMAIN s : s[i] \in X} = {}
  OBVIOUS
<1>2. VolumeIn(s, X) = SumOver([i \in DOMAIN s |-> s[i].volume], {})
  BY <1>1, TotalIsSum DEF VolumeIn, VolumeAt
<1>. DEFINE f == [i \in DOMAIN s |-> s[i].volume]
<1>. HIDE DEF f
<1>3. SumOver(f, {}) = 0
  BY SumUnfold, FS_EmptySet
<1>. QED  BY <1>2, <1>3 DEF f

\* Nothing is left of what was wiped, neither in the object nor in the history.
LEMMA KeptWiped ==
    ASSUME NEW vols, NEW reports, NEW u, \A t \in Tenants : vols[t] = <<>>,
           \A i \in DOMAIN reports : reports[i].wiped
    PROVE  Kept(vols, reports, u)
<1>. SUFFICES ASSUME NEW x \in Tenants, NEW c \in Int
              PROVE  VolumeIn(vols[x], Recent(c)) = VolumeIn(reports, RecentOf(x, c))
  BY DEF Kept
<1>1. \A i \in DOMAIN reports : reports[i] \notin RecentOf(x, c)
  BY DEF RecentOf
<1>2. \A i \in DOMAIN vols[x] : vols[x][i] \notin Recent(c)
  <2>1. DOMAIN <<>> = {}
    OBVIOUS
  <2>. QED  BY <2>1
<1>. QED  BY <1>1, <1>2, NoVolume

-----------------------------------------------------------------------------
(* The invariant *)

\* The types of the reports up to a moment.
ReportBy(u) == [volume : Volumes, timestamp : 0..u]
LoggedBy(u) == [tenant : Tenants, volume : Volumes, timestamp : 0..u, wiped : BOOLEAN]
BrakeBy(u) == {NoBrake} \cup 0..(u + BrakeSeconds)

\* What the invariant says of the types.
LEMMA StateTypes ==
    ASSUME IndInv
    PROVE  /\ now \in Nat
           /\ tenantVolumes \in [Tenants -> Seq(ReportBy(now))]
           /\ tenantVolumes \in [Tenants -> Seq(Report)]
           /\ log \in Seq(LoggedBy(now)) /\ log \in Seq(Logged)
           /\ {activeBrakes, diskBrakes} \subseteq [Tenants -> BrakeBy(now)] /\ BrakesHeld
           /\ {providers, diskProviders} \subseteq [Providers -> Stats \cup {NoStats}] /\ ProvidersHeld
      /\ unread \in SUBSET {"brakes", "providers"}
<1>1. /\ now \in Nat /\ tenantVolumes \in [Tenants -> Seq(ReportBy(now))]
      /\ log \in Seq(LoggedBy(now))
      /\ {activeBrakes, diskBrakes} \subseteq [Tenants -> BrakeBy(now)] /\ BrakesHeld
      /\ {providers, diskProviders} \subseteq [Providers -> Stats \cup {NoStats}] /\ ProvidersHeld
      /\ unread \in SUBSET {"brakes", "providers"}
  BY DEF IndInv, RestartTransparent, TypeOK, ReportBy, LoggedBy, BrakeBy
<1>2. ReportBy(now) \subseteq Report /\ LoggedBy(now) \subseteq Logged
  BY <1>1 DEF ReportBy, LoggedBy, Report, Logged
<1>3. \A t \in Tenants : tenantVolumes[t] \in Seq(Report)
  BY <1>1, <1>2, Wider
<1>4. log \in Seq(Logged)
  BY <1>1, <1>2, Wider
<1>. QED  BY <1>1, <1>3, <1>4

\* What makes the first part of the invariant hold after a step.
LEMMA TypesNext ==
    ASSUME now' \in Nat,
           tenantVolumes' \in [Tenants -> Seq(ReportBy(now'))],
           log' \in Seq(LoggedBy(now')),
           {activeBrakes', diskBrakes'} \subseteq [Tenants -> BrakeBy(now')], BrakesHeld',
           {providers', diskProviders'} \subseteq [Providers -> Stats \cup {NoStats}],
           ProvidersHeld', unread' \in SUBSET {"brakes", "providers"}
    PROVE  RestartTransparent'
BY DEF RestartTransparent, TypeOK, ReportBy, LoggedBy, BrakeBy

\* The invariant holds at first.
LEMMA InitInv == Init => IndInv
<1>. SUFFICES ASSUME Init PROVE IndInv
  OBVIOUS
<1>1. RestartTransparent
  <2>1. \A R : <<>> \in Seq(R)
    BY EmptySeq
  <2>2. tenantVolumes \in [Tenants -> Seq(ReportBy(now))] /\ log \in Seq(LoggedBy(now))
    BY <2>1 DEF Init
  <2>. QED  BY <2>2 DEF Init, RestartTransparent, TypeOK, ReportBy, LoggedBy, NoBrake,
                        BrakesHeld, ProvidersHeld, NoBrakes, NoProviders
<1>2. AllWithin(log, now) /\ \A i \in DOMAIN log : log[i].wiped
  BY DEF Init, AllWithin
<1>3. Kept(tenantVolumes, log, now)
  <2>1. \A t \in Tenants : tenantVolumes[t] = <<>>
    BY DEF Init
  <2>. QED  BY <1>2, <2>1, KeptWiped
<1>. QED  BY <1>1, <1>2, <1>3 DEF IndInv

\* A report: counted in the object and in the history, brake or not.
LEMMA ReportInv ==
    ASSUME IndInv, NEW t \in Tenants, NEW volume \in Volumes, ReportVolume(t, volume)
    PROVE  IndInv'
<1>. DEFINE e == [volume |-> volume, timestamp |-> now]
            g == [tenant |-> t, volume |-> volume, timestamp |-> now, wiped |-> FALSE]
            vols == [x \in Tenants |->
                       Within(IF x = t THEN Append(tenantVolumes[x], e)
                                       ELSE tenantVolumes[x], now)]
<1>1. /\ now \in Nat
      /\ tenantVolumes \in [Tenants -> Seq(ReportBy(now))]
      /\ tenantVolumes \in [Tenants -> Seq(Report)]
      /\ log \in Seq(LoggedBy(now)) /\ log \in Seq(Logged)
      /\ {activeBrakes, diskBrakes} \subseteq [Tenants -> BrakeBy(now)] /\ BrakesHeld
      /\ {providers, diskProviders} \subseteq [Providers -> Stats \cup {NoStats}] /\ ProvidersHeld
      /\ unread \in SUBSET {"brakes", "providers"}
  BY StateTypes
<1>2. /\ tenantVolumes' = vols /\ log' = Append(log, g)
      /\ now' = now /\ providers' = providers /\ diskProviders' = diskProviders
  BY DEF ReportVolume, Fresh, providerVars
<1>3. \/ activeBrakes' = activeBrakes /\ diskBrakes' = diskBrakes /\ unread' = unread
      \/ /\ activeBrakes' = [activeBrakes EXCEPT ![t] = now + BrakeSeconds]
         /\ diskBrakes' = activeBrakes' /\ unread' = unread \ {"brakes"}
  BY DEF ReportVolume, Brake
<1>4. e \in ReportBy(now) /\ g \in LoggedBy(now)
  BY <1>1 DEF ReportBy, LoggedBy
<1>5. Kept(vols, Append(log, g), now)
  <2>1. Kept(tenantVolumes, log, now)
    BY DEF IndInv
  <2>. HIDE DEF e, g
  <2>. QED  BY <1>1, <2>1, KeptReport DEF e, g
<1>6. vols \in [Tenants -> Seq(ReportBy(now))]
  <2>. HIDE DEF e
  <2>1. ASSUME NEW x \in Tenants
        PROVE  Within(IF x = t THEN Append(tenantVolumes[x], e)
                               ELSE tenantVolumes[x], now) \in Seq(ReportBy(now))
    <3>1. tenantVolumes[x] \in Seq(ReportBy(now))
      BY <1>1
    <3>2. Append(tenantVolumes[x], e) \in Seq(ReportBy(now))
      BY <1>4, <3>1, AppendProperties
    <3>. QED  BY <3>1, <3>2, WithinList
  <2>. QED  BY <2>1
<1>. HIDE DEF e, g, vols
<1>7. Append(log, g) \in Seq(LoggedBy(now))
  BY <1>1, <1>4, AppendProperties
<1>8. AllWithin(Append(log, g), now)
  <2>1. \A i \in 1..Len(log) : log[i].timestamp > now - WindowSeconds
    BY <1>1, ListOf DEF IndInv, AllWithin
  <2>2. g.timestamp > now - WindowSeconds
    BY <1>1, Reports DEF g
  <2>3. /\ Len(Append(log, g)) = Len(log) + 1 /\ Append(log, g)[Len(log) + 1] = g
        /\ \A i \in 1..Len(log) : Append(log, g)[i] = log[i]
    BY <1>1, <1>4, AppendProperties
  <2>4. Len(log) \in Nat /\ DOMAIN Append(log, g) = 1..(Len(log) + 1)
    BY <1>1, <1>7, <2>3, ListOf
  <2>5. \A i \in 1..(Len(log) + 1) : i \in 1..Len(log) \/ i = Len(log) + 1
    BY <2>4
  <2>. QED  BY <2>1, <2>2, <2>3, <2>4, <2>5 DEF AllWithin
<1>9. /\ {activeBrakes', diskBrakes'} \subseteq [Tenants -> BrakeBy(now)]
      /\ BrakesHeld' /\ unread' \in SUBSET {"brakes", "providers"}
      /\ ("providers" \in unread' <=> "providers" \in unread)
  <2>1. now + BrakeSeconds \in BrakeBy(now)
    BY <1>1, Reports DEF BrakeBy
  <2>2. activeBrakes \in [Tenants -> BrakeBy(now)] /\ diskBrakes \in [Tenants -> BrakeBy(now)]
    BY <1>1
  <2>3. CASE activeBrakes' = activeBrakes /\ diskBrakes' = diskBrakes /\ unread' = unread
    BY <1>1, <2>2, <2>3 DEF BrakesHeld
  <2>4. CASE /\ activeBrakes' = [activeBrakes EXCEPT ![t] = now + BrakeSeconds]
             /\ diskBrakes' = activeBrakes' /\ unread' = unread \ {"brakes"}
    <3>1. activeBrakes' \in [Tenants -> BrakeBy(now)]
      BY <2>1, <2>2, <2>4
    <3>. QED  BY <1>1, <2>4, <3>1 DEF BrakesHeld
  <2>. QED  BY <1>3, <2>3, <2>4
<1>10. ProvidersHeld'
  BY <1>1, <1>2, <1>9 DEF ProvidersHeld
<1>11. RestartTransparent'
  BY <1>1, <1>2, <1>6, <1>7, <1>9, <1>10, TypesNext
<1>. QED  BY <1>2, <1>5, <1>8, <1>11 DEF IndInv

\* The alarm: expired brakes are lifted in both places, and lists are pruned.
LEMMA AlarmInv == ASSUME IndInv, alarm PROVE IndInv'
<1>1. /\ now \in Nat
      /\ tenantVolumes \in [Tenants -> Seq(ReportBy(now))]
      /\ tenantVolumes \in [Tenants -> Seq(Report)] /\ log \in Seq(LoggedBy(now))
      /\ {activeBrakes, diskBrakes} \subseteq [Tenants -> BrakeBy(now)] /\ BrakesHeld
      /\ {providers, diskProviders} \subseteq [Providers -> Stats \cup {NoStats}] /\ ProvidersHeld
      /\ unread \in SUBSET {"brakes", "providers"}
  BY StateTypes
<1>. DEFINE vols == [x \in Tenants |-> Within(tenantVolumes[x], now)]
<1>2. /\ tenantVolumes' = vols /\ log' = log
      /\ now' = now /\ providers' = providers /\ diskProviders' = diskProviders
      /\ activeBrakes' = Unexpired /\ unread' = unread
      /\ diskBrakes' = IF Unexpired # activeBrakes THEN Unexpired ELSE diskBrakes
  BY <1>1 DEF alarm, Fresh, providerVars
<1>3. Kept(vols, log, now)
  <2>1. Kept(tenantVolumes, log, now)
    BY DEF IndInv
  <2>. QED  BY <1>1, <2>1, KeptPruned
<1>4. vols \in [Tenants -> Seq(ReportBy(now))]
  <2>1. \A x \in Tenants : Within(tenantVolumes[x], now) \in Seq(ReportBy(now))
    BY <1>1, WithinList
  <2>. QED  BY <2>1
<1>. HIDE DEF vols
<1>5. {activeBrakes', diskBrakes'} \subseteq [Tenants -> BrakeBy(now)] /\ BrakesHeld'
  <2>1. NoBrake \in BrakeBy(now)
    BY DEF BrakeBy
  <2>2. {activeBrakes', diskBrakes'} \subseteq [Tenants -> BrakeBy(now)]
    BY <1>1, <1>2, <2>1 DEF Unexpired
  <2>3. CASE "brakes" \in unread
    <3>1. activeBrakes = NoBrakes
      BY <1>1, <2>3 DEF BrakesHeld
    <3>2. Unexpired = NoBrakes
      BY <3>1 DEF Unexpired, NoBrakes
    <3>. QED  BY <1>2, <2>2, <2>3, <3>1, <3>2 DEF BrakesHeld, NoBrakes
  <2>4. CASE "brakes" \notin unread
    BY <1>1, <1>2, <2>2, <2>4 DEF BrakesHeld
  <2>. QED  BY <2>3, <2>4, <2>2
<1>6. RestartTransparent'
  <2>1. ProvidersHeld'
    BY <1>1, <1>2 DEF ProvidersHeld
  <2>. QED  BY <1>1, <1>2, <1>4, <1>5, <2>1, TypesNext
<1>. QED  BY <1>2, <1>3, <1>6 DEF IndInv

\* A restart: the volumes are gone, and so they are in the history.
LEMMA RestartInv ==
    ASSUME IndInv, NEW failed \in Failures, Restart(failed)
    PROVE  IndInv'
<1>1. /\ now \in Nat /\ log \in Seq(LoggedBy(now))
      /\ {activeBrakes, diskBrakes} \subseteq [Tenants -> BrakeBy(now)] /\ BrakesHeld
      /\ {providers, diskProviders} \subseteq [Providers -> Stats \cup {NoStats}] /\ ProvidersHeld
      /\ unread \in SUBSET {"brakes", "providers"}
  BY StateTypes
<1>2. /\ tenantVolumes' = [t \in Tenants |-> <<>>]
      /\ log' = [i \in DOMAIN log |-> [log[i] EXCEPT !.wiped = TRUE]]
      /\ now' = now /\ diskProviders' = diskProviders /\ diskBrakes' = diskBrakes
      /\ providers' = IF "providers" \in failed THEN NoProviders ELSE diskProviders
      /\ activeBrakes' = IF "brakes" \in failed THEN NoBrakes ELSE diskBrakes
      /\ unread' = failed
  BY DEF Restart
<1>3. /\ Len(log) \in Nat /\ DOMAIN log = 1..Len(log)
      /\ \A i \in 1..Len(log) : log[i] \in LoggedBy(now)
  BY <1>1, ListOf
<1>4. \A i \in 1..Len(log) : /\ log'[i] \in LoggedBy(now) /\ log'[i].wiped
                             /\ log'[i].timestamp = log[i].timestamp
  BY <1>2, <1>3 DEF LoggedBy
<1>5. log' \in Seq(LoggedBy(now)) /\ DOMAIN log' = 1..Len(log)
  <2>1. log' \in [1..Len(log) -> LoggedBy(now)]
    BY <1>2, <1>3, <1>4
  <2>. QED  BY <1>3, <2>1, SeqDef
<1>6. AllWithin(log', now)
  BY <1>3, <1>4, <1>5 DEF IndInv, AllWithin
<1>7. tenantVolumes' \in [Tenants -> Seq(ReportBy(now))]
  <2>1. <<>> \in Seq(ReportBy(now))
    BY EmptySeq
  <2>. QED  BY <1>2, <2>1
<1>8. Kept(tenantVolumes', log', now)
  <2>1. (\A t \in Tenants : tenantVolumes'[t] = <<>>) /\ \A i \in DOMAIN log' : log'[i].wiped
    BY <1>2, <1>4, <1>5
  <2>. QED  BY <2>1, KeptWiped
<1>9. RestartTransparent'
  <2>1. BrakesHeld' /\ ProvidersHeld'
    BY <1>2 DEF BrakesHeld, ProvidersHeld, NoBrakes, NoProviders
  <2>2. NoBrakes \in [Tenants -> BrakeBy(now)] /\ NoProviders \in [Providers -> Stats \cup {NoStats}]
    BY DEF NoBrakes, NoProviders, BrakeBy
  <2>3. unread' \in SUBSET {"brakes", "providers"}
    BY <1>2 DEF Failures
  <2>. QED  BY <1>1, <1>2, <1>5, <1>7, <2>1, <2>2, <2>3, TypesNext
<1>. QED  BY <1>2, <1>6, <1>8, <1>9 DEF IndInv

\* A second passes.
LEMMA TickInv == ASSUME IndInv, Tick PROVE IndInv'
<1>. DEFINE u == now
            w == now'
<1>1. /\ now \in Nat /\ tenantVolumes \in [Tenants -> Seq(ReportBy(now))]
      /\ log \in Seq(LoggedBy(now)) /\ log \in Seq(Logged)
      /\ {activeBrakes, diskBrakes} \subseteq [Tenants -> BrakeBy(now)] /\ BrakesHeld
      /\ {providers, diskProviders} \subseteq [Providers -> Stats \cup {NoStats}] /\ ProvidersHeld
      /\ unread \in SUBSET {"brakes", "providers"}
  BY StateTypes
<1>2. /\ now' = now + 1 /\ now' \in Nat /\ now <= now' /\ log' = Within(log, now')
      /\ tenantVolumes' = tenantVolumes /\ activeBrakes' = activeBrakes
      /\ diskBrakes' = diskBrakes /\ providers' = providers /\ diskProviders' = diskProviders
      /\ unread' = unread
  BY <1>1 DEF Tick, brakeVars, providerVars
<1>3. /\ ReportBy(now) \subseteq ReportBy(now') /\ LoggedBy(now) \subseteq LoggedBy(now')
      /\ BrakeBy(now) \subseteq BrakeBy(now')
  <2>1. 0..now \subseteq 0..now' /\ 0..(now + BrakeSeconds) \subseteq 0..(now' + BrakeSeconds)
    BY <1>1, <1>2, Reports
  <2>. QED  BY <2>1 DEF ReportBy, LoggedBy, BrakeBy
<1>4. \A t \in Tenants : tenantVolumes[t] \in Seq(ReportBy(now'))
  BY <1>1, <1>3, Wider
<1>5. Within(log, now') \in Seq(LoggedBy(now')) /\ AllWithin(Within(log, now'), now')
  <2>1. log \in Seq(LoggedBy(now'))
    BY <1>1, <1>3, Wider
  <2>. QED  BY <2>1, WithinList
<1>6. Kept(tenantVolumes, Within(log, w), w)
  <2>1. Kept(tenantVolumes, log, u) /\ u \in Nat /\ w \in Nat /\ u <= w /\ log \in Seq(Logged)
    BY <1>1, <1>2 DEF IndInv
  <2>. HIDE DEF u, w
  <2>. QED  BY <2>1, KeptLater
<1>7. {activeBrakes', diskBrakes'} \subseteq [Tenants -> BrakeBy(now')]
  BY <1>1, <1>2, <1>3
<1>8. tenantVolumes' \in [Tenants -> Seq(ReportBy(now'))]
  BY <1>1, <1>2, <1>4
<1>9. log' \in Seq(LoggedBy(now')) /\ AllWithin(log', now')
  BY <1>2, <1>5
<1>10. RestartTransparent'
  <2>1. BrakesHeld' /\ ProvidersHeld'
    BY <1>1, <1>2 DEF BrakesHeld, ProvidersHeld
  <2>. QED  BY <1>1, <1>2, <1>7, <1>8, <1>9, <2>1, TypesNext
<1>11. Kept(tenantVolumes', log', now')
  BY <1>2, <1>6
<1>. QED  BY <1>9, <1>10, <1>11 DEF IndInv

\* A provider's report touches no volume and no brake.
LEMMA ProviderInv ==
    ASSUME IndInv, NEW p \in Providers, NEW stats \in Stats, UpdateProvider(p, stats)
    PROVE  IndInv'
<1>1. /\ now \in Nat /\ tenantVolumes \in [Tenants -> Seq(ReportBy(now))]
      /\ log \in Seq(LoggedBy(now))
      /\ {activeBrakes, diskBrakes} \subseteq [Tenants -> BrakeBy(now)] /\ BrakesHeld
      /\ {providers, diskProviders} \subseteq [Providers -> Stats \cup {NoStats}] /\ ProvidersHeld
      /\ unread \in SUBSET {"brakes", "providers"}
  BY StateTypes
<1>2. /\ UNCHANGED <<tenantVolumes, activeBrakes, diskBrakes, now, log>>
      /\ providers' = [providers EXCEPT ![p] = stats] /\ diskProviders' = providers'
      /\ unread' = unread \ {"providers"}
  BY DEF UpdateProvider, brakeVars
<1>3. providers' \in [Providers -> Stats \cup {NoStats}]
  BY <1>1, <1>2
<1>4. RestartTransparent'
  <2>1. BrakesHeld' /\ ProvidersHeld'
    BY <1>1, <1>2 DEF BrakesHeld, ProvidersHeld
  <2>. QED  BY <1>1, <1>2, <1>3, <2>1, TypesNext
<1>. QED  BY <1>2, <1>4 DEF IndInv

\* Every step keeps the invariant.
LEMMA NextInv == IndInv /\ [Next]_vars => IndInv'
<1>. SUFFICES ASSUME IndInv, [Next]_vars PROVE IndInv'
  OBVIOUS
<1>1. ASSUME NEW t \in Tenants, NEW volume \in Volumes, ReportVolume(t, volume) PROVE IndInv'
  BY <1>1, ReportInv
<1>2. CASE alarm
  BY <1>2, AlarmInv
<1>3. ASSUME NEW p \in Providers, NEW stats \in Stats, UpdateProvider(p, stats) PROVE IndInv'
  BY <1>3, ProviderInv
<1>4. ASSUME NEW failed \in Failures, Restart(failed) PROVE IndInv'
  BY <1>4, RestartInv
<1>5. CASE Tick
  BY <1>5, TickInv
<1>6. CASE UNCHANGED vars
  <2>1. UNCHANGED <<tenantVolumes, activeBrakes, diskBrakes, providers, diskProviders, now,
                    unread, log>>
    BY <1>6 DEF vars, brakeVars, providerVars
  <2>. QED  BY <2>1 DEF IndInv, RestartTransparent, TypeOK, BrakesHeld, ProvidersHeld
<1>. QED  BY <1>1, <1>2, <1>3, <1>4, <1>5, <1>6 DEF Next

\* What the object knows of a window is what it was sent since it was
\* constructed, and its brakes and providers are those stored, unless it could
\* not read them (fetch, alarm, initStorage).
THEOREM Invariance == Spec => []IndInv
BY InitInv, NextInv, PTL DEF Spec

-----------------------------------------------------------------------------
(* The properties *)

\* The variables have the types of the code's fields, in memory and stored.
THEOREM TypeCorrect == Spec => []TypeOK
<1>1. IndInv => TypeOK
  BY DEF IndInv, RestartTransparent
<1>. QED  BY <1>1, Invariance, PTL

\* The type of the history alone.
LEMMA LogTyped == IndInv => log \in Seq(Logged)
BY StateTypes

\* The places of a history that no eviction has wiped, and a tenant's of them.
KnownOf(reports) == {i \in DOMAIN reports : ~reports[i].wiped}
PlacesOf(reports, t) == {i \in KnownOf(reports) : reports[i].tenant = t}

\* A list of which all is in the window tells what the history tells.
LEMMA WindowExact ==
    ASSUME NEW v \in Seq(Report), NEW reports \in Seq(Logged), NEW u \in Nat,
           AllWithin(v, u), AllWithin(reports, u), NEW t \in Tenants,
           VolumeIn(v, Recent(u - WindowSeconds))
              = VolumeIn(reports, RecentOf(t, u - WindowSeconds))
    PROVE  Volume(v) = VolumeAt(reports, PlacesOf(reports, t))
<1>. DEFINE c == u - WindowSeconds
<1>1. {i \in DOMAIN v : v[i] \in Recent(c)} = DOMAIN v
  <2>1. \A i \in DOMAIN v : v[i] \in Report
    BY ListOf
  <2>. QED  BY <2>1 DEF Recent, AllWithin
<1>2. {i \in DOMAIN reports : reports[i] \in RecentOf(t, c)} = PlacesOf(reports, t)
  <2>1. \A i \in DOMAIN reports : reports[i] \in Logged
    BY ListOf
  <2>. QED  BY <2>1 DEF RecentOf, AllWithin, PlacesOf, KnownOf
<1>. QED  BY <1>1, <1>2 DEF Volume, VolumeIn

\* What the object knows of the last five minutes is every report it was sent in
\* them since it was constructed, and an eviction costs nothing else
\* (initStorage, the pruning in fetch, the alarm).
THEOREM StateIsExact == Spec => []StateExact
<1>1. IndInv => StateExact
  <2>. SUFFICES ASSUME IndInv PROVE StateExact
    OBVIOUS
  <2>1. RestartTransparent
    BY DEF IndInv
  <2>2. ASSUME NEW t \in Tenants
        PROVE  Volume(Fresh(tenantVolumes[t])) = VolumeAt(log, OfTenant(t))
    <3>. DEFINE s == tenantVolumes[t]
                v == Within(s, now)
                c == now - WindowSeconds
    <3>1. /\ now \in Nat /\ s \in Seq(Report) /\ log \in Seq(Logged) /\ AllWithin(log, now)
      BY StateTypes DEF IndInv
    <3>2. c \in Int /\ c >= now - WindowSeconds
      BY <3>1, Reports
    <3>3. VolumeIn(s, Recent(c)) = VolumeIn(log, RecentOf(t, c))
      <4>. HIDE DEF c
      <4>. QED  BY <3>2 DEF IndInv, Kept
    <3>. HIDE DEF s
    <3>4. VolumeIn(v, Recent(c)) = VolumeIn(s, Recent(c))
      <4>1. \A e \in Recent(c) : e.timestamp > now - WindowSeconds
        BY DEF Recent
      <4>2. \A e \in Report : e.volume \in Nat
        BY Reports
      <4>. HIDE DEF c
      <4>. QED  BY <3>1, <4>1, <4>2, WithinVolume
    <3>5. v \in Seq(Report) /\ AllWithin(v, now)
      BY <3>1, WithinList
    <3>. HIDE DEF v
    <3>6. Volume(v) = VolumeAt(log, PlacesOf(log, t))
      BY <3>1, <3>3, <3>4, <3>5, WindowExact
    <3>7. PlacesOf(log, t) = OfTenant(t)
      BY DEF PlacesOf, KnownOf, OfTenant, Known
    <3>. QED  BY <3>6, <3>7 DEF v, s, Fresh
  <2>. QED  BY <2>1, <2>2 DEF StateExact, VolumesExact
<1>. QED  BY <1>1, Invariance, PTL

\* A brake in force is never shortened, by an alarm, an eviction or a report: a
\* new one ends later than any that was set before (BRAKE_DURATION).  Only a
\* construction that cannot read the brakes forgets one, and only an object so
\* constructed writes over one that is stored.
THEOREM BrakesLast == Spec => BrakeLasts
<1>. DEFINE Lasts(t) ==
        /\ Braked(t) /\ "brakes" \notin unread' => activeBrakes'[t] >= activeBrakes[t]
        /\ now < diskBrakes[t] /\ "brakes" \notin unread
             => diskBrakes'[t] >= diskBrakes[t]
<1>1. IndInv /\ [Next]_vars => [\A t \in Tenants : Lasts(t)]_vars
  <2>. SUFFICES ASSUME IndInv, Next, NEW t \in Tenants
                PROVE  Lasts(t)
    OBVIOUS
  <2>1. /\ now \in Nat /\ {activeBrakes, diskBrakes} \subseteq [Tenants -> BrakeBy(now)]
        /\ BrakesHeld
    BY StateTypes
  <2>2. /\ activeBrakes[t] \in Int /\ activeBrakes[t] <= now + BrakeSeconds
        /\ diskBrakes[t] \in Int /\ diskBrakes[t] <= now + BrakeSeconds
    <3>1. \A d \in BrakeBy(now) : d \in Int /\ d <= now + BrakeSeconds
      BY <2>1, Reports DEF BrakeBy, NoBrake
    <3>. QED  BY <2>1, <3>1
  <2>3. "brakes" \notin unread => activeBrakes = diskBrakes
    BY <2>1 DEF BrakesHeld
  <2>4. ASSUME NEW u \in Tenants, NEW volume \in Volumes, ReportVolume(u, volume)
        PROVE  Lasts(t)
    <3>1. \/ activeBrakes' = activeBrakes /\ diskBrakes' = diskBrakes
          \/ /\ activeBrakes' = [activeBrakes EXCEPT ![u] = now + BrakeSeconds]
             /\ diskBrakes' = activeBrakes'
      BY <2>4 DEF ReportVolume, Brake
    <3>2. CASE activeBrakes' = activeBrakes /\ diskBrakes' = diskBrakes
      BY <2>2, <3>2
    <3>3. CASE /\ activeBrakes' = [activeBrakes EXCEPT ![u] = now + BrakeSeconds]
               /\ diskBrakes' = activeBrakes'
      <4>1. activeBrakes'[t] = activeBrakes[t] \/ activeBrakes'[t] = now + BrakeSeconds
        BY <2>1, <3>3
      <4>. QED  BY <2>2, <2>3, <3>3, <4>1
    <3>. QED  BY <3>1, <3>2, <3>3
  <2>5. CASE alarm
    <3>1. /\ activeBrakes' = Unexpired
          /\ diskBrakes' = IF Unexpired # activeBrakes THEN Unexpired ELSE diskBrakes
      BY <2>5 DEF alarm
    <3>2. Braked(t) => activeBrakes'[t] = activeBrakes[t]
      BY <2>1, <2>2, <3>1 DEF Braked, Unexpired
    <3>3. Unexpired[t] = IF now > activeBrakes[t] THEN NoBrake ELSE activeBrakes[t]
      BY DEF Unexpired
    <3>. QED  BY <2>1, <2>2, <2>3, <3>1, <3>2, <3>3
  <2>6. ASSUME NEW failed \in Failures, Restart(failed)
        PROVE  Lasts(t)
    <3>1. /\ activeBrakes' = IF "brakes" \in failed THEN NoBrakes ELSE diskBrakes
          /\ diskBrakes' = diskBrakes /\ unread' = failed
      BY <2>6 DEF Restart
    <3>2. CASE "brakes" \in failed
      BY <2>2, <3>1, <3>2
    <3>3. CASE "brakes" \notin failed
      <4>1. CASE "brakes" \in unread
        <5>1. activeBrakes[t] = NoBrake /\ ~Braked(t)
          BY <2>1, <4>1 DEF BrakesHeld, NoBrakes, NoBrake, Braked
        <5>. QED  BY <2>2, <3>1, <5>1
      <4>2. CASE "brakes" \notin unread
        BY <2>2, <2>3, <3>1, <3>3, <4>2
      <4>. QED  BY <4>1, <4>2
    <3>. QED  BY <3>2, <3>3
  <2>7. ASSUME NEW p \in Providers, NEW stats \in Stats, UpdateProvider(p, stats)
        PROVE  Lasts(t)
    BY <2>2, <2>7 DEF UpdateProvider, brakeVars
  <2>8. CASE Tick
    BY <2>2, <2>8 DEF Tick, brakeVars
  <2>. HIDE DEF Lasts
  <2>. QED  BY <2>4, <2>5, <2>6, <2>7, <2>8 DEF Next
<1>. QED  BY <1>1, Invariance, PTL DEF Spec, BrakeLasts

\* The tenants' volumes are parts of the pool's.
LEMMA PoolExact ==
    ASSUME NEW vols, NEW reports \in Seq(Logged),
           \A t \in Tenants : Volume(vols[t]) = VolumeAt(reports, PlacesOf(reports, t))
    PROVE  PoolVolume(vols) = VolumeAt(reports, KnownOf(reports))
<1>. DEFINE f == [i \in DOMAIN reports |-> reports[i].volume]
            g == [t \in Tenants |-> Volume(vols[t])]
            of == [t \in Tenants |-> PlacesOf(reports, t)]
            D == DOMAIN reports
<1>1. IsFiniteSet(D) /\ \A i \in D : reports[i] \in Logged /\ f[i] \in Nat
  BY ListOf, Reports
<1>2. \A P : P \subseteq D => VolumeAt(reports, P) = SumOver(f, P)
  BY Reports, VolumeSum
<1>3. KnownOf(reports) \subseteq D /\ \A t \in Tenants : of[t] \subseteq D
  BY DEF KnownOf, PlacesOf
<1>4. PoolVolume(vols) = SumOver(g, Tenants)
  BY TotalIsSum DEF PoolVolume
<1>5. UNION {of[t] : t \in Tenants} = KnownOf(reports)
  <2>1. \A i \in KnownOf(reports) : reports[i].tenant \in Tenants
    BY <1>1, Reports DEF KnownOf
  <2>2. \A i \in KnownOf(reports) : \E t \in Tenants : i \in of[t]
    BY <2>1 DEF PlacesOf
  <2>3. \A t \in Tenants : of[t] \subseteq KnownOf(reports)
    BY DEF PlacesOf
  <2>. HIDE DEF of
  <2>. QED  BY <2>2, <2>3
<1>6. \A t, u \in Tenants : t # u => of[t] \cap of[u] = {}
  BY DEF PlacesOf
<1>7. \A t \in Tenants : of[t] = PlacesOf(reports, t) /\ g[t] = Volume(vols[t])
  OBVIOUS
<1>. HIDE DEF f, g, of, D
<1>8. \A t \in Tenants : g[t] = SumOver(f, of[t])
  BY <1>2, <1>3, <1>7
<1>9. Parts(Tenants, D, f, g, of)
  BY <1>1, <1>3, <1>6, <1>8, Reports DEF Parts
<1>10. SumOver(g, Tenants) = SumOver(f, UNION {of[t] : t \in Tenants})
  BY <1>9, SumOfParts
<1>. QED  BY <1>2, <1>3, <1>4, <1>5, <1>10

\* A brake is set on the tenant that reports, exactly if its share of all that
\* was reported since the object was constructed is a spike (checkTenantSpike in
\* the handler of /coordinator/report-volume).
THEOREM SpikesAreBraked == Spec => BrakesTheSpiker
<1>1. IndInv /\ [Next]_vars
         => [\A t \in Tenants :
               Len(log') > Len(log) /\ log'[Len(log')].tenant = t =>
                  ( activeBrakes'[t] = now + BrakeSeconds
                    <=> \/ Spikes(VolumeAt(log, OfTenant(t))', VolumeAt(log, Known)')
                        \/ activeBrakes[t] = now + BrakeSeconds )]_vars
  <2>. SUFFICES ASSUME IndInv, Next, NEW t \in Tenants,
                       Len(log') > Len(log), log'[Len(log')].tenant = t
                PROVE  activeBrakes'[t] = now + BrakeSeconds
                       <=> \/ Spikes(VolumeAt(log, OfTenant(t))', VolumeAt(log, Known)')
                           \/ activeBrakes[t] = now + BrakeSeconds
    OBVIOUS
  <2>1. /\ now \in Nat /\ log \in Seq(LoggedBy(now)) /\ log \in Seq(Logged) /\ Len(log) \in Nat
        /\ tenantVolumes \in [Tenants -> Seq(Report)]
        /\ activeBrakes \in [Tenants -> BrakeBy(now)]
    BY StateTypes, ListOf
  <2>2. ASSUME log' = log PROVE FALSE
    BY <2>1, <2>2
  <2>3. ASSUME NEW failed \in Failures, Restart(failed) PROVE FALSE
    <3>1. log' = [i \in DOMAIN log |-> [log[i] EXCEPT !.wiped = TRUE]]
      BY <2>3 DEF Restart
    <3>2. DOMAIN log' = 1..Len(log)
      BY <2>1, <3>1, ListOf
    <3>3. log' \in Seq(Logged)
      <4>1. IndInv'
        BY <2>3, RestartInv
      <4>2. (IndInv => log \in Seq(Logged))'
        BY LogTyped, PTL
      <4>. QED  BY <4>1, <4>2
    <3>4. Len(log') \in Nat /\ DOMAIN log' = 1..Len(log')
      BY <3>3, ListOf
    <3>. QED  BY <2>1, <3>2, <3>4
  <2>4. ASSUME Tick PROVE FALSE
    <3>1. log' = Within(log, now')
      BY <2>4 DEF Tick
    <3>2. Len(log') <= Len(log) /\ Len(log') \in Nat
      BY <2>1, <3>1, WithinList
    <3>. QED  BY <2>1, <3>2
  <2>5. PICK u \in Tenants, volume \in Volumes : ReportVolume(u, volume)
    <3>1. alarm \/ (\E p \in Providers, stats \in Stats : UpdateProvider(p, stats)) => log' = log
      BY DEF alarm, UpdateProvider
    <3>. QED  BY <2>2, <2>3, <2>4, <3>1 DEF Next
  <2>. DEFINE e == [volume |-> volume, timestamp |-> now]
              g == [tenant |-> u, volume |-> volume, timestamp |-> now, wiped |-> FALSE]
              vols == [x \in Tenants |->
                         Fresh(IF x = u THEN Append(tenantVolumes[x], e)
                                        ELSE tenantVolumes[x])]
  <2>6. /\ tenantVolumes' = vols /\ log' = Append(log, g) /\ now' = now
        /\ IF Spikes(Volume(vols[u]), PoolVolume(vols))
           THEN activeBrakes' = [activeBrakes EXCEPT ![u] = now + BrakeSeconds]
           ELSE activeBrakes' = activeBrakes
    BY <2>5 DEF ReportVolume, Brake
  <2>7. t = u
    <3>1. g \in Logged
      BY <2>1 DEF Logged
    <3>2. g.tenant = u
      OBVIOUS
    <3>. HIDE DEF g
    <3>3. Len(log') = Len(log) + 1 /\ log'[Len(log) + 1] = g
      BY <2>1, <2>6, <3>1, AppendProperties
    <3>. QED  BY <3>2, <3>3
  <2>8. /\ log' \in Seq(Logged) /\ AllWithin(log', now) /\ Kept(vols, log', now)
    <3>1. IndInv'
      BY <2>5, ReportInv
    <3>2. log' \in Seq(Logged)
      <4>1. (IndInv => log \in Seq(Logged))'
        BY LogTyped, PTL
      <4>. QED  BY <3>1, <4>1
    <3>3. AllWithin(log', now') /\ Kept(tenantVolumes', log', now')
      BY <3>1 DEF IndInv
    <3>. QED  BY <2>6, <3>2, <3>3
  <2>9. \A x \in Tenants : vols[x] \in Seq(Report) /\ AllWithin(vols[x], now)
    <3>1. e \in Report
      BY <2>1 DEF Report
    <3>. HIDE DEF e
    <3>. SUFFICES ASSUME NEW x \in Tenants
                  PROVE  vols[x] \in Seq(Report) /\ AllWithin(vols[x], now)
      OBVIOUS
    <3>. DEFINE s == IF x = u THEN Append(tenantVolumes[x], e) ELSE tenantVolumes[x]
    <3>2. s \in Seq(Report)
      <4>1. tenantVolumes[x] \in Seq(Report)
        BY <2>1
      <4>2. Append(tenantVolumes[x], e) \in Seq(Report)
        BY <3>1, <4>1, AppendProperties
      <4>. QED  BY <4>1, <4>2
    <3>3. vols[x] = Within(s, now)
      BY DEF Fresh
    <3>. HIDE DEF s, vols
    <3>4. Within(s, now) \in Seq(Report) /\ AllWithin(Within(s, now), now)
      BY <3>2, WithinList
    <3>. QED  BY <3>3, <3>4
  <2>. HIDE DEF e, g, vols
  <2>10. \A x \in Tenants : Volume(vols[x]) = VolumeAt(log', PlacesOf(log', x))
    <3>. TAKE x \in Tenants
    <3>1. now - WindowSeconds \in Int /\ now - WindowSeconds >= now - WindowSeconds
      BY <2>1, Reports
    <3>2. VolumeIn(vols[x], Recent(now - WindowSeconds))
            = VolumeIn(log', RecentOf(x, now - WindowSeconds))
      BY <2>8, <3>1 DEF Kept
    <3>. QED  BY <2>1, <2>8, <2>9, <3>2, WindowExact
  <2>11. PoolVolume(vols) = VolumeAt(log', KnownOf(log'))
    BY <2>8, <2>10, PoolExact
  <2>12. OfTenant(t)' = PlacesOf(log', t) /\ Known' = KnownOf(log')
    BY DEF OfTenant, Known, PlacesOf, KnownOf
  <2>. DEFINE spikes == Spikes(VolumeAt(log, OfTenant(t))', VolumeAt(log, Known)')
  <2>13. spikes <=> Spikes(Volume(vols[u]), PoolVolume(vols))
    BY <2>7, <2>10, <2>11, <2>12
  <2>. HIDE DEF spikes
  <2>14. CASE spikes
    <3>1. activeBrakes' = [activeBrakes EXCEPT ![t] = now + BrakeSeconds]
      BY <2>6, <2>7, <2>13, <2>14
    <3>2. activeBrakes'[t] = now + BrakeSeconds
      BY <2>1, <3>1
    <3>. QED  BY <2>14, <3>2 DEF spikes
  <2>15. CASE ~spikes
    <3>1. activeBrakes' = activeBrakes
      BY <2>6, <2>13, <2>15
    <3>. QED  BY <2>15, <3>1 DEF spikes
  <2>. QED  BY <2>14, <2>15
<1>. QED  BY <1>1, Invariance, PTL DEF Spec, BrakesTheSpiker
=============================================================================
