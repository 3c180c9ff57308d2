-------------------------- MODULE ChatRequestProofs --------------------------
(***************************************************************************)
(* Proofs about ChatRequest and CostLedger.                                *)
(***************************************************************************)
EXTENDS ChatRequest, FiniteSetTheorems, SequenceTheorems, WellFoundedInduction, TLAPS

-----------------------------------------------------------------------------
(* Sums over finite sets: Total *)

\* The element that the sum takes off a set first.
Pick(s) == CHOOSE x \in s : TRUE

\* g sums f over every subset of S, by the recursion of MapThenFoldSet.
Sums(f, S, g) ==
    g = [s \in SUBSET S |-> IF s = {} THEN 0 ELSE f[Pick(s)] + g[s \ {Pick(s)}]]

\* The sum that this recursion defines.
SumOver(f, S) == (CHOOSE g : Sums(f, S, g))[S]

\* Total, with its recursion in sight.
LEMMA TotalIsSum ==
    ASSUME NEW f, NEW S
    PROVE  Total(f, S) = SumOver(f, S)
BY DEF Total, SumOver, Sums, Pick, MapThenSumSet, MapThenFoldSet

\* A set of subsets of a finite set has a member that holds no other: induction,
\* in the form of the smallest counterexample.
LEMMA Smallest ==
    ASSUME NEW S, IsFiniteSet(S), NEW B, B \subseteq SUBSET S, B # {}
    PROVE  \E T \in B : \A U \in B : U \subseteq T => U = T
<1>1. B \subseteq FiniteSubsetsOf(S)
  BY FS_FiniteSubsetsOfFinite
<1>2. IsWellFoundedOn(StrictSubsetOrdering(S), FiniteSubsetsOf(S))
  BY FS_StrictSubsetOrderingWellFounded
<1>3. PICK T \in B : \A U \in B : ~(<<U, T>> \in StrictSubsetOrdering(S))
  BY <1>1, <1>2, WFMin
<1>4. ASSUME NEW U \in B, U \subseteq T, U # T
      PROVE  FALSE
  <2>1. <<U, T>> \in StrictSubsetOrdering(S)
    BY <1>4 DEF StrictSubsetOrdering
  <2>. QED  BY <1>3, <2>1
<1>. QED  BY <1>4

\* Two solutions agree where both are defined.
LEMMA SumsUnique ==
    ASSUME NEW f, NEW S, IsFiniteSet(S), NEW R, IsFiniteSet(R),
           NEW g, Sums(f, S, g), NEW h, Sums(f, R, h)
    PROVE  \A T \in (SUBSET S) \cap (SUBSET R) : g[T] = h[T]
<1>. DEFINE B == {T \in SUBSET S : T \subseteq R /\ g[T] # h[T]}
<1>. SUFFICES ASSUME B # {} PROVE FALSE
  OBVIOUS
<1>1. PICK T \in B : \A U \in B : U \subseteq T => U = T
  <2>. B \subseteq SUBSET S  OBVIOUS
  <2>. HIDE DEF B
  <2>. QED  BY Smallest
<1>2. T # {}
  BY DEF Sums
<1>3. Pick(T) \in T
  BY <1>2 DEF Pick
<1>4. g[T \ {Pick(T)}] = h[T \ {Pick(T)}]
  BY <1>1, <1>3
<1>5. g[T] = f[Pick(T)] + g[T \ {Pick(T)}] /\ h[T] = f[Pick(T)] + h[T \ {Pick(T)}]
  BY <1>2 DEF Sums
<1>. QED  BY <1>4, <1>5

\* The recursion has a solution.
LEMMA SumsExist ==
    ASSUME NEW f, NEW S, IsFiniteSet(S)
    PROVE  \E g : Sums(f, S, g)
<1>. DEFINE B == {T \in SUBSET S : ~\E g : Sums(f, T, g)}
<1>. SUFFICES ASSUME B # {} PROVE FALSE
  OBVIOUS
<1>1. PICK T \in B : \A U \in B : U \subseteq T => U = T
  <2>. B \subseteq SUBSET S  OBVIOUS
  <2>. HIDE DEF B
  <2>. QED  BY Smallest
<1>. DEFINE Sol(U) == CHOOSE g : Sums(f, U, g)
            g == [U \in SUBSET T |->
                     IF U = {} THEN 0
                     ELSE f[Pick(U)] + Sol(U \ {Pick(U)})[U \ {Pick(U)}]]
<1>2. \A U \in SUBSET T : IsFiniteSet(U) /\ (U # {} => Pick(U) \in U)
  BY FS_Subset DEF Pick
<1>3. \A U \in SUBSET T : U # T => Sums(f, U, Sol(U))
  <2>1. \A U \in SUBSET T : U # T => \E h : Sums(f, U, h)
    BY <1>1
  <2>. QED  BY <2>1
<1>4. ASSUME NEW U \in SUBSET T, U # T
      PROVE  g[U] = Sol(U)[U]
  <2>1. CASE U = {}
    <3>. DEFINE h == Sol(U)
    <3>1. Sums(f, U, h)
      BY <1>3, <1>4
    <3>. HIDE DEF h
    <3>2. h[U] = 0
      BY <2>1, <3>1 DEF Sums
    <3>. QED  BY <2>1, <3>2 DEF h
  <2>2. CASE U # {}
    <3>. DEFINE V == U \ {Pick(U)}
    <3>1. V \in SUBSET U /\ V # T /\ V \in SUBSET T
      BY <1>2, <2>2, <1>4
    <3>2. Sums(f, U, Sol(U)) /\ Sums(f, V, Sol(V))
      BY <1>3, <1>4, <3>1
    <3>3. Sol(U)[U] = f[Pick(U)] + Sol(U)[V]
      BY <3>2, <2>2 DEF Sums
    <3>4. Sol(U)[V] = Sol(V)[V]
      <4>1. IsFiniteSet(U) /\ IsFiniteSet(V) /\ V \in (SUBSET U) \cap (SUBSET V)
        BY <1>2, <3>1
      <4>. DEFINE a == Sol(U)  b == Sol(V)
      <4>2. Sums(f, U, a) /\ Sums(f, V, b)
        BY <3>2
      <4>. HIDE DEF a, b, V
      <4>3. a[V] = b[V]
        BY <4>1, <4>2, SumsUnique
      <4>. QED  BY <4>3 DEF a, b
    <3>. QED  BY <3>3, <3>4, <2>2
  <2>. QED  BY <2>1, <2>2
<1>5. g = [U \in SUBSET T |-> IF U = {} THEN 0 ELSE f[Pick(U)] + g[U \ {Pick(U)}]]
  <2>1. ASSUME NEW U \in SUBSET T, U # {}
        PROVE  Sol(U \ {Pick(U)})[U \ {Pick(U)}] = g[U \ {Pick(U)}]
    <3>1. U \ {Pick(U)} \in SUBSET T /\ U \ {Pick(U)} # T
      BY <1>2, <2>1
    <3>. HIDE DEF g, Sol
    <3>. QED  BY <1>4, <3>1
  <2>. DEFINE h == [U \in SUBSET T |-> IF U = {} THEN 0 ELSE f[Pick(U)] + g[U \ {Pick(U)}]]
  <2>2. \A U \in SUBSET T : g[U] = h[U]
    <3>. TAKE U \in SUBSET T
    <3>1. CASE U = {}
      BY <3>1
    <3>2. CASE U # {}
      <4>. DEFINE V == U \ {Pick(U)}
      <4>1. g[U] = f[Pick(U)] + Sol(V)[V]
        BY <3>2
      <4>2. Sol(V)[V] = g[V]
        BY <3>2, <2>1
      <4>3. h[U] = f[Pick(U)] + g[V]
        <5>. HIDE DEF g
        <5>. QED  BY <3>2
      <4>. HIDE DEF g, h, V
      <4>. QED  BY <4>1, <4>2, <4>3
    <3>. QED  BY <3>1, <3>2
  <2>. QED  BY <2>2
<1>6. Sums(f, T, g)
  BY <1>5 DEF Sums
<1>. QED  BY <1>1, <1>6

\* What the sum is.
LEMMA SumUnfold ==
    ASSUME NEW f, NEW S, IsFiniteSet(S)
    PROVE  /\ SumOver(f, {}) = 0
           /\ S # {} => Pick(S) \in S /\ SumOver(f, S) = f[Pick(S)] + SumOver(f, S \ {Pick(S)})
<1>. DEFINE Sol(U) == CHOOSE g : Sums(f, U, g)
<1>1. Sums(f, {}, Sol({})) /\ Sums(f, S, Sol(S))
  BY SumsExist, FS_EmptySet
<1>2. SumOver(f, {}) = 0
  BY <1>1 DEF SumOver, Sums
<1>3. ASSUME S # {}
      PROVE  Pick(S) \in S /\ SumOver(f, S) = f[Pick(S)] + SumOver(f, S \ {Pick(S)})
  <2>1. Pick(S) \in S
    BY <1>3 DEF Pick
  <2>. DEFINE V == S \ {Pick(S)}
  <2>2. IsFiniteSet(V) /\ V \subseteq S
    BY FS_Subset
  <2>3. Sums(f, V, Sol(V))
    BY <2>2, SumsExist
  <2>4. Sol(S)[V] = Sol(V)[V]
    <3>. DEFINE a == Sol(S)  b == Sol(V)
    <3>1. Sums(f, S, a) /\ Sums(f, V, b) /\ V \in (SUBSET S) \cap (SUBSET V)
      BY <1>1, <2>2, <2>3
    <3>. HIDE DEF a, b, V
    <3>2. a[V] = b[V]
      BY <2>2, <3>1, SumsUnique
    <3>. QED  BY <3>2 DEF a, b
  <2>5. Sol(S)[S] = f[Pick(S)] + Sol(S)[V]
    BY <1>1, <1>3 DEF Sums
  <2>. QED  BY <2>1, <2>4, <2>5 DEF SumOver
<1>. QED  BY <1>2, <1>3

\* A sum of naturals is one.
LEMMA SumType ==
    ASSUME NEW f, NEW S, IsFiniteSet(S), \A x \in S : f[x] \in Nat
    PROVE  SumOver(f, S) \in Nat
<1>. DEFINE B == {T \in SUBSET S : SumOver(f, T) \notin Nat}
<1>. SUFFICES ASSUME B # {} PROVE FALSE
  OBVIOUS
<1>1. PICK T \in B : \A U \in B : U \subseteq T => U = T
  <2>. B \subseteq SUBSET S  OBVIOUS
  <2>. HIDE DEF B
  <2>. QED  BY Smallest
<1>2. IsFiniteSet(T) /\ T \subseteq S
  BY FS_Subset
<1>3. T # {}
  <2>1. SumOver(f, {}) = 0
    BY SumUnfold, FS_EmptySet
  <2>. QED  BY <2>1
<1>4. Pick(T) \in T /\ SumOver(f, T) = f[Pick(T)] + SumOver(f, T \ {Pick(T)})
  BY SumUnfold, <1>2, <1>3
<1>5. SumOver(f, T \ {Pick(T)}) \in Nat
  BY <1>1, <1>4
<1>. QED  BY <1>2, <1>4, <1>5

\* Any element may be taken off first.
LEMMA SumTakeOff ==
    ASSUME NEW f, NEW S, IsFiniteSet(S), \A x \in S : f[x] \in Nat, NEW e \in S
    PROVE  SumOver(f, S) = f[e] + SumOver(f, S \ {e})
<1>. DEFINE B == {T \in SUBSET S : \E x \in T : SumOver(f, T) # f[x] + SumOver(f, T \ {x})}
<1>. SUFFICES ASSUME B # {} PROVE FALSE
  OBVIOUS
<1>1. PICK T \in B : \A U \in B : U \subseteq T => U = T
  <2>. B \subseteq SUBSET S  OBVIOUS
  <2>. HIDE DEF B
  <2>. QED  BY Smallest
<1>2. PICK x \in T : SumOver(f, T) # f[x] + SumOver(f, T \ {x})
  OBVIOUS
<1>3. IsFiniteSet(T) /\ T \subseteq S /\ T # {} /\ IsFiniteSet(T \ {x})
  BY FS_Subset
<1>. DEFINE c == Pick(T)
<1>4. c \in T /\ SumOver(f, T) = f[c] + SumOver(f, T \ {c})
  BY SumUnfold, <1>3
<1>5. x # c
  BY <1>2, <1>4
<1>. DEFINE R == T \ {x, c}
<1>6. SumOver(f, T \ {c}) = f[x] + SumOver(f, R)
  <2>1. T \ {c} \in SUBSET S /\ T \ {c} \notin B
    BY <1>1, <1>4
  <2>2. (T \ {c}) \ {x} = R
    OBVIOUS
  <2>. QED  BY <2>1, <2>2, <1>5
<1>7. SumOver(f, T \ {x}) = f[c] + SumOver(f, R)
  <2>1. T \ {x} \in SUBSET S /\ T \ {x} \notin B
    BY <1>1
  <2>2. (T \ {x}) \ {c} = R
    OBVIOUS
  <2>. QED  BY <2>1, <2>2, <1>4, <1>5
<1>8. SumOver(f, R) \in Nat /\ f[x] \in Nat /\ f[c] \in Nat
  <2>1. IsFiniteSet(R) /\ R \subseteq S
    BY <1>3, FS_Subset
  <2>. HIDE DEF R
  <2>. QED  BY <2>1, SumType, <1>3, <1>4
<1>. HIDE DEF R, c
<1>. QED  BY <1>2, <1>4, <1>6, <1>7, <1>8

\* An element that joins adds its value.
LEMMA SumAdd ==
    ASSUME NEW f, NEW S, IsFiniteSet(S), NEW e, e \notin S,
           \A x \in S \cup {e} : f[x] \in Nat
    PROVE  SumOver(f, S \cup {e}) = SumOver(f, S) + f[e]
<1>1. IsFiniteSet(S \cup {e}) /\ (S \cup {e}) \ {e} = S /\ e \in S \cup {e}
  BY FS_AddElement
<1>2. SumOver(f, S \cup {e}) = f[e] + SumOver(f, (S \cup {e}) \ {e})
  BY <1>1, SumTakeOff
<1>3. SumOver(f, S) \in Nat
  BY SumType
<1>4. f[e] \in Nat
  OBVIOUS
<1>. QED  BY <1>1, <1>2, <1>3, <1>4

\* What is summed over more elements and is nowhere smaller is no smaller.
LEMMA SumDominated ==
    ASSUME NEW f, NEW g, NEW S, NEW R, IsFiniteSet(R), S \subseteq R,
           \A x \in S : f[x] \in Nat /\ f[x] <= g[x],
           \A x \in R : g[x] \in Nat
    PROVE  SumOver(f, S) <= SumOver(g, R)
<1>. DEFINE B == {T \in SUBSET R : ~(SumOver(f, T \cap S) <= SumOver(g, T))}
<1>. SUFFICES ASSUME B # {} PROVE FALSE
  <2>1. R \in SUBSET R /\ R \cap S = S
    OBVIOUS
  <2>. QED  BY <2>1
<1>1. PICK T \in B : \A U \in B : U \subseteq T => U = T
  <2>. B \subseteq SUBSET R  OBVIOUS
  <2>. HIDE DEF B
  <2>. QED  BY Smallest
<1>2. IsFiniteSet(T) /\ T \subseteq R /\ IsFiniteSet(T \cap S)
  <2>1. IsFiniteSet(T) /\ T \subseteq R
    BY FS_Subset
  <2>. QED  BY <2>1, FS_Subset
<1>3. T # {}
  <2>1. SumOver(f, {}) = 0 /\ SumOver(g, {}) = 0
    BY SumUnfold, FS_EmptySet
  <2>2. {} \cap S = {}
    OBVIOUS
  <2>. QED  BY <2>1, <2>2
<1>4. PICK x \in T : TRUE
  BY <1>3
<1>. DEFINE U == T \ {x}
<1>5. IsFiniteSet(U) /\ U \subseteq R /\ IsFiniteSet(U \cap S)
  <2>1. IsFiniteSet(U) /\ U \subseteq R
    BY <1>2, FS_Subset
  <2>. QED  BY <2>1, FS_Subset
<1>6. SumOver(f, U \cap S) <= SumOver(g, U)
  BY <1>1, <1>4
<1>7. SumOver(g, T) = g[x] + SumOver(g, U)
  BY <1>2, <1>4, SumTakeOff
<1>8. SumOver(g, U) \in Nat /\ SumOver(f, U \cap S) \in Nat
  <2>. HIDE DEF U
  <2>. QED  BY <1>5, SumType
<1>9. CASE x \in S
  <2>1. (T \cap S) \ {x} = U \cap S /\ x \in T \cap S
    BY <1>4, <1>9
  <2>2. SumOver(f, T \cap S) = f[x] + SumOver(f, U \cap S)
    <3>1. \A y \in T \cap S : f[y] \in Nat
      BY <1>2
    <3>2. SumOver(f, T \cap S) = f[x] + SumOver(f, (T \cap S) \ {x})
      BY <1>2, <2>1, <3>1, SumTakeOff
    <3>. QED  BY <2>1, <3>2
  <2>3. f[x] \in Nat /\ g[x] \in Nat /\ f[x] <= g[x]
    BY <1>2, <1>9
  <2>. HIDE DEF U
  <2>. QED  BY <1>6, <1>7, <1>8, <2>2, <2>3
<1>10. CASE x \notin S
  <2>1. T \cap S = U \cap S /\ g[x] \in Nat
    BY <1>2, <1>4, <1>10
  <2>. HIDE DEF U
  <2>. QED  BY <1>6, <1>7, <1>8, <2>1
<1>. QED  BY <1>9, <1>10

\* Two functions that agree on a set have the same sum over it.
LEMMA SumSame ==
    ASSUME NEW f, NEW g, NEW S, IsFiniteSet(S), \A x \in S : f[x] = g[x] /\ f[x] \in Nat
    PROVE  SumOver(f, S) = SumOver(g, S)
<1>1. SumOver(f, S) <= SumOver(g, S)
  BY SumDominated
<1>2. SumOver(g, S) <= SumOver(f, S)
  BY SumDominated
<1>3. SumOver(f, S) \in Nat /\ SumOver(g, S) \in Nat
  BY SumType
<1>. QED  BY <1>1, <1>2, <1>3

\* Of finitely many numbers one is the first.
LEMMA Least ==
    ASSUME NEW n \in Nat, NEW T, T \subseteq 1..n, T # {}
    PROVE  \E m \in T : \A j \in T : m <= j
<1>. DEFINE B == {1..i : i \in T}
<1>1. IsFiniteSet(1..n)
  BY FS_Interval
<1>2. PICK U \in B : \A V \in B : V \subseteq U => V = U
  <2>1. \A i \in T : 1..i \subseteq 1..n
    OBVIOUS
  <2>2. B \subseteq SUBSET (1..n)
    BY <2>1
  <2>3. B # {}
    OBVIOUS
  <2>. DEFINE R == 1..n
  <2>4. IsFiniteSet(R) /\ B \subseteq SUBSET R
    BY <1>1, <2>2
  <2>. HIDE DEF B, R
  <2>. QED  BY <2>3, <2>4, Smallest
<1>3. PICK m \in T : U = 1..m
  OBVIOUS
<1>4. ASSUME NEW j \in T, ~(m <= j)
      PROVE  FALSE
  <2>1. 1..j \in B /\ 1..j \subseteq 1..m
    BY <1>4
  <2>2. 1..j = 1..m
    BY <1>2, <1>3, <2>1
  <2>. QED  BY <1>4, <2>2
<1>. QED  BY <1>4

-----------------------------------------------------------------------------
(* The ledger *)

\* What recordUsage may write to the ledger.
Events ==
    [requestId : Requests \cup Jobs, tenantId : Tenants, cost : Costs \cup {0}, day : Days]

\* The cost of an event.
Priced == [e \in Events |-> e.cost]

\* EventsOf and Aggregate, of any ledger.
Of(L, row) == {e \in L : e.tenantId = row[1] /\ e.day = row[2]}

Agg(L, row) ==
    [requests |-> Cardinality(Of(L, row)), cost |-> SumOver(Priced, Of(L, row))]

\* Figures that are no larger than others.
Within(a, b) == a.requests <= b.requests /\ a.cost <= b.cost

\* What a row of the rollup, or an aggregate, may be.
Figures == [requests : Nat, cost : Nat]

\* The types of the ledger, and that it is finite.
LedgerShapes ==
    /\ LedgerTypeOK
    /\ ledger \subseteq Events /\ IsFiniteSet(ledger) /\ day >= 1
    /\ audit \in [Audits -> {NoAudit, Stopped}
                            \cup [at : {"read"}, row : Row, total : Figures]]

\* The rows of the rollup are within the ledger and what was added beside it,
\* in requests and in money.
Backed == \A row \in Row : Within(rollup[row], Plus(Agg(ledger, row), added[row]))

\* So is what a reconciliation has read, and it is the ledger's still unless an
\* event was noted to have overtaken it.
AuditsBacked ==
    \A a \in Audits :
        audit[a].at = "read" =>
            /\ Within(audit[a].total, Agg(ledger, audit[a].row))
            /\ audit[a].row \notin raced => audit[a].total = Agg(ledger, audit[a].row)

\* What the ledger contributes to the inductive invariant.
LedgerInv == LedgerShapes /\ Backed /\ AuditsBacked

\* Costs are natural numbers.
LEMMA CostsNat == \A c \in Costs \cup {0} : c \in Nat
BY LedgerAssumption

\* A finite ledger has an aggregate of natural numbers for every row.
LEMMA AggType ==
    ASSUME NEW L, L \subseteq Events, IsFiniteSet(L), NEW row
    PROVE  /\ Of(L, row) \subseteq Events /\ IsFiniteSet(Of(L, row))
           /\ Agg(L, row) \in Figures
<1>1. Of(L, row) \subseteq L
  BY DEF Of
<1>2. IsFiniteSet(Of(L, row)) /\ Of(L, row) \subseteq Events
  BY <1>1, FS_Subset
<1>3. \A e \in Of(L, row) : Priced[e] \in Nat
  BY <1>2, CostsNat DEF Priced, Events
<1>4. SumOver(Priced, Of(L, row)) \in Nat
  BY <1>2, <1>3, SumType
<1>5. Cardinality(Of(L, row)) \in Nat
  BY <1>2, FS_CardinalityType
<1>. QED  BY <1>2, <1>4, <1>5 DEF Agg, Figures

\* Figures within figures are within what those are within.
LEMMA WithinTransitive ==
    ASSUME NEW a \in Figures, NEW b \in Figures, NEW c \in Figures,
           Within(a, b), Within(b, c)
    PROVE  Within(a, c)
BY DEF Within, Figures

\* Sums of figures are figures, grow with each part, and nothing adds nothing.
LEMMA PlusGrows ==
    ASSUME NEW a \in Figures, NEW b \in Figures, NEW c \in Figures
    PROVE  /\ Plus(a, b) \in Figures
           /\ Within(a, b) => Within(Plus(a, c), Plus(b, c))
           /\ Within(a, b) => Within(Plus(c, a), Plus(c, b))
           /\ Plus(Plus(a, b), c) = Plus(Plus(a, c), b)
           /\ Plus(Plus(a, b), c) = Plus(a, Plus(b, c))
           /\ Plus(a, Zero) = a
BY DEF Plus, Within, Figures, Zero

\* A ledger that grows has no smaller aggregate.
LEMMA AggGrows ==
    ASSUME NEW L, NEW M, L \subseteq M, M \subseteq Events, IsFiniteSet(M), NEW row
    PROVE  Within(Agg(L, row), Agg(M, row))
<1>1. Of(L, row) \subseteq Of(M, row)
  BY DEF Of
<1>2. Of(M, row) \subseteq Events /\ IsFiniteSet(Of(M, row))
  BY AggType
<1>3. \A e \in Of(M, row) : Priced[e] \in Nat /\ Priced[e] <= Priced[e]
  BY <1>2, CostsNat DEF Priced, Events
<1>4. SumOver(Priced, Of(L, row)) <= SumOver(Priced, Of(M, row))
  BY <1>1, <1>2, <1>3, SumDominated
<1>5. Cardinality(Of(L, row)) <= Cardinality(Of(M, row))
  BY <1>1, <1>2, FS_Subset
<1>. QED  BY <1>4, <1>5 DEF Agg, Within

\* An event adds one request and its cost to its row.
LEMMA AggAdd ==
    ASSUME NEW L, L \subseteq Events, IsFiniteSet(L), NEW e \in Events, e \notin L
    PROVE  Agg(L \cup {e}, <<e.tenantId, e.day>>) =
               Plus(Agg(L, <<e.tenantId, e.day>>), [requests |-> 1, cost |-> e.cost])
<1>. DEFINE row == <<e.tenantId, e.day>>
<1>1. Of(L \cup {e}, row) = Of(L, row) \cup {e} /\ e \notin Of(L, row)
  BY DEF Of
<1>2. Of(L, row) \subseteq Events /\ IsFiniteSet(Of(L, row))
  BY AggType
<1>3. \A x \in Of(L, row) \cup {e} : Priced[x] \in Nat
  BY <1>2, CostsNat DEF Priced, Events
<1>4. SumOver(Priced, Of(L, row) \cup {e}) = SumOver(Priced, Of(L, row)) + Priced[e]
  BY <1>1, <1>2, <1>3, SumAdd
<1>5. Cardinality(Of(L, row) \cup {e}) = Cardinality(Of(L, row)) + 1
  BY <1>1, <1>2, FS_AddElement
<1>6. Priced[e] = e.cost
  BY DEF Priced
<1>. QED  BY <1>1, <1>4, <1>5, <1>6 DEF Agg, Plus

\* Aggregate is the aggregate of the ledger.
LEMMA AggregateIs ==
    ledger \subseteq Events /\ IsFiniteSet(ledger)
        => \A row : Aggregate(row) = Agg(ledger, row)
<1>. SUFFICES ASSUME ledger \subseteq Events, IsFiniteSet(ledger), NEW row
              PROVE  Aggregate(row) = Agg(ledger, row)
  OBVIOUS
<1>1. EventsOf(row) = Of(ledger, row)
  BY DEF EventsOf, Of
<1>. DEFINE S == Of(ledger, row)
            f == [e \in S |-> e.cost]
<1>2. S \subseteq Events /\ IsFiniteSet(S)
  BY AggType
<1>3. \A e \in S : f[e] = Priced[e] /\ f[e] \in Nat
  BY <1>2, CostsNat DEF Priced, Events
<1>4. SumOver(f, S) = SumOver(Priced, S)
  <2>. HIDE DEF S, f
  <2>. QED  BY <1>2, <1>3, SumSame
<1>5. Total(f, S) = SumOver(f, S)
  BY TotalIsSum
<1>. QED  BY <1>1, <1>4, <1>5 DEF Aggregate, Agg

\* The same of the next state.
LEMMA AggregateNext ==
    (ledger \subseteq Events /\ IsFiniteSet(ledger))'
        => \A row : Aggregate(row)' = Agg(ledger', row)
<1>1. (ledger \subseteq Events /\ IsFiniteSet(ledger)
           => \A row : Aggregate(row) = Agg(ledger, row))'
  BY AggregateIs, PTL
<1>. QED  BY <1>1

\* Events of one row join the ledger, with ids that are not in it: no aggregate
\* shrinks, and what a reconciliation has read of the row is noted as overtaken.
LEMMA Joined ==
    ASSUME LedgerInv, NEW E, E \subseteq Events, IsFiniteSet(E),
           NEW t \in Tenants,
           \A e \in E : e.tenantId = t /\ e.day = day /\ ~Recorded(e.requestId),
           \A e, f \in E : e.requestId = f.requestId => e = f,
           ledger' = ledger \cup E,
           raced' = IF UnderAudit(<<t, day>>) THEN raced \cup {<<t, day>>} ELSE raced,
           UNCHANGED <<audit, day>>
    PROVE  /\ \A e \in ledger' : e.tenantId \in Tenants /\ e.cost \in Nat /\ e.day \in 1..day'
           /\ \A e, f \in ledger' : e.requestId = f.requestId => e = f
           /\ ledger' \subseteq Events /\ IsFiniteSet(ledger') /\ day' >= 1
           /\ day' \in Days /\ raced' \subseteq Row
           /\ \A row \in Row : \A p \in Figures :
                  Within(p, Agg(ledger, row)) => Within(p, Agg(ledger', row))
           /\ AuditsBacked'
<1>. USE DEF LedgerInv
<1>1. ledger' \subseteq Events /\ IsFiniteSet(ledger')
  <2>1. ledger \subseteq Events /\ IsFiniteSet(ledger)
    BY DEF LedgerShapes
  <2>2. IsFiniteSet(ledger \cup E)
    BY <2>1, FS_Union
  <2>. QED  BY <2>1, <2>2
<1>3. \A row : /\ Within(Agg(ledger, row), Agg(ledger', row))
               /\ Agg(ledger, row) \in Figures /\ Agg(ledger', row) \in Figures
  <2>1. ledger \subseteq ledger' /\ ledger \subseteq Events /\ IsFiniteSet(ledger)
    BY DEF LedgerShapes
  <2>. QED  BY <1>1, <2>1, AggGrows, AggType
<1>4. day \in Days /\ day \in Nat /\ day >= 1 /\ raced \subseteq Row /\ day' = day
  BY LedgerAssumption DEF LedgerShapes, LedgerTypeOK
<1>5. \A e \in ledger' : e.tenantId \in Tenants /\ e.cost \in Nat /\ e.day \in 1..day'
  <2>1. \A e \in ledger : e.day \in 1..day'
    BY <1>4 DEF LedgerShapes, LedgerTypeOK
  <2>2. \A e \in E : e.day \in 1..day'
    BY <1>4
  <2>. QED  BY <1>1, <2>1, <2>2, CostsNat DEF Events
<1>6. \A e, f \in ledger' : e.requestId = f.requestId => e = f
  <2>1. \A e, f \in ledger : e.requestId = f.requestId => e = f
    BY DEF LedgerShapes, LedgerTypeOK
  <2>2. \A e \in ledger, f \in E : e.requestId # f.requestId
    BY DEF Recorded
  <2>. QED  BY <2>1, <2>2
<1>7. <<t, day>> \in Row
  BY <1>4 DEF Row
<1>8. ASSUME NEW a \in Audits, audit'[a].at = "read"
      PROVE  /\ Within(audit'[a].total, Agg(ledger', audit'[a].row))
             /\ audit'[a].row \notin raced' => audit'[a].total = Agg(ledger', audit'[a].row)
  <2>. DEFINE row == audit[a].row
  <2>1. audit' = audit /\ audit[a].at = "read"
    BY <1>8
  <2>2. audit[a].total \in Figures /\ row \in Row
    BY <2>1 DEF LedgerShapes, NoAudit, Stopped
  <2>3. /\ Within(audit[a].total, Agg(ledger, row))
        /\ row \notin raced => audit[a].total = Agg(ledger, row)
    BY <2>1 DEF AuditsBacked
  <2>4. Within(audit[a].total, Agg(ledger', row))
    <3>. HIDE DEF row
    <3>. QED  BY <2>2, <2>3, <1>3, WithinTransitive
  <2>5. ASSUME row \notin raced'
        PROVE  audit[a].total = Agg(ledger', row)
    <3>1. row # <<t, day>> /\ row \notin raced
      BY <2>1, <2>5 DEF UnderAudit
    <3>2. \A e \in E : ~(e.tenantId = row[1] /\ e.day = row[2])
      BY <2>2, <3>1 DEF Row
    <3>3. Of(ledger', row) = Of(ledger, row)
      BY <3>2 DEF Of
    <3>. QED  BY <2>3, <3>1, <3>3 DEF Agg
  <2>. QED  BY <2>1, <2>4, <2>5
<1>9. AuditsBacked'
  BY <1>8 DEF AuditsBacked
<1>10. \A row \in Row : \A p \in Figures :
           Within(p, Agg(ledger, row)) => Within(p, Agg(ledger', row))
  BY <1>3, WithinTransitive
<1>. QED  BY <1>1, <1>4, <1>5, <1>6, <1>7, <1>9, <1>10

\* A ledger that grows accounts for whatever it did.
LEMMA StillBacked ==
    ASSUME LedgerInv, NEW E, E \subseteq Events, IsFiniteSet(E)
    PROVE  \A row \in Row :
               /\ Within(rollup[row], Plus(Agg(ledger \cup E, row), added[row]))
               /\ {rollup[row], added[row], Agg(ledger, row), Agg(ledger \cup E, row)}
                      \subseteq Figures
<1>. SUFFICES ASSUME NEW row \in Row
              PROVE  /\ Within(rollup[row], Plus(Agg(ledger \cup E, row), added[row]))
                     /\ {rollup[row], added[row], Agg(ledger, row), Agg(ledger \cup E, row)}
                            \subseteq Figures
  OBVIOUS
<1>. DEFINE M == ledger \cup E
<1>1. ledger \subseteq Events /\ IsFiniteSet(ledger)
  BY DEF LedgerInv, LedgerShapes
<1>2. M \subseteq Events /\ IsFiniteSet(M) /\ ledger \subseteq M
  BY <1>1, FS_Union
<1>. HIDE DEF M
<1>3. Within(Agg(ledger, row), Agg(M, row))
  BY <1>2, AggGrows
<1>4. Agg(ledger, row) \in Figures /\ Agg(M, row) \in Figures
  BY <1>1, <1>2, AggType
<1>5. rollup[row] \in Figures /\ added[row] \in Figures
  BY DEF LedgerInv, LedgerShapes, LedgerTypeOK, Figures
<1>6. Within(rollup[row], Plus(Agg(ledger, row), added[row]))
  BY DEF LedgerInv, Backed
<1>7. /\ Within(Plus(Agg(ledger, row), added[row]), Plus(Agg(M, row), added[row]))
      /\ Plus(Agg(ledger, row), added[row]) \in Figures
      /\ Plus(Agg(M, row), added[row]) \in Figures
  BY <1>3, <1>4, <1>5, PlusGrows
<1>8. Within(rollup[row], Plus(Agg(M, row), added[row]))
  BY <1>5, <1>6, <1>7, WithinTransitive
<1>. QED  BY <1>4, <1>5, <1>8 DEF M

\* recordEvent, of a job or of a request.
LEMMA RecordEventOK ==
    ASSUME LedgerInv, NEW id \in Requests \cup Jobs, NEW t \in Tenants,
           NEW c \in Costs \cup {0}, ~Recorded(id), recordEvent(Event(id, t, c))
    PROVE  LedgerInv'
<1>. DEFINE e == Event(id, t, c)
            E == {e}
<1>1. E \subseteq Events /\ IsFiniteSet(E) /\ e.tenantId = t /\ e.day = day
      /\ e.requestId = id
  <2>1. day \in Days
    BY DEF LedgerInv, LedgerShapes, LedgerTypeOK
  <2>2. e = [requestId |-> id, tenantId |-> t, cost |-> c, day |-> day]
    BY DEF Event
  <2>3. e \in Events
    BY <2>1, <2>2 DEF Events
  <2>. QED  BY <2>2, <2>3, FS_Singleton
<1>2. /\ ledger' = ledger \cup E
      /\ raced' = IF UnderAudit(<<t, day>>) THEN raced \cup {<<t, day>>} ELSE raced
      /\ UNCHANGED <<audit, day>> /\ rollup' = rollup /\ added' = added
  BY <1>1 DEF recordEvent, Insert
<1>3. /\ \A x \in E : x.tenantId = t /\ x.day = day /\ ~Recorded(x.requestId)
      /\ \A x, f \in E : x.requestId = f.requestId => x = f
  BY <1>1
<1>. HIDE DEF E, e
<1>4. /\ \A x \in ledger' : x.tenantId \in Tenants /\ x.cost \in Nat /\ x.day \in 1..day'
      /\ \A x, f \in ledger' : x.requestId = f.requestId => x = f
      /\ ledger' \subseteq Events /\ IsFiniteSet(ledger') /\ day' >= 1
      /\ day' \in Days /\ raced' \subseteq Row
      /\ \A row \in Row : \A p \in Figures :
             Within(p, Agg(ledger, row)) => Within(p, Agg(ledger', row))
      /\ AuditsBacked'
  BY <1>1, <1>2, <1>3, Joined
<1>5. LedgerShapes'
  BY <1>2, <1>4 DEF LedgerInv, LedgerShapes, LedgerTypeOK
<1>6. Backed'
  BY <1>1, <1>2, StillBacked DEF Backed
<1>. QED  BY <1>4, <1>5, <1>6 DEF LedgerInv

\* recordEventWithRollup: the row grows by what its aggregate grows by.
LEMMA RecordEventWithRollupOK ==
    ASSUME LedgerInv, NEW id \in Jobs, NEW t \in Tenants, NEW c \in Costs,
           recordEventWithRollup(id, t, c)
    PROVE  LedgerInv'
<1>. DEFINE e == Event(id, t, c)
            E == {e}
            here == <<t, day>>
<1>1. e \in Events /\ e.tenantId = t /\ e.day = day /\ e.requestId = id /\ e.cost = c
  <2>1. day \in Days
    BY DEF LedgerInv, LedgerShapes, LedgerTypeOK
  <2>2. e = [requestId |-> id, tenantId |-> t, cost |-> c, day |-> day]
    BY DEF Event
  <2>. QED  BY <2>1, <2>2 DEF Events
<1>2. E \subseteq Events /\ IsFiniteSet(E) /\ e \notin ledger
  BY <1>1, FS_Singleton DEF recordEventWithRollup, Recorded
<1>3. /\ ledger' = ledger \cup E
      /\ raced' = IF UnderAudit(<<t, day>>) THEN raced \cup {<<t, day>>} ELSE raced
      /\ UNCHANGED <<audit, day>> /\ added' = added
      /\ rollup' = [rollup EXCEPT ![here] = Plus(@, [requests |-> 1, cost |-> c])]
  BY <1>1 DEF recordEventWithRollup, Insert, Accumulate
<1>4. /\ \A x \in E : x.tenantId = t /\ x.day = day /\ ~Recorded(x.requestId)
      /\ \A x, f \in E : x.requestId = f.requestId => x = f
  BY <1>1 DEF recordEventWithRollup
<1>5. ledger \subseteq Events /\ IsFiniteSet(ledger) /\ rollup \in [Row -> Figures]
      /\ c \in Nat /\ here \in Row
  BY CostsNat DEF LedgerInv, LedgerShapes, LedgerTypeOK, Figures, Row
<1>6. Agg(ledger', here) = Plus(Agg(ledger, here), [requests |-> 1, cost |-> c])
  <2>. HIDE DEF e
  <2>. QED  BY <1>1, <1>2, <1>3, <1>5, AggAdd
<1>. HIDE DEF E, e
<1>7. /\ \A x \in ledger' : x.tenantId \in Tenants /\ x.cost \in Nat /\ x.day \in 1..day'
      /\ \A x, f \in ledger' : x.requestId = f.requestId => x = f
      /\ ledger' \subseteq Events /\ IsFiniteSet(ledger') /\ day' >= 1
      /\ day' \in Days /\ raced' \subseteq Row
      /\ \A row \in Row : \A p \in Figures :
             Within(p, Agg(ledger, row)) => Within(p, Agg(ledger', row))
      /\ AuditsBacked'
  BY <1>2, <1>3, <1>4, Joined
<1>12. \A row \in Row :
           /\ Within(rollup[row], Plus(Agg(ledger', row), added[row]))
           /\ {rollup[row], added[row], Agg(ledger, row)} \subseteq Figures
  BY <1>2, <1>3, StillBacked
<1>. HIDE DEF here
<1>8. rollup' \in [Row -> Figures]
  BY <1>3, <1>5 DEF Plus, Figures
<1>9. LedgerShapes'
  BY <1>3, <1>7, <1>8 DEF LedgerInv, LedgerShapes, LedgerTypeOK, Figures
<1>10. ASSUME NEW row \in Row
       PROVE  Within(rollup'[row], Plus(Agg(ledger', row), added[row]))
  <2>. DEFINE one == [requests |-> 1, cost |-> c]
  <2>1. CASE row = here
    <3>1. one \in Figures /\ rollup'[row] = Plus(rollup[row], one)
          /\ Agg(ledger', row) = Plus(Agg(ledger, row), one)
      BY <1>3, <1>5, <1>6, <2>1 DEF Figures
    <3>2. {rollup[row], added[row], Agg(ledger, row)} \subseteq Figures
      BY <1>12
    <3>3. Within(rollup[row], Plus(Agg(ledger, row), added[row]))
      BY DEF LedgerInv, Backed
    <3>. HIDE DEF one
    <3>4. Plus(Agg(ledger, row), added[row]) \in Figures
      BY <3>2, PlusGrows
    <3>5. Within(Plus(rollup[row], one), Plus(Plus(Agg(ledger, row), added[row]), one))
      BY <3>1, <3>2, <3>3, <3>4, PlusGrows
    <3>6. Plus(Plus(Agg(ledger, row), added[row]), one) = Plus(Plus(Agg(ledger, row), one), added[row])
      <4>. DEFINE x == Agg(ledger, row)
                  y == added[row]
      <4>1. x \in Figures /\ y \in Figures /\ one \in Figures
        BY <3>1, <3>2
      <4>. HIDE DEF x, y
      <4>2. Plus(Plus(x, y), one) = Plus(Plus(x, one), y)
        BY ONLY <4>1, PlusGrows
      <4>. QED  BY <4>2 DEF x, y
    <3>. QED  BY <3>1, <3>5, <3>6
  <2>2. CASE row # here
    BY <2>2, <1>3, <1>5, <1>12
  <2>. QED  BY <2>1, <2>2
<1>11. Backed'
  BY <1>3, <1>10 DEF Backed
<1>. QED  BY <1>7, <1>9, <1>11 DEF LedgerInv

\* recordBatch: the events of the batch differ in their ids.
LEMMA RecordBatchOK ==
    ASSUME LedgerInv, NEW ids \in SUBSET Jobs, NEW t \in Tenants, NEW c \in Costs,
           recordBatch(ids, t, c)
    PROVE  LedgerInv'
<1>. DEFINE E == {Event(id, t, c) : id \in ids}
<1>1. day \in Days
  BY DEF LedgerInv, LedgerShapes, LedgerTypeOK
<1>2. \A id \in ids : /\ Event(id, t, c) \in Events
                      /\ Event(id, t, c).tenantId = t /\ Event(id, t, c).day = day
                      /\ Event(id, t, c).requestId = id
  BY <1>1 DEF Event, Events
<1>3. E \subseteq Events
  BY <1>2
<1>4. IsFiniteSet(E)
  <2>. DEFINE f == [id \in ids |-> Event(id, t, c)]
  <2>1. IsFiniteSet(ids)
    BY LedgerAssumption, FS_Subset
  <2>2. f \in Surjection(ids, E)
    BY DEF Surjection
  <2>. HIDE DEF f, E
  <2>. QED  BY <2>1, <2>2, FS_Surjection
<1>5. /\ \A x \in E : x.tenantId = t /\ x.day = day /\ ~Recorded(x.requestId)
      /\ \A x, f \in E : x.requestId = f.requestId => x = f
  BY <1>2 DEF recordBatch
<1>6. /\ ledger' = ledger \cup E
      /\ raced' = IF UnderAudit(<<t, day>>) THEN raced \cup {<<t, day>>} ELSE raced
      /\ UNCHANGED <<audit, day>> /\ rollup' = rollup /\ added' = added
  BY DEF recordBatch
<1>. HIDE DEF E
<1>7. /\ \A x \in ledger' : x.tenantId \in Tenants /\ x.cost \in Nat /\ x.day \in 1..day'
      /\ \A x, f \in ledger' : x.requestId = f.requestId => x = f
      /\ ledger' \subseteq Events /\ IsFiniteSet(ledger') /\ day' >= 1
      /\ day' \in Days /\ raced' \subseteq Row
      /\ \A row \in Row : \A p \in Figures :
             Within(p, Agg(ledger, row)) => Within(p, Agg(ledger', row))
      /\ AuditsBacked'
  BY <1>3, <1>4, <1>5, <1>6, Joined
<1>8. LedgerShapes'
  BY <1>6, <1>7 DEF LedgerInv, LedgerShapes, LedgerTypeOK
<1>9. Backed'
  BY <1>3, <1>4, <1>6, StillBacked DEF Backed
<1>. QED  BY <1>7, <1>8, <1>9 DEF LedgerInv

\* upsertDailyRollup: what the row shows beside the ledger is noted.
LEMMA UpsertOK ==
    ASSUME LedgerInv, NEW row \in Row, NEW delta \in Figures, upsertDailyRollup(row, delta)
    PROVE  LedgerInv'
<1>. USE DEF LedgerInv, LedgerShapes
<1>1. /\ rollup' = [rollup EXCEPT ![row] = Plus(rollup[row], delta)]
      /\ added' = [added EXCEPT ![row] = Plus(added[row], delta)]
      /\ UNCHANGED <<ledger, audit, day, raced>>
  BY DEF upsertDailyRollup
<1>2. rollup \in [Row -> Figures] /\ added \in [Row -> Figures]
  BY DEF LedgerTypeOK, Figures
<1>3. rollup' \in [Row -> Figures] /\ added' \in [Row -> Figures]
  <2>1. Plus(rollup[row], delta) \in Figures /\ Plus(added[row], delta) \in Figures
    BY <1>2, PlusGrows
  <2>. QED  BY <1>1, <1>2, <2>1
<1>4. LedgerShapes'
  <2>1. LedgerTypeOK'
    BY <1>1, <1>3 DEF LedgerTypeOK, Figures
  <2>. QED  BY <1>1, <2>1
<1>5. ASSUME NEW other \in Row
      PROVE  Within(rollup'[other], Plus(Agg(ledger, other), added'[other]))
  <2>. DEFINE a == Agg(ledger, other)
  <2>1. Within(rollup[other], Plus(a, added[other])) /\ a \in Figures
    BY AggType DEF Backed
  <2>. HIDE DEF a
  <2>2. CASE other = row
    <3>1. /\ Plus(a, added[row]) \in Figures
          /\ Within(Plus(rollup[row], delta), Plus(Plus(a, added[row]), delta))
          /\ Plus(Plus(a, added[row]), delta) = Plus(a, Plus(added[row], delta))
      <4>1. Plus(a, added[row]) \in Figures
        BY <1>2, <2>1, PlusGrows
      <4>. QED  BY <1>2, <2>1, <2>2, <4>1, PlusGrows
    <3>. QED  BY <1>1, <1>2, <2>2, <3>1 DEF a
  <2>3. CASE other # row
    BY <1>1, <1>2, <2>1, <2>3 DEF a
  <2>. QED  BY <2>2, <2>3
<1>6. Backed'
  BY <1>1, <1>5 DEF Backed
<1>7. AuditsBacked'
  BY <1>1 DEF AuditsBacked
<1>. QED  BY <1>4, <1>6, <1>7

\* The first statement of a reconciliation reads what the ledger holds; a row
\* that no other reconciliation has read is no longer overtaken.
LEMMA ReconcileReadOK ==
    ASSUME LedgerInv, NEW a \in Audits, NEW row \in Row, ReconcileRead(a, row)
    PROVE  LedgerInv'
<1>. USE DEF LedgerInv, LedgerShapes
<1>1. Aggregate(row) = Agg(ledger, row) /\ Agg(ledger, row) \in Figures
  BY AggregateIs, AggType
<1>. DEFINE new == [at |-> "read", row |-> row, total |-> Agg(ledger, row)]
<1>2. audit' = [audit EXCEPT ![a] = new] /\ UNCHANGED <<ledger, rollup, day, added>>
      /\ raced' = (IF UnderAudit(row) THEN raced ELSE raced \ {row})
  BY <1>1 DEF ReconcileRead
<1>3. new \in [at : {"read"}, row : Row, total : Figures]
  BY <1>1
<1>4. LedgerShapes'
  <2>1. audit' \in [Audits -> {NoAudit, Stopped}
                            \cup [at : {"read"}, row : Row, total : Figures]]
    <3>. HIDE DEF new
    <3>. QED  BY <1>2, <1>3
  <2>2. LedgerTypeOK'
    BY <1>2 DEF LedgerTypeOK
  <2>. QED  BY <1>2, <2>1, <2>2
<1>5. Backed'
  BY <1>2 DEF Backed
<1>6. Within(Agg(ledger, row), Agg(ledger, row))
  BY <1>1 DEF Within, Figures
<1>7. ASSUME NEW b \in Audits, audit'[b].at = "read"
      PROVE  /\ Within(audit'[b].total, Agg(ledger', audit'[b].row))
             /\ audit'[b].row \notin raced' => audit'[b].total = Agg(ledger', audit'[b].row)
  <2>1. CASE b = a
    BY <1>2, <1>6, <2>1
  <2>2. CASE b # a
    <3>1. audit'[b] = audit[b] /\ audit[b].at = "read"
      BY <1>2, <1>7, <2>2
    <3>2. audit[b].row \notin raced' => audit[b].row \notin raced
      BY <1>2, <3>1 DEF UnderAudit
    <3>. QED  BY <1>2, <3>1, <3>2 DEF AuditsBacked
  <2>. QED  BY <2>1, <2>2
<1>8. AuditsBacked'
  BY <1>7 DEF AuditsBacked
<1>. QED  BY <1>4, <1>5, <1>8

\* The second writes a sum that is within the ledger.
LEMMA ReconcileWriteOK ==
    ASSUME LedgerInv, NEW a \in Audits, ReconcileWrite(a)
    PROVE  LedgerInv'
<1>. USE DEF LedgerInv, LedgerShapes
<1>1. audit[a] \in [at : {"read"}, row : Row, total : Figures]
  BY DEF ReconcileWrite, NoAudit, Stopped
<1>. DEFINE row == audit[a].row
            total == audit[a].total
<1>2. rollup' = [rollup EXCEPT ![row] = total] /\ audit' = [audit EXCEPT ![a] = NoAudit]
      /\ added' = [added EXCEPT ![row] = Zero]
      /\ UNCHANGED <<ledger, day, raced>>
  BY DEF ReconcileWrite
<1>3. row \in Row /\ total \in Figures /\ Within(total, Agg(ledger, row))
  BY <1>1 DEF AuditsBacked, ReconcileWrite
<1>. HIDE DEF row, total
<1>4. rollup' \in [Row -> Figures] /\ added' \in [Row -> Figures]
  <2>1. rollup \in [Row -> Figures] /\ added \in [Row -> Figures] /\ Zero \in Figures
    BY DEF LedgerTypeOK, Figures, Zero
  <2>. QED  BY <1>2, <1>3, <2>1
<1>5. LedgerShapes'
  <2>1. LedgerTypeOK'
    BY <1>2, <1>4 DEF LedgerTypeOK, Figures
  <2>. QED  BY <1>2, <2>1
<1>6. Backed'
  <2>1. Plus(Agg(ledger, row), Zero) = Agg(ledger, row)
    BY AggType, PlusGrows
  <2>2. rollup'[row] = total /\ added'[row] = Zero
        /\ \A other \in Row \ {row} : rollup'[other] = rollup[other] /\ added'[other] = added[other]
    BY <1>2, <1>3 DEF LedgerTypeOK
  <2>3. \A other \in Row : Within(rollup'[other], Plus(Agg(ledger, other), added'[other]))
    BY <1>3, <2>1, <2>2 DEF Backed
  <2>. QED  BY <1>2, <2>3 DEF Backed
<1>7. AuditsBacked'
  <2>1. \A b \in Audits : audit'[b].at = "read" => audit'[b] = audit[b]
    BY <1>2 DEF NoAudit
  <2>. QED  BY <1>2, <2>1 DEF AuditsBacked
<1>. QED  BY <1>5, <1>6, <1>7

\* A reconciliation that stops writes nothing.
LEMMA ReconcileStopsOK ==
    ASSUME LedgerInv, NEW a \in Audits, ReconcileStops(a)
    PROVE  LedgerInv'
<1>. USE DEF LedgerInv, LedgerShapes
<1>1. audit' = [audit EXCEPT ![a] = Stopped] /\ UNCHANGED <<ledger, rollup, day, raced, added>>
  BY DEF ReconcileStops
<1>2. LedgerShapes'
  BY <1>1 DEF LedgerTypeOK
<1>3. AuditsBacked'
  <2>1. \A b \in Audits : audit'[b].at = "read" => audit'[b] = audit[b]
    BY <1>1 DEF Stopped
  <2>. QED  BY <1>1, <2>1 DEF AuditsBacked
<1>. QED  BY <1>1, <1>2, <1>3 DEF Backed

\* Every step of the ledger's other writers.
LEMMA LedgerStepOK ==
    ASSUME LedgerInv, [LedgerNext]_ledgerVars
    PROVE  LedgerInv'
<1>1. CASE NextDay
  <2>1. day' = day + 1 /\ day' \in Days /\ UNCHANGED <<ledger, rollup, audit, raced, added>>
    BY <1>1 DEF NextDay
  <2>2. day \in Nat /\ day >= 1
    BY LedgerAssumption DEF LedgerInv, LedgerShapes, LedgerTypeOK
  <2>3. LedgerShapes'
    <3>1. \A e \in ledger : e.day \in 1..day'
      BY <2>1, <2>2 DEF LedgerInv, LedgerShapes, LedgerTypeOK
    <3>2. LedgerTypeOK'
      BY <2>1, <3>1 DEF LedgerInv, LedgerShapes, LedgerTypeOK
    <3>. QED  BY <2>1, <2>2, <3>2 DEF LedgerInv, LedgerShapes
  <2>4. Backed' /\ AuditsBacked'
    BY <2>1 DEF LedgerInv, Backed, AuditsBacked
  <2>. QED  BY <2>3, <2>4 DEF LedgerInv
<1>2. ASSUME NEW t \in Tenants, NEW c \in Costs, NEW id \in Jobs,
             ~Recorded(id), recordEvent(Event(id, t, c))
      PROVE  LedgerInv'
  BY <1>2, RecordEventOK
<1>3. CASE UNCHANGED ledgerVars
  BY <1>3 DEF ledgerVars, LedgerInv, LedgerShapes, LedgerTypeOK, Backed, AuditsBacked
<1>4. ASSUME NEW t \in Tenants, NEW c \in Costs, NEW d \in Days, NEW n \in {0, 1},
             upsertDailyRollup(<<t, d>>, [requests |-> n, cost |-> c])
      PROVE  LedgerInv'
  <2>1. <<t, d>> \in Row /\ [requests |-> n, cost |-> c] \in Figures
    BY CostsNat DEF Row, Figures
  <2>. QED  BY <1>4, <2>1, UpsertOK
<1>. QED
  BY <1>1, <1>2, <1>3, <1>4, RecordEventWithRollupOK, RecordBatchOK, ReconcileReadOK,
     ReconcileWriteOK, ReconcileStopsOK DEF LedgerNext

\* At first the tables are empty.
LEMMA LedgerInitOK ==
    ASSUME LedgerInit
    PROVE  LedgerInv
<1>. USE DEF LedgerInit
<1>1. LedgerShapes
  BY LedgerAssumption, FS_EmptySet
     DEF LedgerShapes, LedgerTypeOK, Figures, Zero
<1>2. Backed
  <2>1. \A row : Agg({}, row) \in Figures
    BY AggType, FS_EmptySet
  <2>2. \A row : Plus(Agg({}, row), Zero) = Agg({}, row)
    BY <2>1, PlusGrows
  <2>. QED  BY <2>1, <2>2 DEF Backed, Within, Zero, Figures
<1>3. AuditsBacked
  BY DEF AuditsBacked, NoAudit
<1>. QED  BY <1>1, <1>2, <1>3 DEF LedgerInv

\* A period's summary is within what accounts for it, row by row.
LEMMA SummaryBacked ==
    LedgerInv => RollupBacked
<1>. SUFFICES ASSUME LedgerInv PROVE RollupBacked
  OBVIOUS
<1>. DEFINE due == [row \in Row |-> Accounted(row)]
<1>1. \A row : Aggregate(row) = Agg(ledger, row) /\ Agg(ledger, row) \in Figures
  BY AggregateIs, AggType DEF LedgerInv, LedgerShapes
<1>2. \A row \in Row : rollup[row] \in Figures /\ added[row] \in Figures
  BY DEF LedgerInv, LedgerShapes, LedgerTypeOK, Figures
<1>3. \A row \in Row : due[row] \in Figures /\ Within(rollup[row], due[row])
  <2>1. \A row \in Row : due[row] = Plus(Agg(ledger, row), added[row])
    BY <1>1 DEF Accounted
  <2>2. \A row \in Row : Plus(Agg(ledger, row), added[row]) \in Figures
    BY <1>1, <1>2, PlusGrows
  <2>. HIDE DEF due
  <2>. QED  BY <2>1, <2>2 DEF LedgerInv, Backed
<1>. HIDE DEF due
<1>4. \A row \in Row : rollup[row].requests <= due[row].requests
  BY <1>3 DEF Within
<1>5. ASSUME NEW t \in Tenants, NEW first \in Days, NEW last \in Days
      PROVE  SpendSummary(t, first, last) <=
                 Total([d \in Days |-> due[<<t, d>>].cost], Period(first, last))
  <2>. DEFINE S == Period(first, last)
              f == [d \in Days |-> rollup[<<t, d>>].cost]
              g == [d \in Days |-> due[<<t, d>>].cost]
  <2>1. first \in Int /\ last \in Int /\ Days \subseteq Nat
    BY LedgerAssumption
  <2>2. S \subseteq Days /\ IsFiniteSet(S)
    <3>1. ASSUME NEW d \in S PROVE d \in first..last
      <4>1. d \in Nat /\ first <= d /\ d <= last
        BY <2>1 DEF Period
      <4>. QED  BY <2>1, <4>1
    <3>2. S \subseteq first..last /\ IsFiniteSet(first..last)
      BY <2>1, <3>1, FS_Interval
    <3>. QED  BY <3>2, FS_Subset DEF Period
  <2>3. \A d \in S : f[d] \in Nat /\ f[d] <= g[d] /\ g[d] \in Nat
    <3>. TAKE d \in S
    <3>1. <<t, d>> \in Row
      BY <2>2 DEF Row
    <3>2. f[d] = rollup[<<t, d>>].cost /\ g[d] = due[<<t, d>>].cost
      BY <2>2
    <3>. QED  BY <1>2, <1>3, <3>1, <3>2 DEF Within, Figures
  <2>4. SumOver(f, S) <= SumOver(g, S)
    <3>. HIDE DEF f, g, S
    <3>. QED  BY <2>2, <2>3, SumDominated
  <2>5. Total(f, S) = SumOver(f, S) /\ Total(g, S) = SumOver(g, S)
    BY TotalIsSum
  <2>. QED  BY <2>4, <2>5 DEF SpendSummary
<1>. QED  BY <1>4, <1>5 DEF RollupBacked, due

\* A reconciliation that was not overtaken writes what the ledger still holds.
LEMMA WritesRepair ==
    ASSUME LedgerInv, [LedgerNext]_ledgerVars, NEW a \in Audits,
           audit[a].at = "read", audit'[a] = NoAudit, audit[a].row \notin raced
    PROVE  rollup'[audit[a].row] = Aggregate(audit[a].row)
<1>. USE DEF LedgerInv, LedgerShapes
<1>0. audit[a] # NoAudit /\ NoAudit # Stopped /\ NoAudit.at # "read"
  BY DEF NoAudit, Stopped
<1>1. ReconcileWrite(a)
  <2>1. audit' # audit
    BY <1>0
  <2>2. PICK b \in Audits : (\E row \in Row : ReconcileRead(b, row))
                            \/ ReconcileWrite(b) \/ ReconcileStops(b)
    BY <2>1 DEF LedgerNext, ledgerVars, NextDay, recordEvent, recordEventWithRollup,
                recordBatch, upsertDailyRollup
  <2>3. CASE \E row \in Row : ReconcileRead(b, row)
    BY <2>3, <1>0 DEF ReconcileRead, NoAudit
  <2>4. CASE ReconcileStops(b)
    BY <2>4, <1>0 DEF ReconcileStops
  <2>5. CASE ReconcileWrite(b)
    BY <2>5, <1>0 DEF ReconcileWrite
  <2>. QED  BY <2>2, <2>3, <2>4, <2>5
<1>2. audit[a].row \in Row
  BY DEF NoAudit, Stopped
<1>3. audit[a].total = Agg(ledger, audit[a].row)
  BY DEF AuditsBacked
<1>4. rollup'[audit[a].row] = audit[a].total
  BY <1>1, <1>2 DEF ReconcileWrite, LedgerTypeOK
<1>. QED  BY <1>3, <1>4, AggregateIs

-----------------------------------------------------------------------------
(* The gateway's answers *)

\* An answer that ends a request without telling it to come back, and not for a
\* reason that leaves the quota alone.
Plain(a) == a.status \in Nat \ {429} /\ a.code \notin Free

\* The first condition that holds gives the result.
LEMMA FirstIs ==
    ASSUME NEW s, NEW n \in Nat, DOMAIN s = 1..n, \E i \in 1..n : s[i][1]
    PROVE  \E i \in 1..n : First(s) = s[i][2]
<1>. DEFINE T == {i \in 1..n : s[i][1]}
<1>1. PICK m \in T : \A j \in T : m <= j
  <2>1. T \subseteq 1..n /\ T # {}
    OBVIOUS
  <2>. HIDE DEF T
  <2>. QED  BY <2>1, Least
<1>2. \A j \in 1..m-1 : ~s[j][1]
  BY <1>1
<1>. DEFINE k == CHOOSE i \in DOMAIN s : s[i][1] /\ \A j \in 1..i-1 : ~s[j][1]
<1>3. k \in DOMAIN s
  BY <1>1, <1>2
<1>4. First(s) = s[k][2]
  BY DEF First
<1>. QED  BY <1>3, <1>4

\* An error that does not say when to come back.
LEMMA Formatted ==
    ASSUME NEW name, name \notin {"RateLimitExceededError", "QuotaExceededError"},
           NEW status, NEW code
    PROVE  formatRouterError(DomainError(name, status, code)) =
               Answer(status, code, Never, name = "AuthenticationError")
BY DEF formatRouterError, DomainError

\* The answers that Gateway is built from.
LEMMA HerePlain ==
    ASSUME NEW status \in Nat, status # 429, NEW code, code \notin Free
    PROVE  Plain(Here(status, code).answer)
BY DEF Here, Answer, Plain

\* Nor is an answer of 200 or one of a middleware.
LEMMA ByPlain == Plain(OK) /\ \A who : Plain(By(who).answer)
BY DEF OK, By, Answer, Plain, Free

\* Errors among them.
LEMMA ErrorPlain ==
    ASSUME NEW name, name \notin {"RateLimitExceededError", "QuotaExceededError"},
           NEW status \in Nat, status # 429, NEW code, code \notin Free
    PROVE  Plain(formatRouterError(DomainError(name, status, code)))
<1>1. formatRouterError(DomainError(name, status, code)) =
          Answer(status, code, Never, name = "AuthenticationError")
  BY Formatted
<1>. QED  BY <1>1 DEF Answer, Plain

\* RouterErrors among the errors, however they are answered.
LEMMA RouterErrorPlain ==
    ASSUME NEW status \in Nat, status # 429, NEW code, code \notin Free
    PROVE  /\ Plain(formatRouterError(RouterError(status, code)))
           /\ Plain(Thrown(RouterError(status, code)).answer)
<1>1. Plain(formatRouterError(DomainError("RouterError", status, code)))
  BY ErrorPlain
<1>. QED  BY <1>1 DEF RouterError, Thrown

\* One list after another.
LEMMA TwoLists ==
    ASSUME NEW X, NEW m \in Nat, NEW n \in Nat, NEW P \in [1..m -> X], NEW A \in [1..n -> X]
    PROVE  /\ DOMAIN (P \o A) = 1..m+n
           /\ \A i \in 1..m : (P \o A)[i] = P[i]
           /\ \A i \in 1..n : (P \o A)[m + i] = A[i]
<1>1. P \in Seq(X) /\ A \in Seq(X)
  BY SeqDef
<1>2. Len(P) = m /\ Len(A) = n
  BY <1>1, LenProperties
<1>. DEFINE s == P \o A
<1>3. /\ s \in Seq(X) /\ Len(s) = m + n
      /\ \A i \in 1..m+n : s[i] = IF i <= m THEN P[i] ELSE A[i - m]
  BY <1>1, <1>2, ConcatProperties
<1>4. DOMAIN s = 1..m+n
  BY <1>3, LenProperties
<1>. HIDE DEF s
<1>5. \A i \in 1..m : s[i] = P[i]
  BY <1>3
<1>6. ASSUME NEW i \in 1..n PROVE s[m + i] = A[i]
  <2>1. m + i \in 1..m+n /\ ~(m + i <= m) /\ (m + i) - m = i
    OBVIOUS
  <2>. QED  BY <1>3, <2>1
<1>. QED  BY <1>4, <1>5, <1>6 DEF s

\* Whoever the dispatcher asks, and whatever it makes of the request.
LEMMA DispatchPlain ==
    ASSUME NEW env, NEW q
    PROVE  Plain(dispatchRoute(env, q).answer)
<1>. DEFINE P == publicRoutes(env, q)
            A == authenticatedRoutes(env, q)
<1>1. /\ Plain(handleHealth.answer)
      /\ Plain(handleReport(env, q).answer)
      /\ Plain(handleDemoTokenRequest(env).answer)
      /\ Plain(handleGetModel(env, q).answer)
      /\ Plain(getKeyPool(env).answer)
  <2>1. Plain(handleHealth.answer)
    BY HerePlain DEF handleHealth, Free
  <2>2. Plain(handleReport(env, q).answer)
    <3>1. Plain(Here(200, "accepted").answer) /\ Plain(Here(401, "Unauthorized").answer)
      BY HerePlain DEF Free
    <3>. QED  BY <3>1 DEF handleReport
  <2>3. Plain(handleDemoTokenRequest(env).answer)
    <3>1. Plain(By("demo").answer) /\ Plain(Here(503, "NO_DEMO_POOL").answer)
      BY HerePlain, ByPlain DEF Free
    <3>. QED  BY <3>1 DEF handleDemoTokenRequest
  <2>4. Plain(handleGetModel(env, q).answer)
    <3>1. Plain(Here(200, "model").answer) /\ Plain(Here(404, "MODEL_NOT_FOUND").answer)
      BY HerePlain DEF Free
    <3>. QED  BY <3>1 DEF handleGetModel
  <2>5. Plain(getKeyPool(env).answer)
    <3>1. /\ Plain(By("pool").answer)
          /\ Plain(Thrown(RouterError(500, "MISSING_KEY_POOL_BINDING")).answer)
      BY RouterErrorPlain, ByPlain DEF Free
    <3>. QED  BY <3>1 DEF getKeyPool
  <2>. QED  BY <2>1, <2>2, <2>3, <2>4, <2>5
<1>2. Len(P) = 8 /\ \A i \in 1..8 : Plain(P[i][2].answer)
  <2>1. Plain(Here(503, "MIDNIGHT_FREEZE").answer) /\ Plain(Here(200, "openapi").answer)
        /\ Plain(Here(200, "models").answer) /\ Plain(By("dashboard").answer)
    BY HerePlain, ByPlain DEF Free
  <2>2. \A i \in 1..8 : i \in {1, 2, 3, 4, 5, 6, 7, 8}
    OBVIOUS
  <2>. HIDE DEF P
  <2>. QED  BY <1>1, <2>1, <2>2 DEF P, publicRoutes
<1>3. Len(A) = 7 /\ A[7][1] /\ \A i \in 1..7 : Plain(A[i][2].answer)
  <2>1. /\ Plain(Thrown(TenantIsolationError).answer)
        /\ Plain(Thrown(RouterError(400, "INVALID_REQUEST_BODY")).answer)
        /\ Plain(Thrown(RouterError(400, "INVALID_MESSAGES_PARAMETER")).answer)
        /\ Plain(By("chat").answer) /\ Plain(Here(404, "ROUTE_NOT_FOUND").answer)
    <3>1. Plain(Thrown(TenantIsolationError).answer)
      BY ErrorPlain DEF TenantIsolationError, Thrown, Free
    <3>. QED  BY <3>1, HerePlain, RouterErrorPlain, ByPlain DEF Free
  <2>2. \A i \in 1..7 : i \in {1, 2, 3, 4, 5, 6, 7}
    OBVIOUS
  <2>. HIDE DEF A
  <2>. QED  BY <1>1, <2>1, <2>2 DEF A, authenticatedRoutes
<1>. DEFINE s == P \o A
<1>4. /\ DOMAIN s = 1..15
      /\ \A i \in 1..8 : s[i] = P[i]
      /\ \A i \in 1..7 : s[8 + i] = A[i]
  <2>. DEFINE X == {P[i] : i \in 1..8} \cup {A[i] : i \in 1..7}
  <2>1. P \in [1..8 -> X]
    BY DEF publicRoutes
  <2>2. A \in [1..7 -> X]
    BY DEF authenticatedRoutes
  <2>. HIDE DEF P, A, X
  <2>. DEFINE m == 8  n == 7
  <2>3. m \in Nat /\ n \in Nat /\ P \in [1..m -> X] /\ A \in [1..n -> X] /\ m + n = 15
    BY <2>1, <2>2
  <2>. HIDE DEF m, n, s
  <2>4. /\ DOMAIN (P \o A) = 1..m+n
        /\ \A i \in 1..m : (P \o A)[i] = P[i]
        /\ \A i \in 1..n : (P \o A)[m + i] = A[i]
    BY <2>3, TwoLists
  <2>. QED  BY <2>3, <2>4 DEF m, n, s
<1>. HIDE DEF s, P, A
<1>5. \E i \in 1..15 : s[i][1]
  <2>1. s[8 + 7][1]
    BY <1>3, <1>4
  <2>. QED  BY <2>1
<1>6. PICK i \in 1..15 : First(s) = s[i][2]
  <2>1. 15 \in Nat /\ DOMAIN s = 1..15
    BY <1>4
  <2>. QED  BY <1>5, <2>1, FirstIs
<1>7. Plain(s[i][2].answer)
  <2>1. CASE i \in 1..8
    BY <2>1, <1>2, <1>4
  <2>2. CASE i \notin 1..8
    <3>1. i - 8 \in 1..7 /\ i = 8 + (i - 8)
      BY <2>2
    <3>2. s[8 + (i - 8)] = A[i - 8]
      BY <1>4, <3>1
    <3>. QED  BY <1>3, <3>1, <3>2
  <2>. QED  BY <2>1, <2>2
<1>. QED  BY <1>6, <1>7 DEF dispatchRoute, s, P, A


\* The health probe.
LEMMA HealthPlain == Plain(handleHealth.answer)
BY HerePlain DEF handleHealth, Free

\* The page's worker.
LEMMA ConsolePlain ==
    ASSUME NEW env, NEW q
    PROVE  Plain(handleConsoleRequest(env, q).answer)
<1>. DEFINE s == << <<q.method = "GET" /\ IsHealth(q), handleHealth>>,
                    <<q.method = "GET" /\ env.ASSETS, By("assets")>>,
                    <<q.method = "GET", Here(200, "page")>>,
                    <<TRUE, Here(405, "METHOD_NOT_ALLOWED")>> >>
            n == 4
<1>1. /\ Plain(By("assets").answer) /\ Plain(Here(200, "page").answer)
      /\ Plain(Here(405, "METHOD_NOT_ALLOWED").answer)
  BY DEF Here, By, OK, Answer, Plain, Free
<1>2. /\ DOMAIN s = 1..n /\ s[4][1]
      /\ \A i \in 1..n : Plain(s[i][2].answer)
  <2>1. \A i \in 1..n : i \in {1, 2, 3, 4}
    OBVIOUS
  <2>2. DOMAIN s = 1..n /\ s[4][1]
    OBVIOUS
  <2>3. /\ Plain(s[1][2].answer) /\ Plain(s[2][2].answer) /\ Plain(s[3][2].answer)
        /\ Plain(s[4][2].answer)
    BY <1>1, HealthPlain
  <2>. HIDE DEF s, n
  <2>. QED  BY <2>1, <2>2, <2>3
<1>3. n \in Nat /\ 4 \in 1..n
  OBVIOUS
<1>4. handleConsoleRequest(env, q) = First(s)
  BY DEF handleConsoleRequest
<1>. HIDE DEF s, n
<1>5. PICK i \in 1..n : First(s) = s[i][2]
  BY <1>2, <1>3, FirstIs
<1>. QED  BY <1>2, <1>4, <1>5

\* The entry point.
LEMMA FetchPlain ==
    ASSUME NEW env, NEW q
    PROVE  Plain(fetch(env, q).answer)
<1>. DEFINE route == parseSubdomain(q.host)
            s == << <<q.method = "OPTIONS", Here(204, "preflight")>>,
                    <<route = "admin" /\ ~verifyAdminRequest(env, q.bearer),
                      Here(404, "NOT_FOUND")>>,
                    <<route = "admin", By("admin")>>,
                    <<route = "console" /\ ConsoleApi(q.path), dispatchRoute(env, q)>>,
                    <<route = "console", handleConsoleRequest(env, q)>>,
                    <<q.host = Apex /\ q.path = <<>>, Here(302, "console")>>,
                    <<q.method = "GET" /\ IsHealth(q), handleHealth>>,
                    <<route = "apex" /\ env.ASSETS /\ q.method = "GET" /\ IsAsset(q),
                      By("assets")>>,
                    <<q.method = "GET" /\ q.path = <<>>, Here(200, "ready")>>,
                    <<TRUE, dispatchRoute(env, q)>> >>
            n == 10
<1>1. /\ Plain(Here(204, "preflight").answer) /\ Plain(Here(404, "NOT_FOUND").answer)
      /\ Plain(By("admin").answer) /\ Plain(Here(302, "console").answer)
      /\ Plain(By("assets").answer) /\ Plain(Here(200, "ready").answer)
  BY DEF Here, By, OK, Answer, Plain, Free
<1>2. Plain(dispatchRoute(env, q).answer) /\ Plain(handleConsoleRequest(env, q).answer)
  BY DispatchPlain, ConsolePlain
<1>3. /\ DOMAIN s = 1..n /\ s[10][1]
      /\ \A i \in 1..n : Plain(s[i][2].answer)
  <2>1. \A i \in 1..n : i \in {1, 2, 3, 4, 5, 6, 7, 8, 9, 10}
    OBVIOUS
  <2>2. DOMAIN s = 1..n /\ s[10][1]
    OBVIOUS
  <2>3. Plain(s[1][2].answer) /\ Plain(s[2][2].answer) /\ Plain(s[3][2].answer)
    BY <1>1
  <2>4. Plain(s[4][2].answer) /\ Plain(s[5][2].answer) /\ Plain(s[6][2].answer)
    BY <1>1, <1>2
  <2>5. Plain(s[7][2].answer) /\ Plain(s[8][2].answer)
    BY <1>1, HealthPlain
  <2>6. Plain(s[9][2].answer) /\ Plain(s[10][2].answer)
    BY <1>1, <1>2
  <2>. HIDE DEF s, n
  <2>. QED  BY <2>1, <2>2, <2>3, <2>4, <2>5, <2>6
<1>4. n \in Nat /\ 10 \in 1..n
  OBVIOUS
<1>5. fetch(env, q) = First(s)
  BY DEF fetch
<1>. HIDE DEF s, n
<1>6. PICK i \in 1..n : First(s) = s[i][2]
  BY <1>3, <1>4, FirstIs
<1>. QED  BY <1>3, <1>5, <1>6

\* The refusals of AuthMiddleware, and the brake's.
LEMMA Refused ==
    /\ formatRouterError(AuthenticationError).code \in Free
    /\ formatRouterError(AuthenticationError).status = 401
    /\ formatRouterError(QuotaExceededError).code \in Free
    /\ formatRouterError(QuotaExceededError).retryAfter \in Nat
    /\ formatRouterError(RateLimitExceededError(1)).code \in Free
    /\ formatRouterError(RateLimitExceededError(1)).retryAfter \in Nat
    /\ formatRouterError(Exception).code \in Open \ Free
    /\ formatRouterError(Exception).status = 500
    /\ formatRouterError(RouterError(429, "EMERGENCY_BRAKE_ACTIVE")).code =
           "EMERGENCY_BRAKE_ACTIVE"
<1>1. \A e : /\ formatRouterError(e).code = e.code
             /\ formatRouterError(e).status = e.statusCode
             /\ e.name = "QuotaExceededError" => formatRouterError(e).retryAfter = 60
             /\ e.name = "RateLimitExceededError"
                    => formatRouterError(e).retryAfter = e.retryAfterSeconds
  BY DEF formatRouterError, Answer, DEFAULT_RETRY_AFTER_SECONDS
<1>2. /\ AuthenticationError.code = "AUTHENTICATION_FAILED"
      /\ AuthenticationError.statusCode = 401
  BY DEF AuthenticationError, DomainError
<1>3. QuotaExceededError.code = "QUOTA_EXCEEDED"
      /\ QuotaExceededError.name = "QuotaExceededError"
  BY DEF QuotaExceededError, DomainError
<1>4. /\ RateLimitExceededError(1).code = "RATE_LIMIT_EXCEEDED"
      /\ RateLimitExceededError(1).name = "RateLimitExceededError"
      /\ RateLimitExceededError(1).retryAfterSeconds = 1
  <2>1. Given(1, 60) = 1
    BY ChatAssumption DEF Given
  <2>. QED  BY <2>1 DEF RateLimitExceededError, DomainError
<1>5. RouterError(429, "EMERGENCY_BRAKE_ACTIVE").code = "EMERGENCY_BRAKE_ACTIVE"
  BY DEF RouterError, DomainError
<1>6. Exception.code = "INTERNAL_ROUTING_ERROR" /\ Exception.statusCode = 500
  BY DEF Exception, DomainError
<1>. QED  BY <1>1, <1>2, <1>3, <1>4, <1>5, <1>6 DEF Free, Open

\* What a request is answered elsewhere, and what a route that fails makes of it.
LEMMA OthersPlain ==
    \A a \in OpenAnswers \cup OtherAnswers \cup RouteFailures : Plain(a)
<1>1. \A a \in OpenAnswers \cup OtherAnswers : Plain(a)
  BY FetchPlain, DispatchPlain DEF OpenAnswers, OtherAnswers
<1>2. /\ Plain(formatRouterError(UnknownModelAliasError))
      /\ Plain(formatRouterError(ModelNotFoundError))
      /\ Plain(formatRouterError(CapabilityMismatchError))
      /\ Plain(formatRouterError(ContextWindowExceededError))
      /\ Plain(formatRouterError(NoAvailableProviderError))
      /\ Plain(formatRouterError(FallbackExhaustedError))
      /\ Plain(formatRouterError(Exception))
      /\ Plain(formatRouterError(RouterError(502, "EMPTY_STREAM_BODY")))
  BY ErrorPlain, RouterErrorPlain
     DEF UnknownModelAliasError, ModelNotFoundError, CapabilityMismatchError,
         ContextWindowExceededError, NoAvailableProviderError, FallbackExhaustedError,
         Exception, Free
<1>3. \A a \in RouteFailures : Plain(a)
  BY <1>2, RouteAssumption DEF RouteFailures, RoutingErrors
<1>. QED  BY <1>1, <1>3

-----------------------------------------------------------------------------
(* The requests *)

\* The phases in which a request counts against its budget.
Flying == {"checked", "limited", "metered", "routing", "streaming", "answered", "ledgered", "spending"}

\* The values of the variables.
ChatShapes ==
    /\ DOMAIN tokens \subseteq Tokens
    /\ \A k \in DOMAIN tokens :
           tokens[k] \in [budget : Budgets, spent : Nat, expired : BOOLEAN]
    /\ quota \in [Tenants -> Nat]
    /\ pc \in [Requests -> Phases]
    /\ cred \in [Requests -> (Tokens \cup Guests) \cup {NoToken}]
    /\ cost \in [Requests -> Costs \cup {0}]
    /\ charged \cup unlogged \subseteq Requests /\ disturbed \subseteq Tokens
    /\ read \in [Requests -> Nat] /\ peak \in [Tokens -> Nat]
    /\ DOMAIN answer = Requests

\* What a request has been answered, where it stands.
Course(r) ==
    /\ pc[r] = "new" => cred[r] = NoToken
    /\ pc[r] \in {"checked", "limited"} => cred[r] \in Tokens
    /\ pc[r] \notin {"new", "refused"} => cred[r] \in Tokens \cup Guests
    /\ pc[r] \in {"new", "checked", "limited", "metered", "routing"} => answer[r] = Unanswered
    /\ pc[r] \in {"streaming", "answered", "ledgered", "spending", "done", "stopped"}
           => answer[r] = OK
    /\ pc[r] \in {"refused", "failed"} =>
           /\ answer[r] # Unanswered
           /\ answer[r].status = 429 /\ answer[r].retryAfter = Never
                  => answer[r].code = "EMERGENCY_BRAKE_ACTIVE"
    /\ r \in charged => pc[r] = "done"

\* Every request is on such a course.
Courses == \A r \in Requests : Course(r)

\* Whether a request is past the quota and not answered with one of these codes.
Counted(r, codes) ==
    /\ pc[r] \notin {"checked", "limited"}
    /\ answer[r] = Unanswered \/ answer[r].code \notin codes

\* The quota that is used is one unit for each request of the tenant that is,
\* where those that an exception ended may have used one or not.
QuotaExact ==
    \A t \in Tenants :
        /\ Cardinality(UsersOf(t, Open)) <= quota[t]
        /\ quota[t] <= Cardinality(UsersOf(t, Free))

\* What a recordSpend under way has read, besides what is written.
SpendKept ==
    \A k \in DOMAIN tokens :
        /\ tokens[k].spent <= SumOver(cost, ChargedTo(k))
        /\ k \notin disturbed => tokens[k].spent = SumOver(cost, ChargedTo(k))
        /\ \A r \in Requests :
               pc[r] = "spending" /\ cred[r] = k =>
                   /\ read[r] <= SumOver(cost, ChargedTo(k))
                   /\ k \notin disturbed => read[r] = tokens[k].spent
        /\ \A q, r \in Requests :
               pc[q] = "spending" /\ pc[r] = "spending" /\ cred[q] = k /\ cred[r] = k /\ q # r
                   => k \in disturbed

\* Room for each request in flight to cost as much as any: what was spent when
\* the last of them was let in was less than the budget.
BudgetKept ==
    \A k \in DOMAIN tokens :
        tokens[k].budget > 0 /\ k \notin disturbed =>
            tokens[k].spent + Max(Costs) * Cardinality(InFlight(k))
                < tokens[k].budget + Max(Costs) * peak[k]

\* The inductive invariant.
IndInv ==
    /\ LedgerInv /\ ChatShapes /\ Courses /\ LedgerExact /\ QuotaExact
    /\ SpendKept /\ BudgetKept

\* One cost is the largest.
LEMMA MaxCost ==
    Max(Costs) \in Nat /\ \A c \in Costs \cup {0} : c \in Nat /\ c <= Max(Costs)
<1>. DEFINE B == {T \in SUBSET Costs : T # {} /\ ~\E x \in T : \A y \in T : x >= y}
<1>1. \E x \in Costs : \A y \in Costs : x >= y
  <2>. SUFFICES ASSUME B # {} PROVE FALSE
    <3>1. Costs \in SUBSET Costs /\ Costs # {}
      BY ChatAssumption
    <3>. QED  BY <3>1
  <2>1. PICK T \in B : \A U \in B : U \subseteq T => U = T
    <3>. B \subseteq SUBSET Costs  OBVIOUS
    <3>. HIDE DEF B
    <3>. QED  BY ChatAssumption, Smallest
  <2>2. PICK x \in T : TRUE
    OBVIOUS
  <2>3. \A y \in T : y \in Nat
    BY LedgerAssumption
  <2>4. CASE T \ {x} = {}
    BY <2>2, <2>3, <2>4
  <2>5. CASE T \ {x} # {}
    <3>1. T \ {x} \notin B /\ T \ {x} \in SUBSET Costs
      BY <2>1, <2>2
    <3>2. PICK z \in T \ {x} : \A y \in T \ {x} : z >= y
      BY <2>5, <3>1
    <3>3. CASE z >= x
      BY <3>2, <3>3
    <3>4. CASE ~(z >= x)
      <4>1. \A y \in T : x >= y
        BY <2>2, <2>3, <3>2, <3>4
      <4>. QED  BY <2>2, <4>1
    <3>. QED  BY <3>3, <3>4
  <2>. QED  BY <2>4, <2>5
<1>2. Max(Costs) \in Costs /\ \A y \in Costs : Max(Costs) >= y
  BY <1>1 DEF Max
<1>3. Max(Costs) \in Nat /\ \A c \in Costs : c \in Nat /\ c <= Max(Costs)
  BY <1>2, LedgerAssumption
<1>. QED  BY <1>3

\* A product grows with its factor.
LEMMA Times ==
    ASSUME NEW m \in Nat, NEW a \in Nat, NEW b \in Nat, a <= b
    PROVE  m * a \in Nat /\ m * b \in Nat /\ m * a <= m * b
<1>1. PICK d \in Nat : b = a + d
  <2>1. b - a \in Nat /\ b = a + (b - a)
    OBVIOUS
  <2>. QED  BY <2>1
<1>2. m * a \in Nat /\ m * d \in Nat
  OBVIOUS
<1>3. m * (a + d) = m * a + m * d
  OBVIOUS
<1>. QED  BY <1>1, <1>2, <1>3

\* One more of a factor.
LEMMA TimesSuc ==
    ASSUME NEW m \in Nat, NEW a \in Nat
    PROVE  m * (a + 1) = m * a + m /\ m * a \in Nat
OBVIOUS

\* The requests of a token are finitely many.
LEMMA Finite ==
    \A S \in SUBSET Requests : IsFiniteSet(S) /\ Cardinality(S) \in Nat
BY ChatAssumption, FS_Subset, FS_CardinalityType

\* Sums over requests.
LEMMA CostSums ==
    ASSUME cost \in [Requests -> Costs \cup {0}], NEW S \in SUBSET Requests
    PROVE  /\ SumOver(cost, S) \in Nat /\ CostOf(S) = SumOver(cost, S)
           /\ \A r \in Requests \ S : SumOver(cost, S \cup {r}) = SumOver(cost, S) + cost[r]
<1>1. \A r \in Requests : cost[r] \in Nat
  BY CostsNat
<1>2. IsFiniteSet(S)
  BY Finite
<1>3. SumOver(cost, S) \in Nat
  BY <1>1, <1>2, SumType
<1>4. CostOf(S) = SumOver(cost, S)
  BY TotalIsSum DEF CostOf
<1>5. ASSUME NEW r \in Requests \ S
      PROVE  SumOver(cost, S \cup {r}) = SumOver(cost, S) + cost[r]
  BY <1>1, <1>2, SumAdd
<1>. QED  BY <1>3, <1>4, <1>5

\* UsersOf, in these terms.
LEMMA Users ==
    \A t, codes : UsersOf(t, codes) =
        {r \in Requests : cred[r] \in Tokens /\ Owner[cred[r]] = t /\ Counted(r, codes)}
BY DEF UsersOf, Counted

\* The same of the next state.
LEMMA UsersNext ==
    \A t, codes : UsersOf(t, codes)' =
        {r \in Requests : cred'[r] \in Tokens /\ Owner[cred'[r]] = t /\ Counted(r, codes)'}
BY DEF UsersOf, Counted

\* What is used stays between its bounds if the lower one does not grow and the
\* upper one does not shrink.
LEMMA Between ==
    ASSUME ChatShapes, QuotaExact, NEW t \in Tenants, quota'[t] = quota[t],
           UsersOf(t, Open)' \subseteq UsersOf(t, Open),
           UsersOf(t, Free) \subseteq UsersOf(t, Free)'
    PROVE  /\ Cardinality(UsersOf(t, Open)') <= quota'[t]
           /\ quota'[t] <= Cardinality(UsersOf(t, Free)')
<1>. DEFINE a == UsersOf(t, Open)'  b == UsersOf(t, Open)
            c == UsersOf(t, Free)  d == UsersOf(t, Free)'
<1>1. b \in SUBSET Requests /\ d \in SUBSET Requests
  BY Users, UsersNext
<1>2. Cardinality(b) <= quota[t] /\ quota[t] <= Cardinality(c) /\ quota[t] \in Nat
  BY DEF QuotaExact, ChatShapes
<1>3. a \subseteq b /\ c \subseteq d
  OBVIOUS
<1>. HIDE DEF a, b, c, d
<1>4. /\ Cardinality(a) <= Cardinality(b) /\ Cardinality(c) <= Cardinality(d)
      /\ {Cardinality(a), Cardinality(b), Cardinality(c), Cardinality(d)} \subseteq Nat
  <2>1. IsFiniteSet(b) /\ IsFiniteSet(d) /\ a \in SUBSET Requests /\ c \in SUBSET Requests
    BY <1>1, <1>3, Finite
  <2>. QED  BY <1>1, <1>3, <2>1, Finite, FS_Subset
<1>5. Cardinality(a) <= quota[t] /\ quota[t] <= Cardinality(d)
  BY <1>2, <1>4
<1>. QED  BY <1>5 DEF a, d

\* Who is counted does not depend on what a request does next, but that an
\* exception leaves it open.
LEMMA QuotaSame ==
    ASSUME ChatShapes, QuotaExact, UNCHANGED <<quota, cred>>,
           \A r \in Requests : cred[r] \in Tokens =>
               /\ Counted(r, Free) => Counted(r, Free)'
               /\ Counted(r, Open)' => Counted(r, Open)
    PROVE  QuotaExact'
<1>1. \A t : /\ UsersOf(t, Open)' \subseteq UsersOf(t, Open)
             /\ UsersOf(t, Free) \subseteq UsersOf(t, Free)'
  BY Users, UsersNext
<1>. QED  BY <1>1, Between DEF QuotaExact

\* The amounts of a token are natural numbers.
LEMMA Amounts ==
    ChatShapes => \A k \in DOMAIN tokens :
                      /\ tokens[k].spent \in Nat /\ tokens[k].budget \in Nat
                      /\ peak[k] \in Nat /\ Max(Costs) * peak[k] \in Nat
<1>. SUFFICES ASSUME ChatShapes, NEW k \in DOMAIN tokens
              PROVE  /\ tokens[k].spent \in Nat /\ tokens[k].budget \in Nat
                     /\ peak[k] \in Nat /\ Max(Costs) * peak[k] \in Nat
  OBVIOUS
<1>1. tokens[k] \in [budget : Budgets, spent : Nat, expired : BOOLEAN] /\ k \in Tokens
  BY DEF ChatShapes
<1>2. tokens[k].spent \in Nat /\ tokens[k].budget \in Nat
  BY <1>1, ChatAssumption
<1>3. peak[k] \in Nat
  BY <1>1 DEF ChatShapes
<1>. QED  BY <1>2, <1>3, MaxCost, Times

\* A step of one request that leaves the tables and the spend alone.
LEMMA Moved ==
    ASSUME IndInv, NEW r \in Requests, NEW at \in Phases,
           at \notin {"new", "checked", "ledgered", "spending", "done"},
           pc[r] \in {"new"} \cup Flying,
           pc[r] = "new" => at \in {"refused", "failed", "stopped"},
           pc[r] \in {"ledgered", "spending"} => at = "stopped",
           pc' = [pc EXCEPT ![r] = at],
           UNCHANGED <<ledgerVars, tokens, cred, read, history>>,
           cost' \in [Requests -> Costs \cup {0}],
           \A q \in Requests \ {r} : cost'[q] = cost[q],
           cost'[r] = cost[r] \/ pc[r] \in {"routing", "streaming"},
           DOMAIN answer' = Requests,
           \A q \in Requests \ {r} : answer'[q] = answer[q],
           Course(r)',
           quota' \in [Tenants -> Nat],
           QuotaExact'
    PROVE  IndInv'
<1>. USE DEF IndInv
<1>1. LedgerInv'
  BY DEF ledgerVars, LedgerInv, LedgerShapes, LedgerTypeOK, Backed, AuditsBacked
<1>2. /\ pc'[r] = at /\ pc' \in [Requests -> Phases]
      /\ \A q \in Requests : q # r => pc'[q] = pc[q]
  BY DEF ChatShapes
<1>3. ChatShapes'
  BY <1>2 DEF ChatShapes, history
<1>4. Courses'
  <2>1. ASSUME NEW q \in Requests, q # r PROVE Course(q)'
    BY <1>2, <2>1 DEF Courses, Course, history
  <2>. QED  BY <2>1 DEF Courses
<1>5. r \notin charged
  BY DEF Courses, Course, Flying
<1>6. LedgerExact'
  <2>1. ASSUME NEW q \in Requests
        PROVE  LET rows == {e \in ledger' : e.requestId = q} IN
               /\ \A e \in rows : e.tenantId = Owner[cred'[q]] /\ e.cost = cost'[q]
               /\ pc'[q] \in {"ledgered", "spending", "done"} /\ q \notin unlogged'
                      => rows # {}
               /\ pc'[q] \notin {"ledgered", "spending", "done", "stopped"} => rows = {}
    <3>1. ledger' = ledger /\ cred' = cred /\ unlogged' = unlogged
      BY DEF ledgerVars, history
    <3>2. CASE q # r
      BY <1>2, <3>1, <3>2 DEF LedgerExact
    <3>3. CASE q = r
      BY <1>2, <3>1, <3>3 DEF LedgerExact, Flying
    <3>. QED  BY <3>2, <3>3
  <2>. QED  BY <2>1 DEF LedgerExact
<1>7. \A k : ChargedTo(k)' = ChargedTo(k) /\ ChargedTo(k) \in SUBSET (Requests \ {r})
  BY <1>5 DEF ChargedTo, history, ChatShapes
<1>8. \A k : SumOver(cost', ChargedTo(k)) = SumOver(cost, ChargedTo(k))
  <2>. TAKE k
  <2>1. \A q \in ChargedTo(k) : cost'[q] = cost[q] /\ cost'[q] \in Nat
    BY <1>7, CostsNat
  <2>2. IsFiniteSet(ChargedTo(k))
    BY <1>7, Finite
  <2>. QED  BY <2>1, <2>2, SumSame
<1>9. \A q \in Requests : pc'[q] = "spending" => pc[q] = "spending"
  BY <1>2
<1>10. SpendKept'
  <2>. DEFINE c == [k \in DOMAIN tokens |-> SumOver(cost, ChargedTo(k))]
  <2>1. \A k \in DOMAIN tokens : SumOver(cost', ChargedTo(k)') = SumOver(cost, ChargedTo(k))
    BY <1>7, <1>8
  <2>2. tokens' = tokens /\ read' = read /\ cred' = cred /\ disturbed' = disturbed
    BY DEF history
  <2>. QED  BY <1>9, <2>1, <2>2 DEF SpendKept
<1>11. \A k : InFlight(k)' \subseteq InFlight(k) /\ InFlight(k) \in SUBSET Requests
  BY <1>2 DEF InFlight, Flying
<1>12. BudgetKept'
  <2>1. ASSUME NEW k \in DOMAIN tokens', tokens'[k].budget > 0 /\ k \notin disturbed'
        PROVE  tokens'[k].spent + Max(Costs) * Cardinality(InFlight(k)')
                   < tokens'[k].budget + Max(Costs) * peak'[k]
    <3>1. tokens' = tokens /\ disturbed' = disturbed /\ peak' = peak
      BY DEF history
    <3>2. tokens[k].spent + Max(Costs) * Cardinality(InFlight(k))
              < tokens[k].budget + Max(Costs) * peak[k]
      BY <2>1, <3>1 DEF BudgetKept
    <3>3. /\ Cardinality(InFlight(k)') <= Cardinality(InFlight(k))
          /\ Cardinality(InFlight(k)') \in Nat /\ Cardinality(InFlight(k)) \in Nat
      <4>1. IsFiniteSet(InFlight(k)) /\ InFlight(k)' \subseteq InFlight(k)
            /\ InFlight(k) \in SUBSET Requests
        BY <1>11, Finite
      <4>. QED  BY <4>1, FS_Subset, FS_CardinalityType
    <3>4. /\ Max(Costs) * Cardinality(InFlight(k)') <= Max(Costs) * Cardinality(InFlight(k))
          /\ Max(Costs) * Cardinality(InFlight(k)') \in Nat
          /\ Max(Costs) * Cardinality(InFlight(k)) \in Nat
      BY <3>3, MaxCost, Times
    <3>5. tokens[k].spent \in Nat /\ tokens[k].budget \in Nat
          /\ Max(Costs) * peak[k] \in Nat
      BY <2>1, <3>1, Amounts
    <3>. QED  BY <3>1, <3>2, <3>4, <3>5
  <2>. QED  BY <2>1 DEF BudgetKept
<1>. QED  BY <1>1, <1>3, <1>4, <1>6, <1>10, <1>12

\* A step that ends a request with a plain answer, or with the brake's.
LEMMA Ends ==
    ASSUME IndInv, NEW r \in Requests, NEW at \in {"refused", "failed"}, NEW a,
           at = "failed" => pc[r] = "routing",
           pc[r] \in {"new", "metered", "routing"}, Reply(r, at, a),
           a # Unanswered, a.code \notin Free,
           a.status = 429 => a.code = "EMERGENCY_BRAKE_ACTIVE",
           UNCHANGED <<ledgerVars, tokens, quota, cred, cost, read, history>>
    PROVE  IndInv'
<1>. USE DEF IndInv
<1>1. /\ pc' = [pc EXCEPT ![r] = at] /\ DOMAIN answer' = Requests /\ answer'[r] = a
      /\ \A q \in Requests \ {r} : answer'[q] = answer[q]
      /\ pc'[r] = at /\ \A q \in Requests \ {r} : pc'[q] = pc[q]
  BY DEF Reply, ChatShapes
<1>2. r \notin charged /\ charged' = charged
  BY DEF Courses, Course, history
<1>3. Course(r)'
  BY <1>1, <1>2 DEF Courses, Course
<1>4. QuotaExact'
  <2>1. \A q \in Requests : cred[q] \in Tokens =>
            (Counted(q, Free) => Counted(q, Free)') /\ (Counted(q, Open)' => Counted(q, Open))
    BY <1>1, ChatAssumption DEF Counted, Courses, Course
  <2>. QED  BY <2>1, QuotaSame
<1>5. cost' \in [Requests -> Costs \cup {0}] /\ quota' \in [Tenants -> Nat]
      /\ cost' = cost
  BY DEF ChatShapes
<1>6. at \in Phases
  BY DEF Phases
<1>. QED  BY <1>1, <1>3, <1>4, <1>5, <1>6, Moved DEF Flying

\* A request for a page that is open to everybody.
LEMMA AnswerAnyoneOK ==
    ASSUME IndInv, NEW r \in Requests, AnswerAnyone(r)
    PROVE  IndInv'
<1>1. PICK a \in OpenAnswers : Reply(r, "refused", a)
  BY DEF AnswerAnyone
<1>2. a # Unanswered /\ a.code \notin Free /\ a.status # 429
  BY OthersPlain, RouteAssumption DEF Plain
<1>. QED  BY <1>1, <1>2, Ends DEF AnswerAnyone

\* A request that another handler answers.
LEMMA DispatchElsewhereOK ==
    ASSUME IndInv, NEW r \in Requests, dispatchElsewhere(r)
    PROVE  IndInv'
<1>1. PICK a \in OtherAnswers : Reply(r, "refused", a)
  BY DEF dispatchElsewhere
<1>2. a # Unanswered /\ a.code \notin Free /\ a.status # 429
  BY OthersPlain, RouteAssumption DEF Plain
<1>. QED  BY <1>1, <1>2, Ends DEF dispatchElsewhere

\* A request that no provider could answer.
LEMMA RouteFailsOK ==
    ASSUME IndInv, NEW r \in Requests, RouteFails(r)
    PROVE  IndInv'
<1>1. PICK a \in RouteFailures : Reply(r, "failed", a)
  BY DEF RouteFails
<1>2. a # Unanswered /\ a.code \notin Free /\ a.status # 429
  BY OthersPlain, RouteAssumption DEF Plain
<1>. QED  BY <1>1, <1>2, Ends DEF RouteFails

\* A step that goes on, with the same answer or with 200.
LEMMA GoesOn ==
    ASSUME IndInv, NEW r \in Requests,
           NEW at \in {"routing", "streaming", "answered", "stopped"},
           pc[r] \in {"metered", "routing", "streaming", "answered", "ledgered", "spending"},
           at = "routing" => pc[r] = "metered",
           at # "routing" => pc[r] # "metered",
           pc[r] \in {"ledgered", "spending"} => at = "stopped",
           pc' = [pc EXCEPT ![r] = at],
           \/ answer' = answer /\ (pc[r] = "routing" => at = "routing")
           \/ pc[r] = "routing" /\ answer' = [answer EXCEPT ![r] = OK],
           cost' \in [Requests -> Costs \cup {0}],
           \A q \in Requests \ {r} : cost'[q] = cost[q],
           cost'[r] = cost[r] \/ pc[r] \in {"routing", "streaming"},
           UNCHANGED <<ledgerVars, tokens, quota, cred, read, history>>
    PROVE  IndInv'
<1>. USE DEF IndInv
<1>1. /\ DOMAIN answer' = Requests
      /\ \A q \in Requests \ {r} : answer'[q] = answer[q]
      /\ pc'[r] = at /\ \A q \in Requests \ {r} : pc'[q] = pc[q]
      /\ pc[r] # "routing" => answer'[r] = answer[r]
      /\ pc[r] = "routing" => answer'[r] = OK
  <2>1. pc \in [Requests -> Phases] /\ DOMAIN answer = Requests
    BY DEF ChatShapes
  <2>2. CASE pc[r] = "routing"
    <3>1. answer' = [answer EXCEPT ![r] = OK]
      BY <2>2
    <3>. QED  BY <2>1, <2>2, <3>1
  <2>3. CASE pc[r] # "routing"
    BY <2>1, <2>3
  <2>. QED  BY <2>2, <2>3
<1>2. r \notin charged /\ charged' = charged /\ cred' = cred
  BY DEF Courses, Course, history
<1>3. OK # Unanswered /\ OK.code \notin Free
  BY ByPlain, RouteAssumption DEF Plain
<1>4. Course(r)'
  <2>1. Course(r)
    BY DEF Courses
  <2>. QED  BY <1>1, <1>2, <1>3, <2>1 DEF Course
<1>5. QuotaExact'
  <2>1. \A q \in Requests : cred[q] \in Tokens =>
            (Counted(q, Free) => Counted(q, Free)') /\ (Counted(q, Open)' => Counted(q, Open))
    <3>1. Course(r)
      BY DEF Courses
    <3>. QED  BY <1>1, <1>3, <3>1 DEF Counted, Course
  <2>. QED  BY <2>1, QuotaSame
<1>6. quota' \in [Tenants -> Nat]
  BY DEF ChatShapes
<1>7. at \in Phases /\ pc[r] \in {"new"} \cup Flying /\ pc[r] # "new"
      /\ at \notin {"new", "checked", "ledgered", "spending", "done"}
  BY DEF Phases, Flying
<1>. QED  BY <1>1, <1>4, <1>5, <1>6, <1>7, Moved

\* The emergency brake refuses a request or lets it on.
LEMMA CheckBrakeOK ==
    ASSUME IndInv, NEW r \in Requests, CheckBrake(r)
    PROVE  IndInv'
<1>1. CASE Refuse(r, RouterError(429, "EMERGENCY_BRAKE_ACTIVE"))
  <2>. DEFINE a == formatRouterError(RouterError(429, "EMERGENCY_BRAKE_ACTIVE"))
  <2>1. a.code = "EMERGENCY_BRAKE_ACTIVE" /\ a.code \notin Free
    BY Refused DEF Free
  <2>2. a # Unanswered
    BY RouteAssumption DEF Refusals
  <2>3. Reply(r, "refused", a)
    BY <1>1 DEF Refuse
  <2>. HIDE DEF a
  <2>. QED  BY <2>1, <2>2, <2>3, Ends DEF CheckBrake
<1>2. CASE Goto(r, "routing")
  BY <1>2, GoesOn DEF CheckBrake, Goto, IndInv, ChatShapes
<1>. QED  BY <1>1, <1>2 DEF CheckBrake

\* A provider answers all at once.
LEMMA AnswerPlainOK ==
    ASSUME IndInv, NEW r \in Requests, NEW c \in Costs, AnswerPlain(r, c)
    PROVE  IndInv'
<1>1. cost' \in [Requests -> Costs \cup {0}]
      /\ \A q \in Requests \ {r} : cost'[q] = cost[q]
  BY DEF AnswerPlain, IndInv, ChatShapes
<1>. QED  BY <1>1, GoesOn DEF AnswerPlain, Reply

\* A provider begins to stream.
LEMMA AnswerStreamOK ==
    ASSUME IndInv, NEW r \in Requests, AnswerStream(r)
    PROVE  IndInv'
BY GoesOn DEF AnswerStream, Reply, IndInv, ChatShapes

\* A stream ends, with its cost.
LEMMA StreamFlushOK ==
    ASSUME IndInv, NEW r \in Requests, NEW c \in Costs, StreamFlush(r, c)
    PROVE  IndInv'
<1>1. cost' \in [Requests -> Costs \cup {0}]
      /\ \A q \in Requests \ {r} : cost'[q] = cost[q]
  BY DEF StreamFlush, IndInv, ChatShapes
<1>. QED  BY <1>1, GoesOn DEF StreamFlush, Goto

\* A client that leaves cancels its stream.
LEMMA StreamCancelOK ==
    ASSUME IndInv, NEW r \in Requests, StreamCancel(r)
    PROVE  IndInv'
BY GoesOn DEF StreamCancel, Goto, IndInv, ChatShapes

\* The worker is stopped before it has recorded the cost.
LEMMA StopOK ==
    ASSUME IndInv, NEW r \in Requests, Stop(r)
    PROVE  IndInv'
BY GoesOn DEF Stop, Goto, IndInv, ChatShapes

\* A request gets past the quota, and has used a unit.
LEMMA Metered ==
    ASSUME IndInv, NEW r \in Requests, pc[r] \in {"checked", "limited"},
           UseUnit(r), Goto(r, "metered"),
           UNCHANGED <<ledgerVars, tokens, cred, cost, read, history>>
    PROVE  IndInv'
<1>. USE DEF IndInv
<1>. DEFINE t == Owner[cred[r]]
<1>1. Course(r) /\ cred[r] \in Tokens /\ answer[r] = Unanswered /\ t \in Tenants
  BY ChatAssumption DEF Courses, Course
<1>2. /\ quota' = [quota EXCEPT ![t] = quota[t] + 1] /\ quota \in [Tenants -> Nat]
      /\ pc' = [pc EXCEPT ![r] = "metered"] /\ answer' = answer
      /\ pc'[r] = "metered" /\ \A q \in Requests \ {r} : pc'[q] = pc[q]
  BY DEF UseUnit, Goto, ChatShapes
<1>3. cost' \in [Requests -> Costs \cup {0}] /\ cost' = cost /\ r \notin charged
      /\ charged' = charged
  BY <1>1 DEF ChatShapes, Course, history
<1>4. quota' \in [Tenants -> Nat]
  BY <1>1, <1>2
<1>5. Course(r)'
  BY <1>1, <1>2, <1>3 DEF Course
<1>6. \A codes : /\ \A q \in Requests \ {r} : Counted(q, codes)' <=> Counted(q, codes)
                 /\ Counted(r, codes)' /\ ~Counted(r, codes)
  BY <1>1, <1>2 DEF Counted
<1>7. \A codes : /\ UsersOf(t, codes)' = UsersOf(t, codes) \cup {r}
                 /\ r \notin UsersOf(t, codes) /\ UsersOf(t, codes) \in SUBSET Requests
                 /\ \A u : u # t => UsersOf(u, codes)' = UsersOf(u, codes)
  BY <1>1, <1>6, Users, UsersNext
<1>8. QuotaExact'
  <2>1. ASSUME NEW u \in Tenants
        PROVE  /\ Cardinality(UsersOf(u, Open)') <= quota'[u]
               /\ quota'[u] <= Cardinality(UsersOf(u, Free)')
    <3>1. CASE u = t
      <4>1. /\ Cardinality(UsersOf(u, Open)) <= quota[u]
            /\ quota[u] <= Cardinality(UsersOf(u, Free))
        BY DEF QuotaExact
      <4>2. /\ Cardinality(UsersOf(u, Open)') = Cardinality(UsersOf(u, Open)) + 1
            /\ Cardinality(UsersOf(u, Free)') = Cardinality(UsersOf(u, Free)) + 1
            /\ Cardinality(UsersOf(u, Open)) \in Nat /\ Cardinality(UsersOf(u, Free)) \in Nat
        BY <1>7, <3>1, Finite, FS_AddElement
      <4>3. quota'[u] = quota[u] + 1 /\ quota[u] \in Nat
        BY <1>1, <1>2, <3>1
      <4>. QED  BY <4>1, <4>2, <4>3
    <3>2. CASE u # t
      <4>1. quota'[u] = quota[u]
        BY <1>2, <3>2
      <4>. QED  BY <1>7, <3>2, <4>1 DEF QuotaExact
    <3>. QED  BY <3>1, <3>2
  <2>. QED  BY <2>1 DEF QuotaExact
<1>9. "metered" \in Phases /\ DOMAIN answer' = Requests /\ pc[r] \in Flying
  BY <1>2 DEF Phases, ChatShapes, Flying
<1>. QED  BY <1>1, <1>2, <1>3, <1>4, <1>5, <1>8, <1>9, Moved

\* The quota refuses a request, which has used no unit.
LEMMA Denied ==
    ASSUME IndInv, NEW r \in Requests, pc[r] = "checked", NoRoom(r),
           UNCHANGED <<ledgerVars, tokens, cred, cost, read, history>>
    PROVE  IndInv'
<1>. USE DEF IndInv
<1>1. Course(r) /\ cred[r] \in Tokens /\ answer[r] = Unanswered
  BY DEF Courses, Course
<1>2. cost' \in [Requests -> Costs \cup {0}] /\ cost' = cost /\ r \notin charged
      /\ charged' = charged
  BY <1>1 DEF ChatShapes, Course, history
<1>3. PICK a \in {formatRouterError(RateLimitExceededError(1)),
                 formatRouterError(QuotaExceededError)} : Reply(r, "refused", a)
  BY DEF NoRoom, Refuse
<1>4. a.code \in Free /\ a.retryAfter # Never /\ a # Unanswered
  <2>1. a # Unanswered
    BY RouteAssumption DEF Refusals
  <2>. QED  BY <2>1, Refused, ChatAssumption
<1>5. /\ pc' = [pc EXCEPT ![r] = "refused"] /\ DOMAIN answer' = Requests
      /\ answer'[r] = a /\ \A q \in Requests \ {r} : answer'[q] = answer[q]
      /\ pc'[r] = "refused" /\ \A q \in Requests \ {r} : pc'[q] = pc[q]
  BY <1>3 DEF Reply, ChatShapes
<1>6. Course(r)'
  BY <1>1, <1>2, <1>4, <1>5 DEF Course
<1>7. quota' = quota /\ quota' \in [Tenants -> Nat]
  BY DEF NoRoom, ChatShapes
<1>8. QuotaExact'
  <2>1. \A q \in Requests :
            (Counted(q, Free) => Counted(q, Free)') /\ (Counted(q, Open)' => Counted(q, Open))
    <3>1. ~Counted(r, Free) /\ ~Counted(r, Open)'
      BY <1>4, <1>5, RouteAssumption DEF Counted, Open
    <3>. QED  BY <1>5, <3>1 DEF Counted
  <2>. QED  BY <1>7, <2>1, QuotaSame
<1>9. "refused" \in Phases /\ pc[r] \in Flying
  BY DEF Phases, Flying
<1>. QED  BY <1>1, <1>2, <1>5, <1>6, <1>7, <1>8, <1>9, Moved

\* The quota object's call fails: the request is refused, and may have used a
\* unit.
LEMMA QuotaFails ==
    ASSUME IndInv, NEW r \in Requests, pc[r] = "checked", Refuse(r, Exception),
           UseUnit(r) \/ UNCHANGED quota,
           UNCHANGED <<ledgerVars, tokens, cred, cost, read, history>>
    PROVE  IndInv'
<1>. USE DEF IndInv
<1>. DEFINE a == formatRouterError(Exception)
            t == Owner[cred[r]]
<1>1. Course(r) /\ cred[r] \in Tokens /\ answer[r] = Unanswered /\ t \in Tenants
  BY ChatAssumption DEF Courses, Course
<1>2. cost' \in [Requests -> Costs \cup {0}] /\ cost' = cost /\ r \notin charged
      /\ charged' = charged
  BY <1>1 DEF ChatShapes, Course, history
<1>3. Reply(r, "refused", a)
  BY DEF Refuse
<1>4. a.code \in Open /\ a.code \notin Free /\ a.status # 429 /\ a # Unanswered
  <2>1. a # Unanswered
    BY RouteAssumption DEF Refusals
  <2>. QED  BY <2>1, Refused
<1>. HIDE DEF a
<1>5. /\ pc' = [pc EXCEPT ![r] = "refused"] /\ DOMAIN answer' = Requests
      /\ answer'[r] = a /\ \A q \in Requests \ {r} : answer'[q] = answer[q]
      /\ pc'[r] = "refused" /\ \A q \in Requests \ {r} : pc'[q] = pc[q]
  BY <1>3 DEF Reply, ChatShapes
<1>6. Course(r)'
  BY <1>1, <1>2, <1>4, <1>5 DEF Course
<1>7. /\ quota \in [Tenants -> Nat] /\ quota' \in [Tenants -> Nat]
      /\ quota'[t] = quota[t] \/ quota'[t] = quota[t] + 1
      /\ \A u \in Tenants \ {t} : quota'[u] = quota[u]
  BY <1>1 DEF UseUnit, ChatShapes
<1>8. /\ \A q \in Requests \ {r} : \A codes : Counted(q, codes)' <=> Counted(q, codes)
      /\ Counted(r, Free)' /\ ~Counted(r, Free) /\ ~Counted(r, Open)' /\ ~Counted(r, Open)
  BY <1>4, <1>5 DEF Counted
<1>9. /\ \A u : UsersOf(u, Open)' = UsersOf(u, Open)
      /\ UsersOf(t, Free)' = UsersOf(t, Free) \cup {r}
      /\ r \notin UsersOf(t, Free) /\ UsersOf(t, Free) \in SUBSET Requests
      /\ \A u : u # t => UsersOf(u, Free)' = UsersOf(u, Free)
  BY <1>1, <1>8, Users, UsersNext
<1>10. QuotaExact'
  <2>1. ASSUME NEW u \in Tenants
        PROVE  /\ Cardinality(UsersOf(u, Open)') <= quota'[u]
               /\ quota'[u] <= Cardinality(UsersOf(u, Free)')
    <3>1. /\ Cardinality(UsersOf(u, Open)) <= quota[u]
          /\ quota[u] <= Cardinality(UsersOf(u, Free))
      BY DEF QuotaExact
    <3>2. CASE u = t
      <4>1. /\ Cardinality(UsersOf(u, Free)') = Cardinality(UsersOf(u, Free)) + 1
            /\ Cardinality(UsersOf(u, Free)) \in Nat
        BY <1>9, <3>2, Finite, FS_AddElement
      <4>2. Cardinality(UsersOf(u, Open)) \in Nat
        <5>1. UsersOf(u, Open) \in SUBSET Requests
          BY Users
        <5>. QED  BY <5>1, Finite
      <4>. QED  BY <1>1, <1>7, <1>9, <3>1, <3>2, <4>1, <4>2
    <3>3. CASE u # t
      BY <1>7, <1>9, <3>1, <3>3
    <3>. QED  BY <3>2, <3>3
  <2>. QED  BY <2>1 DEF QuotaExact
<1>11. "refused" \in Phases /\ pc[r] \in Flying
  BY DEF Phases, Flying
<1>. QED  BY <1>1, <1>2, <1>5, <1>6, <1>7, <1>10, <1>11, Moved

\* The quota object lets a request on, and counts it, or refuses it, or fails.
LEMMA ConsumeQuotaOK ==
    ASSUME IndInv, NEW r \in Requests, ConsumeQuota(r)
    PROVE  IndInv'
BY Metered, Denied, QuotaFails DEF ConsumeQuota

\* The limiter in memory lets a request on, but has not counted it, or refuses it.
LEMMA CheckLimitOK ==
    ASSUME IndInv, NEW r \in Requests, checkLimitDetailed(r)
    PROVE  IndInv'
<1>. USE DEF IndInv
<1>1. pc[r] = "checked" /\ UNCHANGED <<ledgerVars, tokens, cred, cost, read, history>>
  BY DEF checkLimitDetailed
<1>2. CASE NoRoom(r)
  BY <1>1, <1>2, Denied
<1>3. CASE Goto(r, "limited") /\ UNCHANGED quota
  <2>1. Course(r) /\ cred[r] \in Tokens /\ answer[r] = Unanswered
    BY <1>1 DEF Courses, Course
  <2>2. cost' \in [Requests -> Costs \cup {0}] /\ cost' = cost /\ r \notin charged
        /\ charged' = charged /\ quota' = quota /\ quota' \in [Tenants -> Nat]
    BY <1>1, <1>3, <2>1 DEF ChatShapes, Course, history
  <2>3. /\ pc' = [pc EXCEPT ![r] = "limited"] /\ answer' = answer
        /\ pc'[r] = "limited" /\ \A q \in Requests \ {r} : pc'[q] = pc[q]
        /\ DOMAIN answer' = Requests
    BY <1>3 DEF Goto, ChatShapes
  <2>4. Course(r)'
    BY <1>1, <2>1, <2>2, <2>3 DEF Course
  <2>5. QuotaExact'
    <3>1. \A q \in Requests :
              (Counted(q, Free) => Counted(q, Free)') /\ (Counted(q, Open)' => Counted(q, Open))
      BY <1>1, <2>3 DEF Counted
    <3>. QED  BY <1>1, <2>2, <3>1, QuotaSame
  <2>6. "limited" \in Phases /\ pc[r] \in Flying
    BY <1>1 DEF Phases, Flying
  <2>. QED  BY <1>1, <2>2, <2>3, <2>4, <2>5, <2>6, Moved
<1>. QED  BY <1>2, <1>3 DEF checkLimitDetailed

\* The limiter counts it.
LEMMA IncrementOK ==
    ASSUME IndInv, NEW r \in Requests, increment(r)
    PROVE  IndInv'
BY Metered DEF increment

\* A step that leaves the ledger's tables alone keeps what holds of them.
LEMMA LedgerSame ==
    LedgerInv /\ UNCHANGED ledgerVars => LedgerInv'
BY DEF ledgerVars, LedgerInv, LedgerShapes, LedgerTypeOK, Backed, AuditsBacked

\* A step of a request in flight that neither begins nor ends a recordSpend.
LEMMA SpendSame ==
    ASSUME IndInv, NEW r \in Requests, NEW at \in Phases \ {"new", "spending"},
           pc[r] \in Flying, pc' = [pc EXCEPT ![r] = at],
           UNCHANGED <<tokens, cred, cost, read, charged, disturbed, peak>>
    PROVE  SpendKept' /\ BudgetKept'
<1>. USE DEF IndInv
<1>1. pc'[r] = at /\ \A q \in Requests : q # r => pc'[q] = pc[q]
  BY DEF ChatShapes
<1>2. \A k : ChargedTo(k)' = ChargedTo(k)
  BY DEF ChargedTo
<1>3. \A q \in Requests : pc'[q] = "spending" => pc[q] = "spending"
  BY <1>1
<1>4. SpendKept'
  BY <1>2, <1>3 DEF SpendKept
<1>5. \A k : InFlight(k)' \subseteq InFlight(k) /\ InFlight(k) \in SUBSET Requests
  BY <1>1 DEF InFlight, Flying
<1>6. BudgetKept'
  <2>1. ASSUME NEW k \in DOMAIN tokens, tokens[k].budget > 0 /\ k \notin disturbed
        PROVE  tokens[k].spent + Max(Costs) * Cardinality(InFlight(k)')
                   < tokens[k].budget + Max(Costs) * peak[k]
    <3>1. tokens[k].spent + Max(Costs) * Cardinality(InFlight(k))
              < tokens[k].budget + Max(Costs) * peak[k]
      BY <2>1 DEF BudgetKept
    <3>2. /\ Cardinality(InFlight(k)') <= Cardinality(InFlight(k))
          /\ Cardinality(InFlight(k)') \in Nat /\ Cardinality(InFlight(k)) \in Nat
      <4>1. IsFiniteSet(InFlight(k)) /\ InFlight(k)' \subseteq InFlight(k)
            /\ InFlight(k) \in SUBSET Requests
        BY <1>5, Finite
      <4>. QED  BY <4>1, FS_Subset, FS_CardinalityType
    <3>3. /\ Max(Costs) * Cardinality(InFlight(k)') <= Max(Costs) * Cardinality(InFlight(k))
          /\ Max(Costs) * Cardinality(InFlight(k)') \in Nat
          /\ Max(Costs) * Cardinality(InFlight(k)) \in Nat
      BY <3>2, MaxCost, Times
    <3>. QED  BY <3>1, <3>3, Amounts
  <2>. QED  BY <2>1 DEF BudgetKept
<1>. QED  BY <1>4, <1>6

\* The event of a request joins the ledger when it has none there, or is noted
\* as lost.
LEMMA RecordLedgerOK ==
    ASSUME IndInv, NEW r \in Requests, RecordLedger(r)
    PROVE  IndInv'
<1>. USE DEF IndInv
<1>1. /\ pc[r] = "answered" /\ pc' = [pc EXCEPT ![r] = "ledgered"] /\ answer' = answer
      /\ UNCHANGED <<tokens, quota, cred, cost, read, charged, disturbed, peak>>
  BY DEF RecordLedger, Goto
<1>2. Course(r) /\ cred[r] \in Tokens \cup Guests /\ answer[r] = OK /\ r \notin charged
  BY <1>1 DEF Courses, Course
<1>3. Owner[cred[r]] \in Tenants /\ cost[r] \in Costs \cup {0}
  BY <1>2, ChatAssumption DEF ChatShapes
<1>4. /\ pc'[r] = "ledgered" /\ pc' \in [Requests -> Phases]
      /\ \A q \in Requests : q # r => pc'[q] = pc[q]
  BY <1>1 DEF ChatShapes, Phases
<1>5. SpendKept' /\ BudgetKept'
  <2>1. "ledgered" \in Phases \ {"new", "spending"} /\ pc[r] \in Flying
    BY <1>1 DEF Phases, Flying
  <2>. QED  BY <1>1, <2>1, SpendSame
<1>6. Courses'
  BY <1>1, <1>2, <1>4 DEF Courses, Course
<1>7. QuotaExact'
  <2>1. \A q \in Requests :
            (Counted(q, Free) => Counted(q, Free)') /\ (Counted(q, Open)' => Counted(q, Open))
    BY <1>1, <1>4 DEF Counted
  <2>. QED  BY <1>1, <2>1, QuotaSame
<1>8. ~Recorded(r)
  BY <1>1 DEF LedgerExact, Recorded
<1>. DEFINE e == Event(r, Owner[cred[r]], cost[r])
<1>9. CASE recordEvent(e) /\ unlogged' = unlogged
  <2>1. LedgerInv'
    BY <1>3, <1>8, <1>9, RecordEventOK
  <2>2. e.requestId = r /\ e.tenantId = Owner[cred[r]] /\ e.cost = cost[r]
    BY DEF Event
  <2>. HIDE DEF e
  <2>3. ledger' = ledger \cup {e}
    BY <1>9 DEF recordEvent, Insert
  <2>4. LedgerExact'
    <3>1. ASSUME NEW q \in Requests
          PROVE  LET rows == {x \in ledger' : x.requestId = q} IN
                 /\ \A x \in rows : x.tenantId = Owner[cred'[q]] /\ x.cost = cost'[q]
                 /\ pc'[q] \in {"ledgered", "spending", "done"} /\ q \notin unlogged'
                        => rows # {}
                 /\ pc'[q] \notin {"ledgered", "spending", "done", "stopped"} => rows = {}
      <4>1. CASE q = r
        BY <1>1, <1>4, <1>8, <2>2, <2>3, <4>1 DEF Recorded
      <4>2. CASE q # r
        <5>1. {x \in ledger' : x.requestId = q} = {x \in ledger : x.requestId = q}
          BY <2>2, <2>3, <4>2
        <5>. QED  BY <1>1, <1>4, <1>9, <4>2, <5>1 DEF LedgerExact
      <4>. QED  BY <4>1, <4>2
    <3>. QED  BY <3>1 DEF LedgerExact
  <2>5. ChatShapes'
    BY <1>1, <1>4, <1>9 DEF ChatShapes
  <2>. QED  BY <1>5, <1>6, <1>7, <2>1, <2>4, <2>5
<1>10. CASE unlogged' = unlogged \cup {r} /\ UNCHANGED ledgerVars
  <2>1. LedgerInv' /\ ledger' = ledger
    BY <1>10, LedgerSame DEF ledgerVars
  <2>2. LedgerExact'
    <3>1. ASSUME NEW q \in Requests
          PROVE  LET rows == {x \in ledger' : x.requestId = q} IN
                 /\ \A x \in rows : x.tenantId = Owner[cred'[q]] /\ x.cost = cost'[q]
                 /\ pc'[q] \in {"ledgered", "spending", "done"} /\ q \notin unlogged'
                        => rows # {}
                 /\ pc'[q] \notin {"ledgered", "spending", "done", "stopped"} => rows = {}
      <4>1. CASE q = r
        BY <1>1, <1>4, <1>10, <2>1, <4>1 DEF LedgerExact
      <4>2. CASE q # r
        BY <1>1, <1>4, <1>10, <2>1, <4>2 DEF LedgerExact
      <4>. QED  BY <4>1, <4>2
    <3>. QED  BY <3>1 DEF LedgerExact
  <2>3. ChatShapes'
    BY <1>1, <1>4, <1>10 DEF ChatShapes
  <2>. QED  BY <1>5, <1>6, <1>7, <2>1, <2>2, <2>3
<1>. QED  BY <1>9, <1>10 DEF RecordLedger

\* Where the ledger stands still and a request goes from ledgered on.
LEMMA Booked ==
    ASSUME IndInv, NEW r \in Requests, NEW at \in {"spending", "done"},
           pc[r] \in {"ledgered", "spending"}, pc' = [pc EXCEPT ![r] = at],
           UNCHANGED <<ledgerVars, quota, cred, cost, answer, unlogged>>
    PROVE  /\ LedgerInv' /\ LedgerExact' /\ QuotaExact'
           /\ pc'[r] = at /\ pc' \in [Requests -> Phases]
           /\ \A q \in Requests : q # r => pc'[q] = pc[q]
           /\ charged' = charged \/ (at = "done" /\ charged' = charged \cup {r})
                  => Courses'
<1>. USE DEF IndInv
<1>1. /\ pc'[r] = at /\ pc' \in [Requests -> Phases]
      /\ \A q \in Requests : q # r => pc'[q] = pc[q]
  BY DEF ChatShapes, Phases
<1>2. LedgerInv' /\ ledger' = ledger
  BY LedgerSame DEF ledgerVars
<1>3. LedgerExact'
  <2>1. ASSUME NEW q \in Requests
        PROVE  LET rows == {x \in ledger' : x.requestId = q} IN
               /\ \A x \in rows : x.tenantId = Owner[cred'[q]] /\ x.cost = cost'[q]
               /\ pc'[q] \in {"ledgered", "spending", "done"} /\ q \notin unlogged'
                      => rows # {}
               /\ pc'[q] \notin {"ledgered", "spending", "done", "stopped"} => rows = {}
    <3>1. CASE q = r
      BY <1>1, <1>2, <3>1 DEF LedgerExact
    <3>2. CASE q # r
      BY <1>1, <1>2, <3>2 DEF LedgerExact
    <3>. QED  BY <3>1, <3>2
  <2>. QED  BY <2>1 DEF LedgerExact
<1>4. QuotaExact'
  <2>1. \A q \in Requests :
            (Counted(q, Free) => Counted(q, Free)') /\ (Counted(q, Open)' => Counted(q, Open))
    BY <1>1 DEF Counted
  <2>. QED  BY <2>1, QuotaSame
<1>5. ASSUME charged' = charged \/ (at = "done" /\ charged' = charged \cup {r})
      PROVE  Courses'
  <2>1. ASSUME NEW q \in Requests PROVE Course(q)'
    <3>1. Course(q)
      BY DEF Courses
    <3>2. CASE q = r
      BY <1>1, <1>5, <3>1, <3>2 DEF Course
    <3>3. CASE q # r
      BY <1>1, <1>5, <3>1, <3>3 DEF Course
    <3>. QED  BY <3>2, <3>3
  <2>. QED  BY <2>1 DEF Courses
<1>. QED  BY <1>1, <1>2, <1>3, <1>4, <1>5

\* The first statement of recordSpend: what the token has spent is read, and a
\* recordSpend of it that is under way is noted.
LEMMA SpendReadOK ==
    ASSUME IndInv, NEW r \in Requests, SpendRead(r)
    PROVE  IndInv'
<1>. USE DEF IndInv
<1>. DEFINE k == cred[r]
<1>1. pc[r] = "ledgered" /\ UNCHANGED <<ledgerVars, tokens, quota, cred, cost, charged,
                                         unlogged, peak>>
  BY DEF SpendRead
<1>2. CASE ~(cost[r] > 0 /\ HasRow(k))
  <2>1. /\ pc' = [pc EXCEPT ![r] = "done"] /\ answer' = answer
        /\ read' = read /\ disturbed' = disturbed
    BY <1>2 DEF SpendRead, Goto
  <2>2. /\ LedgerInv' /\ LedgerExact' /\ QuotaExact' /\ Courses'
        /\ pc' \in [Requests -> Phases]
    BY <1>1, <2>1, Booked
  <2>3. "done" \in Phases \ {"new", "spending"} /\ pc[r] \in Flying
    BY <1>1 DEF Phases, Flying
  <2>4. SpendKept' /\ BudgetKept'
    BY <1>1, <2>1, <2>3, SpendSame
  <2>5. ChatShapes'
    BY <1>1, <2>1, <2>2 DEF ChatShapes
  <2>. QED  BY <2>2, <2>4, <2>5
<1>3. CASE cost[r] > 0 /\ HasRow(k)
  <2>1. /\ pc' = [pc EXCEPT ![r] = "spending"] /\ answer' = answer
        /\ read' = [read EXCEPT ![r] = tokens[k].spent]
        /\ disturbed' = IF \E q \in Requests : cred[q] = k /\ pc[q] = "spending"
                        THEN disturbed \cup {k} ELSE disturbed
    BY <1>3 DEF SpendRead, Goto
  <2>2. /\ LedgerInv' /\ LedgerExact' /\ QuotaExact' /\ Courses'
        /\ pc' \in [Requests -> Phases]
        /\ pc'[r] = "spending" /\ \A q \in Requests : q # r => pc'[q] = pc[q]
    <3>1. /\ UNCHANGED <<ledgerVars, quota, cred, cost, answer, unlogged>>
          /\ pc[r] \in {"ledgered", "spending"} /\ charged' = charged
      BY <1>1, <2>1
    <3>2. pc' = [pc EXCEPT ![r] = "spending"]
      BY <2>1
    <3>3. LedgerInv' /\ LedgerExact' /\ QuotaExact' /\ Courses'
      BY <3>1, <3>2, Booked
    <3>4. pc \in [Requests -> Phases] /\ "spending" \in Phases
      BY DEF ChatShapes, Phases
    <3>. QED  BY <3>2, <3>3, <3>4
  <2>3. k \in DOMAIN tokens /\ k \in Tokens
    BY <1>3 DEF HasRow, ChatShapes
  <2>4. /\ read'[r] = tokens[k].spent /\ read' \in [Requests -> Nat]
        /\ \A q \in Requests : q # r => read'[q] = read[q]
    BY <2>1, <2>3, Amounts DEF ChatShapes
  <2>5. disturbed \subseteq disturbed' /\ disturbed' \subseteq Tokens
    BY <2>1, <2>3 DEF ChatShapes
  <2>6. ChatShapes'
    BY <1>1, <2>1, <2>2, <2>4, <2>5 DEF ChatShapes
  <2>7. \A j : ChargedTo(j)' = ChargedTo(j) /\ InFlight(j)' = InFlight(j)
    BY <1>1, <2>2 DEF ChargedTo, InFlight
  <2>8. SpendKept'
    <3>1. ASSUME NEW j \in DOMAIN tokens
          PROVE  /\ tokens[j].spent <= SumOver(cost, ChargedTo(j))
                 /\ j \notin disturbed' => tokens[j].spent = SumOver(cost, ChargedTo(j))
      BY <2>5 DEF SpendKept
    <3>2. ASSUME NEW j \in DOMAIN tokens, NEW q \in Requests, pc'[q] = "spending", cred[q] = j
          PROVE  /\ read'[q] <= SumOver(cost, ChargedTo(j))
                 /\ j \notin disturbed' => read'[q] = tokens[j].spent
      <4>1. CASE q = r
        BY <2>4, <3>1, <3>2, <4>1
      <4>2. CASE q # r
        BY <2>2, <2>4, <2>5, <3>2, <4>2 DEF SpendKept
      <4>. QED  BY <4>1, <4>2
    <3>3. ASSUME NEW j \in DOMAIN tokens, NEW p \in Requests, NEW q \in Requests, p # q,
                 pc'[p] = "spending", pc'[q] = "spending", cred[p] = j, cred[q] = j
          PROVE  j \in disturbed'
      <4>1. CASE p = r
        BY <2>1, <2>2, <3>3, <4>1
      <4>2. CASE q = r
        BY <2>1, <2>2, <3>3, <4>2
      <4>3. CASE p # r /\ q # r
        BY <2>2, <2>5, <3>3, <4>3 DEF SpendKept
      <4>. QED  BY <4>1, <4>2, <4>3
    <3>. QED  BY <1>1, <2>7, <3>1, <3>2, <3>3 DEF SpendKept
  <2>9. BudgetKept'
    BY <1>1, <2>5, <2>7 DEF BudgetKept
  <2>. QED  BY <2>2, <2>6, <2>8, <2>9
<1>. QED  BY <1>2, <1>3

\* The second statement: the cost is added to what was read, and the request is
\* charged; it is no longer in flight, which makes room for what it cost.
LEMMA SpendWriteOK ==
    ASSUME IndInv, NEW r \in Requests, SpendWrite(r)
    PROVE  IndInv'
<1>. USE DEF IndInv
<1>. DEFINE k == cred[r]
<1>1. /\ pc[r] = "spending" /\ pc' = [pc EXCEPT ![r] = "done"] /\ answer' = answer
      /\ charged' = charged \cup {r}
      /\ tokens' = IF HasRow(k) THEN [tokens EXCEPT ![k].spent = read[r] + cost[r]]
                   ELSE tokens
      /\ UNCHANGED <<ledgerVars, quota, cred, cost, read, disturbed, unlogged, peak>>
  BY DEF SpendWrite, Goto
<1>2. /\ LedgerInv' /\ LedgerExact' /\ QuotaExact' /\ Courses'
      /\ pc' \in [Requests -> Phases]
      /\ pc'[r] = "done" /\ \A q \in Requests : q # r => pc'[q] = pc[q]
  BY <1>1, Booked
<1>3. /\ DOMAIN tokens' = DOMAIN tokens
      /\ \A j \in DOMAIN tokens : j # k => tokens'[j] = tokens[j]
      /\ k \in DOMAIN tokens =>
             /\ tokens'[k] = [budget |-> tokens[k].budget, spent |-> read[r] + cost[r],
                              expired |-> tokens[k].expired]
             /\ tokens[k] \in [budget : Budgets, spent : Nat, expired : BOOLEAN]
  BY <1>1 DEF HasRow, ChatShapes
<1>4. cost[r] \in Nat /\ cost[r] <= Max(Costs) /\ read[r] \in Nat
  BY MaxCost DEF ChatShapes
<1>5. k \in DOMAIN tokens => /\ tokens'[k].spent = read[r] + cost[r]
                              /\ tokens'[k].budget = tokens[k].budget
  BY <1>3
<1>6. ChatShapes'
  <2>1. ASSUME NEW j \in DOMAIN tokens
        PROVE  tokens'[j] \in [budget : Budgets, spent : Nat, expired : BOOLEAN]
    BY <1>3, <1>4 DEF ChatShapes
  <2>. QED  BY <1>1, <1>2, <1>3, <2>1 DEF ChatShapes
<1>7. r \notin charged
  BY <1>1 DEF Courses, Course
<1>8. /\ \A j : j # k => ChargedTo(j)' = ChargedTo(j)
      /\ ChargedTo(k)' = ChargedTo(k) \cup {r} /\ r \notin ChargedTo(k)
      /\ \A j : ChargedTo(j) \in SUBSET Requests
  BY <1>1, <1>7 DEF ChargedTo, ChatShapes
<1>9. /\ SumOver(cost, ChargedTo(k)') = SumOver(cost, ChargedTo(k)) + cost[r]
      /\ SumOver(cost, ChargedTo(k)) \in Nat
  BY <1>8, CostSums DEF ChatShapes
<1>10. SpendKept'
  <2>1. ASSUME NEW j \in DOMAIN tokens, j # k
        PROVE  /\ tokens'[j].spent <= SumOver(cost, ChargedTo(j)')
               /\ j \notin disturbed => tokens'[j].spent = SumOver(cost, ChargedTo(j)')
               /\ \A q \in Requests :
                      pc'[q] = "spending" /\ cred[q] = j =>
                          /\ read[q] <= SumOver(cost, ChargedTo(j)')
                          /\ j \notin disturbed => read[q] = tokens'[j].spent
    BY <1>2, <1>3, <1>8, <2>1 DEF SpendKept
  <2>2. ASSUME k \in DOMAIN tokens
        PROVE  /\ tokens'[k].spent <= SumOver(cost, ChargedTo(k)')
               /\ k \notin disturbed => tokens'[k].spent = SumOver(cost, ChargedTo(k)')
    <3>1. /\ read[r] <= SumOver(cost, ChargedTo(k))
          /\ k \notin disturbed => read[r] = tokens[k].spent
                                   /\ tokens[k].spent = SumOver(cost, ChargedTo(k))
      BY <1>1, <2>2 DEF SpendKept
    <3>. QED  BY <1>4, <1>5, <1>9, <2>2, <3>1
  <2>3. ASSUME k \in DOMAIN tokens, NEW q \in Requests, pc'[q] = "spending", cred[q] = k
        PROVE  read[q] <= SumOver(cost, ChargedTo(k)') /\ k \in disturbed
    <3>1. q # r /\ pc[q] = "spending"
      BY <1>2, <2>3
    <3>2. k \in disturbed /\ read[q] <= SumOver(cost, ChargedTo(k))
      BY <1>1, <2>3, <3>1 DEF SpendKept
    <3>3. read[q] \in Nat
      BY DEF ChatShapes
    <3>. QED  BY <1>4, <1>9, <3>2, <3>3
  <2>4. \A p, q \in Requests :
            pc'[p] = "spending" /\ pc'[q] = "spending" =>
                pc[p] = "spending" /\ pc[q] = "spending"
    BY <1>2
  <2>. QED  BY <1>1, <1>3, <2>1, <2>2, <2>3, <2>4 DEF SpendKept
<1>11. /\ \A j : j # k => InFlight(j)' = InFlight(j)
       /\ InFlight(k)' = InFlight(k) \ {r} /\ r \in InFlight(k)
       /\ \A j : InFlight(j) \in SUBSET Requests
  BY <1>1, <1>2 DEF InFlight
<1>12. BudgetKept'
  <2>1. ASSUME NEW j \in DOMAIN tokens, j # k, tokens'[j].budget > 0 /\ j \notin disturbed
        PROVE  tokens'[j].spent + Max(Costs) * Cardinality(InFlight(j)')
                   < tokens'[j].budget + Max(Costs) * peak[j]
    BY <1>3, <1>11, <2>1 DEF BudgetKept
  <2>2. ASSUME k \in DOMAIN tokens, tokens'[k].budget > 0 /\ k \notin disturbed
        PROVE  tokens'[k].spent + Max(Costs) * Cardinality(InFlight(k)')
                   < tokens'[k].budget + Max(Costs) * peak[k]
    <3>. DEFINE n == Cardinality(InFlight(k)')
                m == Max(Costs)
    <3>1. Cardinality(InFlight(k)) = n + 1 /\ n \in Nat
      <4>1. IsFiniteSet(InFlight(k)')
        BY <1>11, Finite
      <4>2. Cardinality(InFlight(k)' \cup {r}) = n + 1
        BY <1>11, <4>1, FS_AddElement
      <4>3. InFlight(k)' \cup {r} = InFlight(k)
        BY <1>11
      <4>. QED  BY <4>1, <4>2, <4>3, FS_CardinalityType
    <3>2. tokens[k].spent + m * (n + 1) < tokens[k].budget + m * peak[k]
      BY <1>5, <2>2, <3>1 DEF BudgetKept
    <3>3. m \in Nat /\ m * (n + 1) = m * n + m /\ m * n \in Nat
      <4>1. m \in Nat
        BY MaxCost
      <4>. HIDE DEF m, n
      <4>. QED  BY <3>1, <4>1, TimesSuc
    <3>4. tokens[k].spent \in Nat /\ tokens[k].budget \in Nat /\ m * peak[k] \in Nat
      BY <2>2, Amounts
    <3>5. tokens'[k].spent = tokens[k].spent + cost[r]
      BY <1>1, <1>5, <2>2 DEF SpendKept
    <3>6. tokens'[k].budget = tokens[k].budget /\ cost[r] <= m
      BY <1>4, <1>5, <2>2
    <3>. HIDE DEF m, n
    <3>7. tokens'[k].spent + m * n < tokens'[k].budget + m * peak[k]
      BY <1>4, <3>2, <3>3, <3>4, <3>5, <3>6
    <3>. QED  BY <3>7 DEF m, n
  <2>. QED  BY <1>1, <1>3, <2>1, <2>2 DEF BudgetKept
<1>. QED  BY <1>2, <1>6, <1>10, <1>12

\* A request comes with a credential: it is refused, or is one more in flight.
LEMMA Arrives ==
    ASSUME IndInv, NEW r \in Requests, NEW k \in Tokens \cup Guests, NEW a, pc[r] = "new",
           cred' = [cred EXCEPT ![r] = k],
           UNCHANGED <<ledgerVars, tokens, quota, cost, read, charged, disturbed, unlogged>>,
           \/ /\ Reply(r, "refused", a) /\ a # Unanswered /\ a.code \in Open
              /\ a.status # 429 \/ a.retryAfter # Never
              /\ peak' = peak
           \/ /\ Goto(r, IF k \in Tokens THEN "checked" ELSE "metered") /\ Admits(k)
              /\ peak' = IF k \in Tokens
                         THEN [peak EXCEPT ![k] = AtMost(peak[k], 1 + Cardinality(InFlight(k)))]
                         ELSE peak
    PROVE  IndInv'
<1>. USE DEF IndInv
<1>1. /\ pc[r] = "new" /\ cred' = [cred EXCEPT ![r] = k]
      /\ UNCHANGED <<ledgerVars, tokens, quota, cost, read, charged, disturbed, unlogged>>
  OBVIOUS
<1>2. cred[r] = NoToken /\ answer[r] = Unanswered /\ r \notin charged
  BY <1>1 DEF Courses, Course
<1>3. cred'[r] = k /\ \A q \in Requests : q # r => cred'[q] = cred[q]
  BY <1>1 DEF ChatShapes
<1>4. /\ pc' \in [Requests -> Phases] /\ DOMAIN answer' = Requests
      /\ \A q \in Requests : q # r => pc'[q] = pc[q] /\ answer'[q] = answer[q]
      /\ \/ /\ pc'[r] = "refused" /\ answer'[r].code \in Open
            /\ answer'[r] # Unanswered /\ peak' = peak
            /\ answer'[r].status # 429 \/ answer'[r].retryAfter # Never
         \/ /\ pc'[r] \in {"checked", "metered"} /\ Admits(k) /\ answer' = answer
            /\ pc'[r] = "checked" <=> k \in Tokens
            /\ peak' = IF k \in Tokens
                       THEN [peak EXCEPT ![k] = AtMost(peak[k], 1 + Cardinality(InFlight(k)))]
                       ELSE peak
  <2>1. CASE /\ Reply(r, "refused", a) /\ a # Unanswered /\ a.code \in Open
             /\ a.status # 429 \/ a.retryAfter # Never
             /\ peak' = peak
    BY <2>1 DEF Reply, ChatShapes, Phases
  <2>2. CASE /\ Goto(r, IF k \in Tokens THEN "checked" ELSE "metered") /\ Admits(k)
             /\ peak' = IF k \in Tokens
                        THEN [peak EXCEPT ![k] = AtMost(peak[k], 1 + Cardinality(InFlight(k)))]
                        ELSE peak
    BY <2>2 DEF Goto, ChatShapes, Phases
  <2>. QED  BY <2>1, <2>2
<1>5. LedgerInv' /\ ledger' = ledger
  BY <1>1, LedgerSame DEF ledgerVars
<1>6. /\ peak' \in [Tokens -> Nat]
      /\ \A j \in Tokens : j # k => peak'[j] = peak[j]
      /\ pc'[r] # "checked" => peak' = peak
      /\ pc'[r] = "checked" => peak'[k] >= 1 + Cardinality(InFlight(k))
  <2>1. Cardinality(InFlight(k)) \in Nat
    BY Finite DEF InFlight
  <2>2. peak' = IF pc'[r] = "checked"
                THEN [peak EXCEPT ![k] = AtMost(peak[k], 1 + Cardinality(InFlight(k)))]
                ELSE peak
    BY <1>4
  <2>3. k \in Tokens => /\ AtMost(peak[k], 1 + Cardinality(InFlight(k))) \in Nat
                         /\ AtMost(peak[k], 1 + Cardinality(InFlight(k)))
                                >= 1 + Cardinality(InFlight(k))
    BY <2>1 DEF AtMost, ChatShapes
  <2>4. peak \in [Tokens -> Nat]
    BY DEF ChatShapes
  <2>5. CASE pc'[r] = "checked"
    <3>1. k \in Tokens
      BY <1>4, <2>5
    <3>2. peak' = [peak EXCEPT ![k] = AtMost(peak[k], 1 + Cardinality(InFlight(k)))]
      BY <2>2, <2>5
    <3>. QED  BY ONLY <2>3, <2>4, <2>5, <3>1, <3>2
  <2>6. CASE pc'[r] # "checked"
    BY ONLY <2>2, <2>4, <2>6
  <2>. QED  BY <2>5, <2>6
<1>7. ChatShapes'
  <2>1. ChatShapes /\ peak' \in [Tokens -> Nat] /\ pc' \in [Requests -> Phases]
    BY <1>4, <1>6
  <2>. HIDE DEF IndInv
  <2>. QED  BY ONLY <1>1, <1>4, <2>1 DEF ChatShapes
<1>8. Courses'
  <2>1. ASSUME NEW q \in Requests PROVE Course(q)'
    <3>1. CASE q = r
      BY <1>1, <1>2, <1>3, <1>4, <3>1 DEF Course
    <3>2. CASE q # r
      BY <1>1, <1>3, <1>4, <3>2 DEF Courses, Course
    <3>. QED  BY <3>1, <3>2
  <2>. QED  BY <2>1 DEF Courses
<1>9. LedgerExact'
  <2>1. ASSUME NEW q \in Requests
        PROVE  LET rows == {x \in ledger' : x.requestId = q} IN
               /\ \A x \in rows : x.tenantId = Owner[cred'[q]] /\ x.cost = cost'[q]
               /\ pc'[q] \in {"ledgered", "spending", "done"} /\ q \notin unlogged'
                      => rows # {}
               /\ pc'[q] \notin {"ledgered", "spending", "done", "stopped"} => rows = {}
    <3>1. CASE q = r
      BY <1>1, <1>4, <1>5, <3>1 DEF LedgerExact
    <3>2. CASE q # r
      BY <1>1, <1>3, <1>4, <1>5, <3>2 DEF LedgerExact
    <3>. QED  BY <3>1, <3>2
  <2>. QED  BY <2>1 DEF LedgerExact
<1>10. QuotaExact'
  <2>1. \A q \in Requests : \A codes : q # r => (Counted(q, codes)' <=> Counted(q, codes))
    BY <1>4 DEF Counted
  <2>2. cred[r] \notin Tokens
    BY <1>2, ChatAssumption
  <2>3. cred'[r] \notin Tokens \/ ~Counted(r, Open)'
    BY <1>3, <1>4, ChatAssumption DEF Counted
  <2>4. ASSUME NEW t \in Tenants
        PROVE  /\ UsersOf(t, Open)' \subseteq UsersOf(t, Open)
               /\ UsersOf(t, Free) \subseteq UsersOf(t, Free)'
    <3>1. r \notin UsersOf(t, Free) /\ r \notin UsersOf(t, Open)'
      BY <2>2, <2>3, Users, UsersNext
    <3>2. \A q, codes : q # r => (q \in UsersOf(t, codes)' <=> q \in UsersOf(t, codes))
      BY <1>3, <2>1, Users, UsersNext
    <3>. QED  BY <3>1, <3>2
  <2>. QED  BY <1>1, <2>4, Between DEF QuotaExact
<1>11. \A j : ChargedTo(j)' = ChargedTo(j)
  BY <1>1, <1>2, <1>3 DEF ChargedTo, ChatShapes
<1>12. \A q \in Requests : pc'[q] = "spending" => pc[q] = "spending" /\ cred'[q] = cred[q]
  BY <1>1, <1>3, <1>4
<1>13. SpendKept'
  BY <1>1, <1>11, <1>12 DEF SpendKept
<1>14. \A j \in Tokens : j # k => InFlight(j)' = InFlight(j)
  BY <1>1, <1>2, <1>3, <1>4, ChatAssumption DEF InFlight
<1>15. BudgetKept'
  <2>1. ASSUME NEW j \in DOMAIN tokens, j # k, tokens[j].budget > 0 /\ j \notin disturbed
        PROVE  tokens[j].spent + Max(Costs) * Cardinality(InFlight(j)')
                   < tokens[j].budget + Max(Costs) * peak'[j]
    BY <1>6, <1>14, <2>1 DEF BudgetKept, ChatShapes
  <2>2. ASSUME k \in DOMAIN tokens, tokens[k].budget > 0 /\ k \notin disturbed
        PROVE  tokens[k].spent + Max(Costs) * Cardinality(InFlight(k)')
                   < tokens[k].budget + Max(Costs) * peak'[k]
    <3>1. k \in Tokens
      BY <2>2 DEF ChatShapes
    <3>2. CASE pc'[r] # "checked"
      <4>1. InFlight(k)' = InFlight(k)
        BY <1>1, <1>2, <1>3, <1>4, <3>1, <3>2, ChatAssumption DEF InFlight
      <4>. QED  BY <1>6, <2>2, <3>2, <4>1 DEF BudgetKept
    <3>3. CASE pc'[r] = "checked"
      <4>. DEFINE n == Cardinality(InFlight(k)) + 1
                  m == Max(Costs)
                  p == peak'[k]
      <4>1. tokens[k].spent < tokens[k].budget
        BY <1>4, <2>2, <3>3, Amounts DEF Admits, OverBudget, HasRow, BudgetRefuses
      <4>2. Cardinality(InFlight(k)') = n /\ n \in Nat
        <5>1. InFlight(k)' = InFlight(k) \cup {r} /\ r \notin InFlight(k)
          BY <1>1, <1>2, <1>3, <1>4, <3>1, <3>3, ChatAssumption DEF InFlight
        <5>2. InFlight(k) \in SUBSET Requests
          BY DEF InFlight
        <5>. QED  BY <5>1, <5>2, Finite, FS_AddElement
      <4>3. n <= p /\ p \in Nat
        <5>1. Cardinality(InFlight(k)) \in Nat
          BY Finite DEF InFlight
        <5>. QED  BY <1>6, <3>1, <3>3, <5>1
      <4>4. m \in Nat
        BY MaxCost
      <4>5. tokens[k].spent \in Nat /\ tokens[k].budget \in Nat
        BY <2>2, Amounts
      <4>. HIDE DEF m, n, p
      <4>6. m * n \in Nat /\ m * p \in Nat /\ m * n <= m * p
        BY <4>2, <4>3, <4>4, Times
      <4>7. tokens[k].spent + m * n < tokens[k].budget + m * p
        BY <4>1, <4>5, <4>6
      <4>. QED  BY <4>2, <4>7 DEF m, p
    <3>. QED  BY <3>2, <3>3
  <2>. QED  BY <1>1, <2>1, <2>2 DEF BudgetKept
<1>. QED  BY <1>5, <1>7, <1>8, <1>9, <1>10, <1>13, <1>15

\* A credential is looked up, and the request refused or let in.
LEMMA AuthenticateOK ==
    ASSUME IndInv, NEW r \in Requests, NEW k \in Tokens \cup Guests, Authenticate(r, k)
    PROVE  IndInv'
<1>1. /\ pc[r] = "new" /\ cred' = [cred EXCEPT ![r] = k]
      /\ UNCHANGED <<ledgerVars, tokens, quota, cost, read, charged, disturbed, unlogged>>
      /\ peak' = IF k \in Tokens /\ Admits(k)
                 THEN [peak EXCEPT ![k] = AtMost(peak[k], 1 + Cardinality(InFlight(k)))]
                 ELSE peak
  BY DEF Authenticate
<1>2. CASE ~Known(k)
  <2>1. Reply(r, "refused", formatRouterError(AuthenticationError)) /\ peak' = peak
    BY <1>1, <1>2 DEF Authenticate, Refuse, Admits
  <2>2. formatRouterError(AuthenticationError) # Unanswered
    BY RouteAssumption DEF Refusals
  <2>3. /\ formatRouterError(AuthenticationError).code \in Open
        /\ formatRouterError(AuthenticationError).status # 429
    BY Refused DEF Open
  <2>. QED  BY <1>1, <2>1, <2>2, <2>3, Arrives
<1>3. CASE Known(k) /\ OverBudget(k)
  <2>1. Reply(r, "refused", formatRouterError(QuotaExceededError)) /\ peak' = peak
    BY <1>1, <1>3 DEF Authenticate, Refuse, Admits
  <2>2. /\ formatRouterError(QuotaExceededError) # Unanswered
        /\ formatRouterError(QuotaExceededError).retryAfter # Never
    BY RouteAssumption, Refused, ChatAssumption DEF Refusals
  <2>3. formatRouterError(QuotaExceededError).code \in Open
    BY Refused DEF Open
  <2>. QED  BY <1>1, <2>1, <2>2, <2>3, Arrives
<1>4. CASE Known(k) /\ ~OverBudget(k)
  <2>1. Goto(r, IF k \in Tokens THEN "checked" ELSE "metered") /\ Admits(k)
    BY <1>4 DEF Authenticate, Admits
  <2>2. peak' = IF k \in Tokens
                THEN [peak EXCEPT ![k] = AtMost(peak[k], 1 + Cardinality(InFlight(k)))]
                ELSE peak
    BY <1>1, <2>1
  <2>. QED  BY <1>1, <2>1, <2>2, Arrives
<1>. QED  BY <1>2, <1>3, <1>4

\* The lookup fails, and the request with it.
LEMMA LookupFailsOK ==
    ASSUME IndInv, NEW r \in Requests, NEW k \in Tokens \cup Guests, LookupFails(r, k)
    PROVE  IndInv'
<1>1. /\ pc[r] = "new" /\ cred' = [cred EXCEPT ![r] = k]
      /\ UNCHANGED <<ledgerVars, tokens, quota, cost, read, charged, disturbed, unlogged>>
      /\ peak' = peak /\ Reply(r, "refused", formatRouterError(Exception))
  BY DEF LookupFails, Refuse, history
<1>2. formatRouterError(Exception) # Unanswered
  BY RouteAssumption DEF Refusals
<1>3. /\ formatRouterError(Exception).code \in Open
      /\ formatRouterError(Exception).status # 429
  BY Refused
<1>. QED  BY <1>1, <1>2, <1>3, Arrives

\* The token table changes, but no token's spend: a new row starts at nothing,
\* for an id that no request has come with, and a limit is only raised.
LEMMA TokensMove ==
    ASSUME IndInv, UNCHANGED <<ledgerVars, quota, reqVars, history>>,
           DOMAIN tokens' \subseteq Tokens,
           \A k \in DOMAIN tokens' :
               /\ tokens'[k] \in [budget : Budgets, spent : Nat, expired : BOOLEAN]
               /\ \/ /\ k \in DOMAIN tokens /\ tokens'[k].spent = tokens[k].spent
                     /\ tokens'[k].budget >= tokens[k].budget
                     /\ tokens'[k].budget > 0 => tokens[k].budget > 0
                  \/ tokens'[k].spent = 0 /\ \A r \in Requests : cred[r] # k
    PROVE  IndInv'
<1>. USE DEF IndInv
<1>1. UNCHANGED <<ledgerVars, quota, pc, cred, cost, read, answer, charged, disturbed,
                  unlogged, peak>>
  BY DEF reqVars, history
<1>2. LedgerInv' /\ ledger' = ledger
  BY <1>1, LedgerSame DEF ledgerVars
<1>3. ChatShapes'
  BY <1>1 DEF ChatShapes
<1>4. Courses' /\ LedgerExact'
  BY <1>1, <1>2 DEF Courses, Course, LedgerExact
<1>5. QuotaExact'
  BY <1>1, QuotaSame DEF Counted
<1>6. \A k : ChargedTo(k)' = ChargedTo(k) /\ InFlight(k)' = InFlight(k)
  BY <1>1 DEF ChargedTo, InFlight
<1>7. SpendKept'
  <2>1. ASSUME NEW k \in DOMAIN tokens', \A r \in Requests : cred[r] # k
        PROVE  SumOver(cost, ChargedTo(k)) = 0
    <3>1. ChargedTo(k) = {}
      BY <2>1 DEF ChargedTo, ChatShapes
    <3>. QED  BY <3>1, SumUnfold, FS_EmptySet
  <2>2. ASSUME NEW k \in DOMAIN tokens'
        PROVE  /\ tokens'[k].spent <= SumOver(cost, ChargedTo(k))
               /\ k \notin disturbed => tokens'[k].spent = SumOver(cost, ChargedTo(k))
               /\ \A r \in Requests :
                      pc[r] = "spending" /\ cred[r] = k =>
                          /\ read[r] <= SumOver(cost, ChargedTo(k))
                          /\ k \notin disturbed => read[r] = tokens'[k].spent
               /\ \A q, r \in Requests :
                      pc[q] = "spending" /\ pc[r] = "spending" /\ cred[q] = k /\ cred[r] = k
                      /\ q # r => k \in disturbed
    <3>1. CASE k \in DOMAIN tokens /\ tokens'[k].spent = tokens[k].spent
      BY <3>1 DEF SpendKept
    <3>2. CASE tokens'[k].spent = 0 /\ \A r \in Requests : cred[r] # k
      BY <2>1, <3>2
    <3>. QED  BY <3>1, <3>2
  <2>. QED  BY <1>1, <1>6, <2>2 DEF SpendKept
<1>8. BudgetKept'
  <2>1. ASSUME NEW k \in DOMAIN tokens', tokens'[k].budget > 0 /\ k \notin disturbed
        PROVE  tokens'[k].spent + Max(Costs) * Cardinality(InFlight(k))
                   < tokens'[k].budget + Max(Costs) * peak[k]
    <3>1. /\ tokens'[k].spent \in Nat /\ tokens'[k].budget \in Nat
          /\ Max(Costs) * peak[k] \in Nat /\ Max(Costs) * Cardinality(InFlight(k)) \in Nat
      <4>1. peak[k] \in Nat /\ Cardinality(InFlight(k)) \in Nat /\ Max(Costs) \in Nat
        BY Finite, MaxCost DEF ChatShapes, InFlight
      <4>2. Max(Costs) * peak[k] \in Nat /\ Max(Costs) * Cardinality(InFlight(k)) \in Nat
        BY <4>1, Times
      <4>. QED  BY <4>2, ChatAssumption
    <3>2. CASE /\ k \in DOMAIN tokens /\ tokens'[k].spent = tokens[k].spent
               /\ tokens'[k].budget >= tokens[k].budget
               /\ tokens[k].budget > 0
      <4>1. tokens[k].spent + Max(Costs) * Cardinality(InFlight(k))
                < tokens[k].budget + Max(Costs) * peak[k]
        BY <2>1, <3>2 DEF BudgetKept
      <4>2. tokens[k].budget \in Nat
        BY <3>2, Amounts
      <4>. QED  BY <3>1, <3>2, <4>1, <4>2
    <3>3. CASE tokens'[k].spent = 0 /\ \A r \in Requests : cred[r] # k
      <4>1. InFlight(k) = {}
        BY <3>3 DEF InFlight
      <4>2. Cardinality(InFlight(k)) = 0
        BY <4>1, FS_EmptySet
      <4>3. Max(Costs) * Cardinality(InFlight(k)) = 0
        <5>1. Max(Costs) \in Nat
          BY MaxCost
        <5>. QED  BY <4>2, <5>1
      <4>. QED  BY <2>1, <3>1, <3>3, <4>3
    <3>. QED  BY <2>1, <3>2, <3>3
  <2>. QED  BY <1>1, <1>6, <2>1 DEF BudgetKept
<1>. QED  BY <1>2, <1>3, <1>4, <1>5, <1>7, <1>8

\* What the dashboard, and time, do to the token table.
LEMMA TokenNextOK ==
    ASSUME IndInv, TokenNext
    PROVE  IndInv'
<1>1. PICK k \in Tokens :
          \/ \E b \in Budgets : createToken(k, b) \/ updateBudget(k, b)
          \/ revokeToken(k)
          \/ deleteToken(k)
  BY DEF TokenNext
<1>2. /\ DOMAIN tokens \subseteq Tokens
      /\ \A j \in DOMAIN tokens :
             tokens[j] \in [budget : Budgets, spent : Nat, expired : BOOLEAN]
  BY DEF IndInv, ChatShapes
<1>3. \A j \in DOMAIN tokens : tokens[j].budget \in Nat /\ tokens[j].spent \in Nat
  BY Amounts DEF IndInv
<1>4. CASE \E b \in Budgets : createToken(k, b)
  <2>1. PICK b \in Budgets : createToken(k, b)
    BY <1>4
  <2>. DEFINE row == [budget |-> b, spent |-> 0, expired |-> FALSE]
  <2>2. /\ DOMAIN tokens' = DOMAIN tokens \cup {k}
        /\ \A j \in DOMAIN tokens \ {k} : tokens'[j] = tokens[j]
        /\ tokens'[k] = row
        /\ \A r \in Requests : cred[r] # k
        /\ UNCHANGED <<ledgerVars, quota, reqVars, history>>
    BY <2>1 DEF createToken
  <2>3. row \in [budget : Budgets, spent : Nat, expired : BOOLEAN] /\ row.spent = 0
    OBVIOUS
  <2>. HIDE DEF row
  <2>4. ASSUME NEW j \in DOMAIN tokens'
        PROVE  /\ tokens'[j] \in [budget : Budgets, spent : Nat, expired : BOOLEAN]
               /\ \/ /\ j \in DOMAIN tokens /\ tokens'[j].spent = tokens[j].spent
                     /\ tokens'[j].budget >= tokens[j].budget
                     /\ tokens'[j].budget > 0 => tokens[j].budget > 0
                  \/ tokens'[j].spent = 0 /\ \A r \in Requests : cred[r] # j
    <3>1. CASE j = k
      BY <2>2, <2>3, <3>1
    <3>2. CASE j # k
      BY <1>2, <1>3, <2>2, <3>2
    <3>. QED  BY <3>1, <3>2
  <2>. QED  BY <1>2, <2>2, <2>4, TokensMove
<1>5. CASE \E b \in Budgets : updateBudget(k, b)
  <2>1. PICK b \in Budgets : updateBudget(k, b)
    BY <1>5
  <2>2. /\ DOMAIN tokens' = DOMAIN tokens /\ k \in DOMAIN tokens
        /\ \A j \in DOMAIN tokens \ {k} : tokens'[j] = tokens[j]
        /\ tokens'[k] = [budget |-> b, spent |-> tokens[k].spent,
                         expired |-> tokens[k].expired]
        /\ tokens[k].budget > 0 /\ b > tokens[k].budget
        /\ UNCHANGED <<ledgerVars, quota, reqVars, history>>
    BY <1>2, <2>1 DEF updateBudget, HasRow
  <2>3. /\ tokens'[k] \in [budget : Budgets, spent : Nat, expired : BOOLEAN]
        /\ tokens'[k].spent = tokens[k].spent /\ tokens'[k].budget = b
        /\ tokens[k].budget \in Nat /\ b \in Nat
    <3>1. tokens[k].spent \in Nat /\ tokens[k].expired \in BOOLEAN /\ tokens[k].budget \in Nat
      BY <1>2, <1>3, <2>2
    <3>2. b \in Nat
      BY ChatAssumption
    <3>. QED  BY <2>2, <3>1, <3>2
  <2>4. ASSUME NEW j \in DOMAIN tokens
        PROVE  /\ tokens'[j] \in [budget : Budgets, spent : Nat, expired : BOOLEAN]
               /\ tokens'[j].spent = tokens[j].spent
               /\ tokens'[j].budget >= tokens[j].budget
               /\ tokens'[j].budget > 0 => tokens[j].budget > 0
    <3>1. CASE j = k
      BY <2>2, <2>3, <3>1
    <3>2. CASE j # k
      BY <1>2, <1>3, <2>2, <3>2
    <3>. QED  BY <3>1, <3>2
  <2>. QED  BY <1>2, <2>2, <2>4, TokensMove
<1>6. CASE revokeToken(k)
  <2>1. /\ DOMAIN tokens' = DOMAIN tokens /\ k \in DOMAIN tokens
        /\ \A j \in DOMAIN tokens \ {k} : tokens'[j] = tokens[j]
        /\ tokens'[k] = [budget |-> tokens[k].budget, spent |-> tokens[k].spent,
                         expired |-> TRUE]
        /\ UNCHANGED <<ledgerVars, quota, reqVars, history>>
    BY <1>2, <1>6 DEF revokeToken, HasRow
  <2>2. ASSUME NEW j \in DOMAIN tokens
        PROVE  /\ tokens'[j] \in [budget : Budgets, spent : Nat, expired : BOOLEAN]
               /\ tokens'[j].spent = tokens[j].spent
               /\ tokens'[j].budget >= tokens[j].budget
               /\ tokens'[j].budget > 0 => tokens[j].budget > 0
    <3>1. CASE j = k
      <4>1. tokens[k].budget \in Budgets /\ tokens[k].spent \in Nat /\ tokens[k].budget \in Nat
        BY <1>2, <1>3, <2>1
      <4>2. /\ tokens'[k].budget = tokens[k].budget /\ tokens'[k].spent = tokens[k].spent
            /\ tokens'[k] \in [budget : Budgets, spent : Nat, expired : BOOLEAN]
        BY <2>1, <4>1
      <4>. QED  BY <3>1, <4>1, <4>2
    <3>2. CASE j # k
      BY <1>2, <1>3, <2>1, <3>2
    <3>. QED  BY <3>1, <3>2
  <2>. QED  BY <1>2, <2>1, <2>2, TokensMove
<1>7. CASE deleteToken(k)
  <2>1. /\ DOMAIN tokens' \subseteq DOMAIN tokens
        /\ \A j \in DOMAIN tokens' : tokens'[j] = tokens[j]
        /\ UNCHANGED <<ledgerVars, quota, reqVars, history>>
    BY <1>7 DEF deleteToken
  <2>2. ASSUME NEW j \in DOMAIN tokens'
        PROVE  /\ tokens'[j] \in [budget : Budgets, spent : Nat, expired : BOOLEAN]
               /\ j \in DOMAIN tokens /\ tokens'[j].spent = tokens[j].spent
               /\ tokens'[j].budget >= tokens[j].budget
               /\ tokens'[j].budget > 0 => tokens[j].budget > 0
    <3>1. j \in DOMAIN tokens /\ tokens'[j] = tokens[j]
      BY <2>1
    <3>. QED  BY <1>2, <1>3, <3>1
  <2>. QED  BY <1>2, <2>1, <2>2, TokensMove
<1>. QED  BY <1>1, <1>4, <1>5, <1>6, <1>7

\* The ledger's other writers add events of jobs, none of a request.
LEMMA OtherWritersOK ==
    ASSUME IndInv, LedgerNext, UNCHANGED chatVars
    PROVE  IndInv'
<1>. USE DEF IndInv
<1>1. UNCHANGED <<tokens, quota, pc, cred, cost, read, answer, charged, disturbed,
                  unlogged, peak>>
  BY DEF chatVars, reqVars, history
<1>2. LedgerInv'
  BY LedgerStepOK
<1>3. ledger \subseteq ledger' /\ \A e \in ledger' \ ledger : e.requestId \in Jobs
  <2>1. CASE NextDay
    BY <2>1 DEF NextDay
  <2>2. ASSUME NEW t \in Tenants, NEW c \in Costs, NEW id \in Jobs,
               recordEvent(Event(id, t, c)) \/ recordEventWithRollup(id, t, c)
        PROVE  ledger \subseteq ledger' /\ \A e \in ledger' \ ledger : e.requestId \in Jobs
    <3>1. ledger' = ledger \cup {Event(id, t, c)}
      BY <2>2 DEF recordEvent, recordEventWithRollup, Insert
    <3>2. Event(id, t, c).requestId = id
      BY DEF Event
    <3>. QED  BY <3>1, <3>2
  <2>3. ASSUME NEW t \in Tenants, NEW c \in Costs, NEW ids \in SUBSET Jobs,
               recordBatch(ids, t, c)
        PROVE  ledger \subseteq ledger' /\ \A e \in ledger' \ ledger : e.requestId \in Jobs
    BY <2>3 DEF recordBatch, Event
  <2>5. ASSUME NEW row, NEW delta, upsertDailyRollup(row, delta)
        PROVE  ledger' = ledger
    BY <2>5 DEF upsertDailyRollup
  <2>4. ASSUME NEW a \in Audits,
               \/ \E row \in Row : ReconcileRead(a, row)
               \/ ReconcileWrite(a)
               \/ ReconcileStops(a)
        PROVE  ledger' = ledger
    BY <2>4 DEF ReconcileRead, ReconcileWrite, ReconcileStops
  <2>. QED  BY <2>1, <2>2, <2>3, <2>4, <2>5 DEF LedgerNext
<1>4. \A q \in Requests :
          {e \in ledger' : e.requestId = q} = {e \in ledger : e.requestId = q}
  <2>1. \A q \in Requests : q \notin Jobs
    BY ChatAssumption
  <2>. QED  BY <1>3, <2>1
<1>5. LedgerExact'
  <2>1. ASSUME NEW q \in Requests
        PROVE  LET rows == {x \in ledger' : x.requestId = q} IN
               /\ \A x \in rows : x.tenantId = Owner[cred'[q]] /\ x.cost = cost'[q]
               /\ pc'[q] \in {"ledgered", "spending", "done"} /\ q \notin unlogged'
                      => rows # {}
               /\ pc'[q] \notin {"ledgered", "spending", "done", "stopped"} => rows = {}
    BY <1>1, <1>4 DEF LedgerExact
  <2>. QED  BY <2>1 DEF LedgerExact
<1>6. ChatShapes' /\ Courses'
  BY <1>1 DEF ChatShapes, Courses, Course
<1>7. QuotaExact'
  BY <1>1, QuotaSame DEF Counted
<1>8. \A k : ChargedTo(k)' = ChargedTo(k) /\ InFlight(k)' = InFlight(k)
  BY <1>1 DEF ChargedTo, InFlight
<1>9. SpendKept'
  BY <1>1, <1>8 DEF SpendKept
<1>10. BudgetKept'
  BY <1>1, <1>8 DEF BudgetKept
<1>. QED  BY <1>2, <1>5, <1>6, <1>7, <1>9, <1>10

\* Nothing happens.
LEMMA StutterOK ==
    ASSUME IndInv, UNCHANGED vars
    PROVE  IndInv'
<1>. USE DEF IndInv
<1>1. /\ UNCHANGED <<tokens, quota, pc, cred, cost, read, answer, charged, disturbed,
                     unlogged, peak>>
      /\ UNCHANGED ledgerVars /\ ledger' = ledger
  BY DEF vars, chatVars, reqVars, history, ledgerVars
<1>2. LedgerInv'
  BY <1>1, LedgerSame
<1>3. LedgerExact' /\ ChatShapes' /\ Courses'
  BY <1>1 DEF LedgerExact, ChatShapes, Courses, Course
<1>4. QuotaExact'
  BY <1>1, QuotaSame DEF Counted
<1>5. \A k : ChargedTo(k)' = ChargedTo(k) /\ InFlight(k)' = InFlight(k)
  BY <1>1 DEF ChargedTo, InFlight
<1>6. SpendKept' /\ BudgetKept'
  BY <1>1, <1>5 DEF SpendKept, BudgetKept
<1>. QED  BY <1>2, <1>3, <1>4, <1>6

\* At first there are no tokens, and no request has come.
LEMMA InitOK ==
    ASSUME Init
    PROVE  IndInv
<1>. USE DEF Init, ChatInit
<1>1. LedgerInv /\ ledger = {}
  BY LedgerInitOK DEF LedgerInit
<1>2. ChatShapes
  BY ChatAssumption DEF ChatShapes, Phases
<1>3. Courses /\ LedgerExact
  BY <1>1 DEF Courses, Course, LedgerExact
<1>4. QuotaExact
  <2>1. \A t, codes : UsersOf(t, codes) = {}
    BY ChatAssumption DEF UsersOf
  <2>2. \A t \in Tenants : quota[t] = 0
    OBVIOUS
  <2>3. Cardinality({}) = 0
    BY FS_EmptySet
  <2>. QED  BY ONLY <2>1, <2>2, <2>3 DEF QuotaExact
<1>5. SpendKept /\ BudgetKept
  BY DEF SpendKept, BudgetKept
<1>. QED  BY <1>1, <1>2, <1>3, <1>4, <1>5 DEF IndInv

\* Every step keeps the invariant.
LEMMA StepOK ==
    ASSUME IndInv, [Next]_vars
    PROVE  IndInv'
<1>1. ASSUME NEW r \in Requests, Step(r)
      PROVE  IndInv'
  BY <1>1, AnswerAnyoneOK, AuthenticateOK, LookupFailsOK, ConsumeQuotaOK, CheckLimitOK,
     IncrementOK, DispatchElsewhereOK,
     CheckBrakeOK, RouteFailsOK, AnswerPlainOK, StreamFlushOK, AnswerStreamOK,
     StreamCancelOK, RecordLedgerOK, SpendReadOK, SpendWriteOK, StopOK DEF Step
<1>. QED  BY <1>1, TokenNextOK, OtherWritersOK, StutterOK DEF Next

-----------------------------------------------------------------------------
(* What holds in every state *)

\* IndInv is an invariant.
THEOREM Invariance == Spec => []IndInv
<1>1. Init => IndInv
  BY InitOK
<1>2. IndInv /\ [Next]_vars => IndInv'
  BY StepOK
<1>. QED  BY <1>1, <1>2, PTL DEF Spec

\* The state is well typed, and a token's spend is the cost of the requests
\* that were charged to it, each once: exactly, if no two recordSpends of the
\* token overlapped, and never more in any case.
THEOREM SpendIsExact == Spec => []SpendExact
<1>1. IndInv => SpendExact
  <2>. SUFFICES ASSUME IndInv PROVE SpendExact
    OBVIOUS
  <2>. USE DEF IndInv
  <2>1. TypeOK
    BY DEF TypeOK, ChatShapes, LedgerInv, LedgerShapes
  <2>2. \A k : CostOf(ChargedTo(k)) = SumOver(cost, ChargedTo(k))
    <3>. TAKE k
    <3>1. ChargedTo(k) \in SUBSET Requests
      BY DEF ChargedTo, ChatShapes
    <3>. QED  BY <3>1, CostSums DEF ChatShapes
  <2>. QED  BY <2>1, <2>2 DEF SpendExact, SpendKept
<1>. QED  BY <1>1, Invariance, PTL

\* The types of the variables.
THEOREM TypeCorrect == Spec => []TypeOK
<1>1. SpendExact => TypeOK
  BY DEF SpendExact
<1>. QED  BY <1>1, SpendIsExact, PTL

\* A budget is overspent by less than what the requests of the token that were
\* let in together cost, whatever was sent at once and however the limit was
\* raised, as long as no two of its recordSpends overlapped.
THEOREM OverspendIsBounded == Spec => []OverspendBounded
<1>1. IndInv => OverspendBounded
  <2>. SUFFICES ASSUME IndInv, NEW k \in DOMAIN tokens,
                       tokens[k].budget > 0 /\ k \notin disturbed
                PROVE  tokens[k].spent < tokens[k].budget + Max(Costs) * peak[k]
    BY DEF OverspendBounded
  <2>. USE DEF IndInv
  <2>1. tokens[k].spent + Max(Costs) * Cardinality(InFlight(k))
            < tokens[k].budget + Max(Costs) * peak[k]
    BY DEF BudgetKept
  <2>2. Max(Costs) * Cardinality(InFlight(k)) \in Nat
    <3>1. Cardinality(InFlight(k)) \in Nat /\ Max(Costs) \in Nat
      BY Finite, MaxCost DEF InFlight
    <3>. QED  BY <3>1, Times
  <2>3. tokens[k].spent \in Nat /\ tokens[k].budget \in Nat /\ Max(Costs) * peak[k] \in Nat
    BY Amounts
  <2>. QED  BY <2>1, <2>2, <2>3
<1>. QED  BY <1>1, Invariance, PTL

\* The ledger names each request once, as its token is charged, and the answers
\* tell what the requests have cost: the units of every tenant's quota are those
\* of the requests that were told nothing else, where an unexpected exception
\* leaves it open, what was refused is not charged and not in the ledger, and only
\* the brake's refusal says no time to come back.
\* That the routes agree is a fact of the constants, and is supposed here.
THEOREM AnswersAndLedgerTell == Spec => [](RoutesAgree => LedgerAndAnswers)
<1>1. IndInv => (RoutesAgree => LedgerAndAnswers)
  <2>. SUFFICES ASSUME IndInv PROVE LedgerExact /\ AnswersTell
    BY DEF LedgerAndAnswers
  <2>. USE DEF IndInv
  <2>1. \A t \in Tenants : /\ Cardinality(UsersOf(t, Open)) <= quota[t]
                            /\ quota[t] <= Cardinality(UsersOf(t, Free))
    BY DEF QuotaExact
  <2>2. ASSUME NEW r \in Requests, answer[r] # Unanswered
        PROVE  /\ (answer[r].status >= 400
                      => r \notin charged /\ \A e \in ledger : e.requestId # r)
               /\ (answer[r].status = 429 /\ answer[r].retryAfter = Never
                      => answer[r].code = "EMERGENCY_BRAKE_ACTIVE")
    <3>1. Course(r) /\ pc[r] \in Phases
      BY DEF Courses, ChatShapes
    <3>2. CASE pc[r] \in {"refused", "failed"}
      BY <3>1, <3>2 DEF Course, LedgerExact
    <3>3. CASE pc[r] \notin {"refused", "failed"}
      <4>1. answer[r] = OK
        BY <2>2, <3>1, <3>3 DEF Course, Phases
      <4>2. OK.status = 200
        BY DEF OK, Answer
      <4>. QED  BY <4>1, <4>2
    <3>. QED  BY <3>2, <3>3
  <2>. QED  BY <2>1, <2>2 DEF AnswersTell
<1>. QED  BY <1>1, Invariance, PTL

\* A rollup row, and any period's summary, is within the ledger and what
\* upsertDailyRollup added since the row was rebuilt, whichever writers and
\* reconciliations overlapped.
THEOREM RollupIsBacked == Spec => []RollupBacked
<1>1. IndInv => RollupBacked
  BY SummaryBacked DEF IndInv
<1>. QED  BY <1>1, Invariance, PTL

\* A reconciliation that no event overtook repairs the row it writes.
THEOREM ReconciliationRepairs == Spec => ReconcileRepairs
<1>1. IndInv /\ [Next]_vars =>
          [\A a \in Audits :
             /\ audit[a].at = "read" /\ audit'[a] = NoAudit
             /\ audit[a].row \notin raced
             => rollup'[audit[a].row] = Aggregate(audit[a].row)]_ledgerVars
  <2>. SUFFICES ASSUME IndInv, [Next]_vars, ledgerVars' # ledgerVars, NEW a \in Audits,
                       audit[a].at = "read", audit'[a] = NoAudit, audit[a].row \notin raced
                PROVE  rollup'[audit[a].row] = Aggregate(audit[a].row)
    OBVIOUS
  <2>1. audit' # audit
    BY DEF NoAudit
  <2>2. ASSUME NEW r \in Requests, Step(r)
        PROVE  audit' = audit
    BY <2>2
       DEF Step, ledgerVars, AnswerAnyone, Authenticate, LookupFails, ConsumeQuota,
           checkLimitDetailed, increment, dispatchElsewhere,
           CheckBrake, RouteFails, AnswerPlain, StreamFlush, AnswerStream, StreamCancel,
           RecordLedger, recordEvent, SpendRead, SpendWrite, Stop
  <2>3. TokenNext => audit' = audit
    BY DEF TokenNext, ledgerVars, createToken, updateBudget, revokeToken, deleteToken
  <2>4. [LedgerNext]_ledgerVars
    BY <2>1, <2>2, <2>3 DEF Next, vars
  <2>. QED  BY <2>4, WritesRepair DEF IndInv
<1>. QED  BY <1>1, Invariance, PTL DEF Spec, ReconcileRepairs
=============================================================================
