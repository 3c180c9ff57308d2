--------------------------- MODULE KeyPoolProofs ---------------------------
(***************************************************************************)
(* Proofs about KeyPool for every finite set of keys, all priorities, any  *)
(* number of loads and every size of the index; and, in the second half,   *)
(* about Workbench, the console in the browser, for any number of tokens   *)
(* and of calls under way.                                                 *)
(***************************************************************************)
EXTENDS KeyPool, Workbench, FiniteSetTheorems, SequenceTheorems, WellFoundedInduction, TLAPS

\* A load that waits for D1 was asked with nothing stored, and nothing is until
\* the object is loaded.  Until then no key that it brings was removed: removals
\* come after a load.
LoadsFresh ==
    ~isLoaded => \A l \in Loads :
        /\ loads[l] # Idle => disk = <<>>
        /\ loads[l].rows \cap gone = {}

\* What is stored can be selected, although the object may not know it: PUT
\* /keys clears the object's keys before it throws, not the selector's.
StoredSelectable == isLoaded /\ ~overlapped => Range(disk) \subseteq Range(selector)

\* Of the removed keys none has a row.
GoneHaveNoRow == gone \cap rows = {}

\* The index has moved on since the last tie, in memory as in storage; the key
\* that was taken is the one it stood at, of a list of several different keys.
IndexMoved ==
    /\ rrMem # NotRead => rrMem = rrDisk
    /\ last.odd \in BOOLEAN
    /\ last.index = NotRead => last.tier = <<>>
    /\ last.index # NotRead =>
           /\ last.index \in 0..(RRModulus - 1)
           /\ rrDisk = (last.index + 1) % RRModulus
           /\ last.tier \in Seq(Ids) /\ IsInjective(last.tier) /\ Len(last.tier) > 1
           /\ last.key = last.tier[(last.index % Len(last.tier)) + 1]

\* The inductive invariant.
IndInv ==
    /\ SelectorAgrees /\ RemovedStaysOut /\ StoredSelectable
    /\ LoadsFresh /\ GoneHaveNoRow /\ IndexMoved

-----------------------------------------------------------------------------
(* The order of a set of numbers *)

\* A set of subsets of a finite set has a member that holds no other.
LEMMA Smallest ==
    ASSUME NEW S, IsFiniteSet(S), NEW B, B \subseteq SUBSET S, B # {}
    PROVE  \E T \in B : \A U \in B : U \subseteq T => U = T
  <1>1. B \subseteq FiniteSubsetsOf(S)
    BY FS_FiniteSubsetsOfFinite
  <1>2. IsWellFoundedOn(StrictSubsetOrdering(S), FiniteSubsetsOf(S))
    BY FS_StrictSubsetOrderingWellFounded
  <1>3. PICK T \in B : \A U \in B : ~(<<U, T>> \in StrictSubsetOrdering(S))
    BY <1>1, <1>2, WFMin
  <1>4. ASSUME NEW U \in B, U \subseteq T, U # T PROVE FALSE
    BY <1>3, <1>4 DEF StrictSubsetOrdering
  <1> QED BY <1>4

\* Of a finite set of numbers one is the largest.
LEMMA Largest ==
    ASSUME NEW S, S \subseteq Int, IsFiniteSet(S), S # {}
    PROVE  \E x \in S : \A y \in S : y <= x
  <1> DEFINE B == {T \in SUBSET S : T # {} /\ ~\E x \in T : \A y \in T : y <= x}
  <1> SUFFICES ASSUME B # {} PROVE FALSE
    OBVIOUS
  <1>1. PICK T \in B : \A U \in B : U \subseteq T => U = T
    <2>1. IsFiniteSet(S) /\ B \subseteq SUBSET S /\ B # {}
      OBVIOUS
    <2> HIDE DEF B
    <2> QED BY ONLY <2>1, Smallest
  <1>2. PICK x \in T : TRUE
    OBVIOUS
  <1>3. CASE T \ {x} = {}
    <2>1. \A y \in T : y <= x
      BY <1>2, <1>3
    <2> QED BY <1>2, <2>1
  <1>4. CASE T \ {x} # {}
    <2>1. T \ {x} \notin B
      BY <1>1, <1>2
    <2>2. PICK z \in T \ {x} : \A y \in T \ {x} : y <= z
      BY <1>4, <2>1
    <2>3. CASE x <= z
      <3>1. \A y \in T : y <= z
        BY <2>2, <2>3
      <3> QED BY <2>2, <3>1
    <2>4. CASE ~(x <= z)
      <3>1. \A y \in T : y <= x
        BY <1>2, <2>2, <2>4
      <3> QED BY <1>2, <3>1
    <2> QED BY <2>3, <2>4
  <1> QED BY <1>3, <1>4

\* Of a set of natural numbers one is the smallest.
LEMMA First ==
    ASSUME NEW S, S \subseteq Nat, S # {}
    PROVE  \E x \in S : \A y \in S : x <= y
  <1>1. PICK n \in S : TRUE
    OBVIOUS
  <1> DEFINE T == {-y : y \in {y \in S : y <= n}}
  <1>2. PICK z \in T : \A y \in T : y <= z
    <2>1. T \subseteq Int /\ T # {}
      <3>1. -n \in T
        BY <1>1
      <3>2. \A y \in T : y \in Int
        OBVIOUS
      <3> HIDE DEF T
      <3> QED BY ONLY <3>1, <3>2
    <2>2. IsFiniteSet(T)
      <3> DEFINE f == [y \in T |-> -y]
      <3>1. f \in Injection(T, 0..n)
        BY <1>1 DEF Injection, IsInjective
      <3>2. IsFiniteSet(0..n)
        BY <1>1, FS_Interval
      <3> HIDE DEF f, T
      <3> QED BY <3>1, <3>2, FS_Injection
    <2> HIDE DEF T
    <2> QED BY ONLY <2>1, <2>2, Largest
  <1>3. -z \in S /\ -z <= n
    OBVIOUS
  <1>4. ASSUME NEW y \in S PROVE -z <= y
    <2>1. CASE y <= n
      <3>1. -y \in T /\ -y <= z
        BY <1>2, <2>1
      <3> QED BY <1>3, <3>1
    <2>2. CASE ~(y <= n)
      BY <1>1, <1>3, <2>2
    <2> QED BY <2>1, <2>2
  <1> QED BY <1>3, <1>4

\* A list that goes up, of as many elements as a set has.
Ascends(s, T) ==
    /\ s \in [1..Cardinality(T) -> T]
    /\ \A i, j \in 1..Cardinality(T) : i < j => s[i] < s[j]

\* Every finite set of numbers can be put in order.
LEMMA OrderExists ==
    ASSUME NEW S, S \subseteq Int, IsFiniteSet(S)
    PROVE  \E s : Ascends(s, S)
  <1> DEFINE B == {T \in SUBSET S : ~\E s : Ascends(s, T)}
  <1> SUFFICES ASSUME B # {} PROVE FALSE
    OBVIOUS
  <1>1. PICK T \in B : \A U \in B : U \subseteq T => U = T
    <2>1. IsFiniteSet(S) /\ B \subseteq SUBSET S /\ B # {}
      OBVIOUS
    <2> HIDE DEF B
    <2> QED BY ONLY <2>1, Smallest
  <1>2. IsFiniteSet(T) /\ Cardinality(T) \in Nat /\ T \subseteq Int
    BY FS_Subset, FS_CardinalityType
  <1>3. CASE T = {}
    <2>1. Cardinality(T) = 0
      BY <1>3, FS_EmptySet
    <2>2. Ascends([i \in {} |-> 0], T)
      BY <2>1 DEF Ascends
    <2> QED BY <2>2
  <1>4. CASE T # {}
    <2>1. PICK x \in T : \A y \in T : y <= x
      BY <1>2, <1>4, Largest
    <2> DEFINE U == T \ {x}
               n == Cardinality(T)
    <2>2. U \notin B /\ U \in SUBSET S
      BY <1>1, <2>1
    <2>3. PICK s : Ascends(s, U)
      BY <2>2
    <2>4. n \in Nat \ {0} /\ Cardinality(U) = n - 1
      BY <1>2, <1>4, <2>1, FS_RemoveElement, FS_EmptySet
    <2>5. /\ s \in [1..(n - 1) -> U]
          /\ \A i, j \in 1..(n - 1) : i < j => s[i] < s[j]
      BY <2>3, <2>4 DEF Ascends
    <2> DEFINE t == [i \in 1..n |-> IF i = n THEN x ELSE s[i]]
    <2> HIDE DEF n
    <2>6. \A i \in 1..n : i # n => i \in 1..(n - 1) /\ t[i] = s[i] /\ s[i] \in U
      BY <2>4, <2>5
    <2>7. t[n] = x /\ n \in 1..n
      BY <2>4
    <2>8. t \in [1..n -> T]
      BY <2>6, <2>7
    <2>9. ASSUME NEW i \in 1..n, NEW j \in 1..n, i < j PROVE t[i] < t[j]
      <3>1. i # n /\ i \in Int /\ j \in Int
        BY <2>4, <2>9
      <3>2. CASE j = n
        <4>1. t[i] \in T /\ t[i] # x /\ t[j] = x
          BY <2>6, <2>7, <3>1, <3>2
        <4>2. t[i] \in Int /\ x \in Int /\ t[i] <= x
          BY <1>2, <2>1, <4>1
        <4> QED BY <4>1, <4>2
      <3>3. CASE j # n
        BY <2>5, <2>6, <2>9, <3>1, <3>3
      <3> QED BY <3>2, <3>3
    <2>10. Ascends(t, T)
      BY <2>8, <2>9 DEF Ascends, n
    <2> QED BY <2>10
  <1> QED BY <1>3, <1>4

\* InOrder lists the elements of a set, each once, upwards.
LEMMA Ordered ==
    ASSUME NEW S, S \subseteq Int, IsFiniteSet(S)
    PROVE  /\ Ascends(InOrder(S), S)
           /\ InOrder(S) \in Seq(S) /\ Len(InOrder(S)) = Cardinality(S)
           /\ IsInjective(InOrder(S)) /\ Range(InOrder(S)) = S
  <1> DEFINE s == InOrder(S)
             n == Cardinality(S)
  <1>1. n \in Nat
    BY FS_CardinalityType
  <1>2. Ascends(s, S)
    <2>1. \E t \in [1..Cardinality(S) -> S] :
              \A i, j \in 1..Cardinality(S) : i < j => t[i] < t[j]
      BY OrderExists DEF Ascends
    <2> QED BY <2>1 DEF InOrder, Ascends
  <1> HIDE DEF s
  <1>3. s \in [1..n -> S] /\ \A i, j \in 1..n : i < j => s[i] < s[j]
    BY <1>2 DEF Ascends
  <1>4. s \in Seq(S) /\ Len(s) = n
    <2>1. s \in Seq(S)
      BY <1>1, <1>3, SeqDef
    <2>2. DOMAIN s = 1..n /\ DOMAIN s = 1..Len(s) /\ Len(s) \in Nat
      BY <1>3, <2>1, LenProperties
    <2> QED BY <1>1, <2>1, <2>2
  <1>5. \A i, j \in 1..n : s[i] = s[j] => i = j
    <2> SUFFICES ASSUME NEW i \in 1..n, NEW j \in 1..n, s[i] = s[j], i # j PROVE FALSE
      OBVIOUS
    <2>1. s[i] \in Int /\ s[j] \in Int /\ i \in Int /\ j \in Int
      <3>1. s[i] \in S /\ s[j] \in S
        BY <1>3
      <3>2. i \in Int /\ j \in Int
        BY <1>1
      <3> QED BY <3>1, <3>2
    <2>2. i < j \/ j < i
      BY <2>1
    <2>3. s[i] < s[j] \/ s[j] < s[i]
      BY <1>3, <2>2
    <2> QED BY <2>1, <2>3
  <1>6. s \in Surjection(1..n, S)
    <2>1. s \in Injection(1..n, S)
      BY <1>3, <1>5 DEF Injection, IsInjective
    <2>2. Cardinality(1..n) = n
      BY <1>1, FS_Interval
    <2> QED BY <2>1, <2>2, FS_Injection
  <1>7. Range(s) = S
    BY <1>3, <1>6 DEF Surjection, Range
  <1> QED BY <1>2, <1>3, <1>4, <1>5, <1>7 DEF s, IsInjective

-----------------------------------------------------------------------------
(* Lists of keys *)

\* What is known of a list of keys.
LEMMA KeyList ==
    ASSUME NEW s, IsKeyList(s)
    PROVE  /\ Len(s) \in Nat /\ s \in [1..Len(s) -> Ids] /\ DOMAIN s = 1..Len(s)
           /\ Range(s) = {s[i] : i \in 1..Len(s)} /\ Range(s) \subseteq Ids
           /\ \A i, j \in 1..Len(s) : s[i] = s[j] => i = j
  BY LenProperties DEF IsKeyList, IsInjective, Range

\* The rows of D1 come as a list of keys.
LEMMA InOrderList ==
    ASSUME NEW ids \in SUBSET Ids
    PROVE  /\ IsKeyList(InOrder(ids)) /\ Range(InOrder(ids)) = ids
           /\ InOrder(ids) = <<>> <=> ids = {}
  <1> DEFINE s == InOrder(ids)
  <1>1. ids \subseteq Int /\ IsFiniteSet(ids)
    BY KeyPoolAssumption, FS_Subset
  <1>2. s \in Seq(ids) /\ IsInjective(s) /\ Range(s) = ids
    BY <1>1, Ordered
  <1> HIDE DEF s
  <1>3. s \in Seq(Ids)
    BY <1>2, SeqMonotonic
  <1>4. s = <<>> <=> ids = {}
    <2>1. s # <<>> => 1 \in DOMAIN s
      BY <1>2, EmptySeq, LenProperties
    <2>2. s = <<>> => DOMAIN s = {}
      BY <1>3, EmptySeq, LenProperties
    <2> QED BY <1>2, <2>1, <2>2 DEF Range
  <1> QED BY <1>2, <1>3, <1>4 DEF s, IsKeyList

\* A filter keeps the elements at the places it is asked for, and the list as
\* it is if it is asked for all.
LEMMA ThroughList ==
    ASSUME NEW s, IsKeyList(s), NEW P \in SUBSET (1..Len(s))
    PROVE  /\ IsKeyList(Through(s, P))
           /\ Range(Through(s, P)) = {s[i] : i \in P}
           /\ P = 1..Len(s) => Through(s, P) = s
  <1> DEFINE n == Cardinality(P)
             at == InOrder(P)
             t == Through(s, P)
  <1>1. /\ Len(s) \in Nat /\ s \in [1..Len(s) -> Ids]
        /\ \A i, j \in 1..Len(s) : s[i] = s[j] => i = j
    BY KeyList
  <1>2. P \subseteq Int /\ IsFiniteSet(P) /\ n \in Nat
    <2>1. IsFiniteSet(1..Len(s)) /\ P \subseteq Int
      BY <1>1, FS_Interval
    <2>2. IsFiniteSet(P)
      BY <2>1, FS_Subset
    <2> QED BY <2>1, <2>2, FS_CardinalityType
  <1>3. /\ at \in [1..n -> P] /\ \A i, j \in 1..n : i < j => at[i] < at[j]
        /\ IsInjective(at) /\ Range(at) = P
    BY <1>2, Ordered DEF Ascends
  <1>4. t = [i \in 1..n |-> s[at[i]]]
    BY DEF Through
  <1> HIDE DEF at, n, t
  <1>5. \A i \in 1..n : at[i] \in P /\ at[i] \in 1..Len(s) /\ t[i] = s[at[i]] /\ t[i] \in Ids
    BY <1>1, <1>3, <1>4
  <1>6. t \in Seq(Ids)
    <2>1. t \in [1..n -> Ids]
      BY <1>4, <1>5
    <2> QED BY <1>2, <2>1, SeqDef
  <1>7. IsInjective(t)
    <2>1. \A i, j \in 1..n : t[i] = t[j] => i = j
      BY <1>1, <1>3, <1>5 DEF IsInjective
    <2> QED BY <1>4, <2>1 DEF IsInjective
  <1>8. Range(t) = {s[i] : i \in P}
    <2>1. Range(t) = {s[at[i]] : i \in 1..n}
      BY <1>4 DEF Range
    <2>2. P = {at[i] : i \in 1..n}
      BY <1>3 DEF Range
    <2> QED BY <2>1, <2>2
  <1>9. ASSUME P = 1..Len(s) PROVE t = s
    <2>1. n = Len(s)
      BY <1>1, <1>9, FS_Interval DEF n
    <2>2. \A i \in 1..n : at[i] \in 1..n /\ at[i] \in Int
      BY <1>2, <1>5, <1>9, <2>1
    <2>3. \A i \in 1..n : i <= at[i]
      <3> DEFINE B == {i \in 1..n : ~(i <= at[i])}
      <3> SUFFICES ASSUME B # {} PROVE FALSE
        OBVIOUS
      <3>1. PICK i \in B : \A j \in B : i <= j
        <4>1. B \subseteq Nat /\ B # {}
          BY <1>2
        <4> HIDE DEF B
        <4> QED BY ONLY <4>1, First
      <3>2. i \in 1..n /\ at[i] \in 1..n /\ at[i] < i
        BY <1>2, <2>2
      <3>3. i - 1 \in 1..n /\ i - 1 < i
        BY <1>2, <3>2
      <3>4. i - 1 <= at[i - 1]
        BY <1>2, <3>1, <3>3
      <3>5. at[i - 1] < at[i]
        BY <1>3, <3>2, <3>3
      <3> QED BY <1>2, <2>2, <3>2, <3>3, <3>4, <3>5
    <2>4. \A i \in 1..n : at[i] <= i
      <3> DEFINE B == {i \in 1..n : ~(at[i] <= i)}
      <3> SUFFICES ASSUME B # {} PROVE FALSE
        OBVIOUS
      <3>1. PICK i \in B : \A j \in B : j <= i
        <4>1. IsFiniteSet(1..n) /\ B \in SUBSET (1..n)
          BY <1>2, FS_Interval
        <4>2. B \subseteq Int /\ B # {}
          BY <1>2
        <4> HIDE DEF B
        <4>3. IsFiniteSet(B)
          BY ONLY <4>1, FS_Subset
        <4> QED BY ONLY <4>2, <4>3, Largest
      <3>2. i \in 1..n /\ at[i] \in 1..n /\ i < at[i]
        BY <1>2, <2>2
      <3>3. i + 1 \in 1..n /\ i < i + 1
        BY <1>2, <3>2
      <3>4. at[i + 1] <= i + 1
        BY <1>2, <3>1, <3>3
      <3>5. at[i] < at[i + 1]
        BY <1>3, <3>2, <3>3
      <3> QED BY <1>2, <2>2, <3>2, <3>3, <3>4, <3>5
    <2>5. \A i \in 1..n : at[i] = i /\ t[i] = s[i]
      BY <1>2, <1>5, <2>2, <2>3, <2>4
    <2> QED BY <1>1, <1>4, <2>1, <2>5
  <1> QED BY <1>6, <1>7, <1>8, <1>9 DEF IsKeyList, t

\* Map.delete takes it out.
LEMMA DeleteKeyList ==
    ASSUME NEW m, IsKeyList(m), NEW k
    PROVE  /\ IsKeyList(DeleteKey(m, k)) /\ Range(DeleteKey(m, k)) = Range(m) \ {k}
           /\ k \notin Range(m) => DeleteKey(m, k) = m
  <1> DEFINE P == {i \in DOMAIN m : m[i] # k}
  <1>1. DOMAIN m = 1..Len(m) /\ Range(m) = {m[i] : i \in 1..Len(m)}
    BY KeyList
  <1>2. P \in SUBSET (1..Len(m)) /\ DeleteKey(m, k) = Through(m, P)
    BY <1>1 DEF DeleteKey
  <1>3. {m[i] : i \in P} = Range(m) \ {k}
    BY <1>1
  <1>4. k \notin Range(m) => P = 1..Len(m)
    BY <1>1
  <1> HIDE DEF P
  <1> QED BY <1>2, <1>3, <1>4, ThroughList

\* Map.set of a list puts all of it into the other.
LEMMA SetAllList ==
    ASSUME NEW m, IsKeyList(m), NEW s, IsKeyList(s)
    PROVE  /\ IsKeyList(SetAll(m, s)) /\ Range(SetAll(m, s)) = Range(m) \cup Range(s)
           /\ m = <<>> => SetAll(m, s) = s
  <1> DEFINE P == {i \in DOMAIN s : s[i] \notin Range(m)}
             t == Through(s, P)
             a == Len(m)
             b == Len(t)
             u == m \o t
  <1>1. DOMAIN s = 1..Len(s) /\ Range(s) = {s[i] : i \in 1..Len(s)}
    BY KeyList
  <1>2. P \in SUBSET (1..Len(s)) /\ SetAll(m, s) = u
    BY <1>1 DEF SetAll
  <1>3. {s[i] : i \in P} = Range(s) \ Range(m)
    BY <1>1
  <1>4. m = <<>> => P = 1..Len(s)
    BY <1>1 DEF Range
  <1> HIDE DEF P
  <1>5. IsKeyList(t) /\ Range(t) = Range(s) \ Range(m) /\ (m = <<>> => t = s)
    BY <1>2, <1>3, <1>4, ThroughList
  <1> HIDE DEF t
  <1>6. /\ a \in Nat /\ m \in Seq(Ids) /\ Range(m) = {m[i] : i \in 1..a}
        /\ \A i, j \in 1..a : m[i] = m[j] => i = j
    BY KeyList DEF IsKeyList
  <1>7. /\ b \in Nat /\ t \in Seq(Ids) /\ Range(t) = {t[i] : i \in 1..b}
        /\ \A i, j \in 1..b : t[i] = t[j] => i = j
    BY <1>5, KeyList DEF IsKeyList
  <1>8. /\ u \in Seq(Ids) /\ DOMAIN u = 1..(a + b)
        /\ \A i \in 1..(a + b) : u[i] = IF i <= a THEN m[i] ELSE t[i - a]
    BY <1>6, <1>7, ConcatProperties, LenProperties
  <1>9. m = <<>> => u = t
    BY <1>7, ConcatEmptySeq
  <1> HIDE DEF a, b, u
  <1>10. \A i \in 1..(a + b) : i \in 1..a \/ (~(i <= a) /\ i - a \in 1..b)
    BY <1>6, <1>7
  <1>11. \A i \in 1..a : i \in 1..(a + b) /\ u[i] = m[i]
    BY <1>6, <1>7, <1>8
  <1>12. \A i \in 1..b : a + i \in 1..(a + b) /\ u[a + i] = t[i]
    BY <1>6, <1>7, <1>8
  <1>13. Range(u) = Range(m) \cup Range(s)
    <2>1. Range(u) = {u[i] : i \in 1..(a + b)}
      BY <1>8 DEF Range
    <2>2. {u[i] : i \in 1..(a + b)} = Range(m) \cup Range(t)
      <3>1. \A i \in 1..(a + b) : u[i] \in Range(m) \cup Range(t)
        BY <1>6, <1>7, <1>8, <1>10
      <3>2. \A x \in Range(m) : \E i \in 1..(a + b) : x = u[i]
        BY <1>6, <1>11
      <3>3. \A x \in Range(t) : \E i \in 1..(a + b) : x = u[i]
        BY <1>7, <1>12
      <3> QED BY <3>1, <3>2, <3>3
    <2> QED BY <1>5, <2>1, <2>2
  <1>14. IsInjective(u)
    <2> SUFFICES ASSUME NEW i \in 1..(a + b), NEW j \in 1..(a + b), u[i] = u[j]
                 PROVE  i = j
      BY <1>8 DEF IsInjective
    <2>1. CASE i \in 1..a /\ j \in 1..a
      BY <1>6, <1>11, <2>1
    <2>2. CASE i \notin 1..a /\ j \notin 1..a
      <3>1. i - a \in 1..b /\ j - a \in 1..b /\ u[i] = t[i - a] /\ u[j] = t[j - a]
        BY <1>8, <1>10, <2>2
      <3>2. i - a = j - a
        BY <1>7, <3>1
      <3> QED BY <1>6, <1>7, <3>2
    <2>3. CASE i \in 1..a /\ j \notin 1..a
      <3>1. u[i] \in Range(m)
        BY <1>6, <1>11, <2>3
      <3>2. u[j] \in Range(t)
        BY <1>7, <1>8, <1>10, <2>3
      <3> QED BY <1>5, <3>1, <3>2
    <2>4. CASE i \notin 1..a /\ j \in 1..a
      <3>1. u[j] \in Range(m)
        BY <1>6, <1>11, <2>4
      <3>2. u[i] \in Range(t)
        BY <1>7, <1>8, <1>10, <2>4
      <3> QED BY <1>5, <3>1, <3>2
    <2> QED BY <2>1, <2>2, <2>3, <2>4
  <1> QED BY <1>2, <1>5, <1>8, <1>9, <1>13, <1>14 DEF IsKeyList

-----------------------------------------------------------------------------
(* The steps *)

\* At first the object has nothing.
LEMMA InitIndInv == Init => IndInv
  <1> SUFFICES ASSUME Init PROVE IndInv
    OBVIOUS
  <1> USE KeyPoolAssumption DEF Init
  <1>1. IsKeyList(<<>>)
    BY EmptySeq DEF IsKeyList, IsInjective
  <1>2. TypeOK
    <2>1. rows \subseteq Ids /\ loads \in [Loads -> {Idle}]
      OBVIOUS
    <2>2. rrMem \in {NotRead} /\ rrDisk \in 0..(RRModulus - 1)
      OBVIOUS
    <2> QED BY <1>1, <2>1, <2>2 DEF TypeOK
  <1>3. SelectorAgrees /\ RemovedStaysOut /\ StoredSelectable
    BY <1>2 DEF SelectorAgrees, RemovedStaysOut, StoredSelectable
  <1>4. LoadsFresh /\ GoneHaveNoRow
    BY DEF LoadsFresh, GoneHaveNoRow, Idle
  <1>5. IndexMoved
    BY DEF IndexMoved, NoTie, NotRead
  <1> QED BY <1>3, <1>4, <1>5 DEF IndInv

\* What the steps below use of the invariant.
LEMMA Given ==
    ASSUME IndInv
    PROVE  /\ IsKeyList(keysMap) /\ IsKeyList(selector) /\ IsKeyList(disk)
           /\ rows \subseteq Ids /\ gone \subseteq Ids
           /\ loads \in [Loads -> {Idle, Asked} \cup {Answered(ids) : ids \in SUBSET Ids}]
           /\ \A l \in Loads : loads[l].rows \subseteq Ids
           /\ isLoaded \in BOOLEAN /\ replaced \in BOOLEAN /\ torn \in BOOLEAN
           /\ overlapped \in BOOLEAN
           /\ rrMem \in {NotRead} \cup 0..(RRModulus - 1) /\ rrDisk \in 0..(RRModulus - 1)
           /\ ~isLoaded /\ ~torn => keysMap = <<>> /\ selector = <<>>
           /\ Range(<<>>) = {} /\ IsKeyList(<<>>)
  <1>1. TypeOK
    BY DEF IndInv, SelectorAgrees
  <1>2. IsKeyList(<<>>) /\ Range(<<>>) = {}
    BY EmptySeq DEF IsKeyList, IsInjective, Range
  <1>3. \A l \in Loads : loads[l].rows \subseteq Ids
    BY <1>1 DEF TypeOK, Idle, Asked, Answered
  <1> QED BY <1>1, <1>2, <1>3 DEF TypeOK

\* A step that leaves the index alone leaves IndexMoved.
LEMMA IndexSame == IndexMoved /\ UNCHANGED <<rrMem, rrDisk, last>> => IndexMoved'
  BY DEF IndexMoved

\* A row comes: the key is no longer one that was removed.
LEMMA InsertRowOK ==
    ASSUME IndInv, NEW k \in Ids, InsertRow(k)
    PROVE  IndInv'
  <1> USE DEF IndInv, InsertRow
  <1>1. SelectorAgrees'
    BY DEF SelectorAgrees, TypeOK
  <1>2. RemovedStaysOut' /\ StoredSelectable' /\ LoadsFresh' /\ GoneHaveNoRow'
    BY DEF RemovedStaysOut, StoredSelectable, LoadsFresh, GoneHaveNoRow
  <1> QED BY <1>1, <1>2, IndexSame

\* A row goes.
LEMMA DeleteRowOK ==
    ASSUME IndInv, NEW k \in Ids, DeleteRow(k)
    PROVE  IndInv'
  <1> USE DEF IndInv, DeleteRow, history
  <1>1. SelectorAgrees'
    BY DEF SelectorAgrees, TypeOK
  <1>2. RemovedStaysOut' /\ StoredSelectable' /\ LoadsFresh' /\ GoneHaveNoRow'
    BY DEF RemovedStaysOut, StoredSelectable, LoadsFresh, GoneHaveNoRow
  <1> QED BY <1>1, <1>2, IndexSame

\* The stored keys become the pool.
LEMMA LoadStoredOK ==
    ASSUME IndInv, LoadStored
    PROVE  IndInv'
  <1> USE DEF IndInv, LoadStored, history
  <1>1. /\ IsKeyList(SetAll(keysMap, disk))
        /\ Range(SetAll(keysMap, disk)) = Range(keysMap) \cup Range(disk)
        /\ ~torn => SetAll(keysMap, disk) = disk
    BY Given, SetAllList
  <1>2. SelectorAgrees'
    BY <1>1, Given DEF SelectorAgrees, TypeOK
  <1>3. RemovedStaysOut' /\ StoredSelectable' /\ LoadsFresh' /\ GoneHaveNoRow'
    BY <1>1 DEF RemovedStaysOut, StoredSelectable, LoadsFresh, GoneHaveNoRow
  <1> QED BY <1>2, <1>3, IndexSame

\* A load asks D1.
LEMMA AskD1OK ==
    ASSUME IndInv, NEW l \in Loads, AskD1(l)
    PROVE  IndInv'
  <1> USE DEF IndInv, AskD1, NothingStored, history
  <1>1. loads' \in [Loads -> {Idle, Asked} \cup {Answered(ids) : ids \in SUBSET Ids}]
    BY Given
  <1>2. SelectorAgrees'
    BY <1>1, Given DEF SelectorAgrees, TypeOK
  <1>3. LoadsFresh'
    BY Given DEF LoadsFresh, Asked
  <1>4. RemovedStaysOut' /\ StoredSelectable' /\ GoneHaveNoRow'
    BY DEF RemovedStaysOut, StoredSelectable, GoneHaveNoRow
  <1> QED BY <1>2, <1>3, <1>4, IndexSame

\* An object with keys that a call left there when it threw keeps them.
LEMMA LoadNothingOK ==
    ASSUME IndInv, LoadNothing
    PROVE  IndInv'
  <1> USE DEF IndInv, LoadNothing, NothingStored, history
  <1>1. SelectorAgrees'
    BY Given DEF SelectorAgrees, TypeOK
  <1>2. RemovedStaysOut' /\ StoredSelectable' /\ LoadsFresh' /\ GoneHaveNoRow'
    BY Given DEF RemovedStaysOut, StoredSelectable, LoadsFresh, GoneHaveNoRow
  <1> QED BY <1>1, <1>2, IndexSame

\* D1 answers with its rows, none of which is of a removed key.
LEMMA AnswerD1OK ==
    ASSUME IndInv, NEW l \in Loads, AnswerD1(l)
    PROVE  IndInv'
  <1> USE DEF IndInv, AnswerD1, history
  <1>1. loads' \in [Loads -> {Idle, Asked} \cup {Answered(ids) : ids \in SUBSET Ids}]
    BY Given
  <1>2. SelectorAgrees'
    BY <1>1, Given DEF SelectorAgrees, TypeOK
  <1>3. loads[l] # Idle
    BY DEF Asked, Idle
  <1>4. LoadsFresh'
    BY <1>3, Given DEF LoadsFresh, GoneHaveNoRow, Answered
  <1>5. RemovedStaysOut' /\ StoredSelectable' /\ GoneHaveNoRow'
    BY DEF RemovedStaysOut, StoredSelectable, GoneHaveNoRow
  <1> QED BY <1>2, <1>4, <1>5, IndexSame

\* The rows arrive: at an object that has nothing, or at one that is loaded,
\* which is the overlap that the properties leave out.
LEMMA FinishLoadOK ==
    ASSUME IndInv, NEW l \in Loads, FinishLoad(l)
    PROVE  IndInv'
  <1> USE DEF IndInv
  <1> DEFINE ids == loads[l].rows
             new == InOrder(ids)
  <1>1. /\ loads[l].at = "answered" /\ loads' = [loads EXCEPT ![l] = Idle] /\ isLoaded' = TRUE
        /\ UNCHANGED <<rows, rrMem, rrDisk, last, gone, replaced, torn>>
    BY DEF FinishLoad
  <1>2. loads' \in [Loads -> {Idle, Asked} \cup {Answered(i) : i \in SUBSET Ids}]
    BY <1>1, Given
  <1>3. LoadsFresh' /\ GoneHaveNoRow'
    BY <1>1 DEF LoadsFresh, GoneHaveNoRow
  <1>4. loads[l] # Idle
    BY <1>1 DEF Idle
  <1>5. IsKeyList(new) /\ Range(new) = ids
    BY Given, InOrderList
  <1>6. CASE ids # {}
    <2>1. /\ keysMap' = SetAll(keysMap, new) /\ selector' = keysMap' /\ disk' = new
          /\ overlapped' = (overlapped \/ isLoaded)
      BY <1>6 DEF FinishLoad
    <2> HIDE DEF new, ids
    <2>2. /\ IsKeyList(keysMap') /\ Range(keysMap') = Range(keysMap) \cup ids
          /\ ~isLoaded /\ ~torn => keysMap' = new
      BY <1>5, <2>1, Given, SetAllList
    <2>3. SelectorAgrees'
      BY <1>1, <1>2, <1>5, <2>1, <2>2, Given DEF SelectorAgrees, TypeOK
    <2>4. RemovedStaysOut' /\ StoredSelectable'
      <3>1. ~isLoaded => ids \cap gone = {}
        BY DEF LoadsFresh, ids
      <3> QED BY <1>1, <1>5, <2>1, <2>2, <3>1, Given DEF RemovedStaysOut, StoredSelectable
    <2> QED BY <1>1, <1>3, <2>3, <2>4, IndexSame
  <1>7. CASE ids = {}
    <2>1. UNCHANGED <<keysMap, selector, disk, overlapped>>
      BY <1>7 DEF FinishLoad
    <2>2. /\ ~isLoaded => disk = <<>>
          /\ ~isLoaded /\ ~torn => disk = keysMap
      BY <1>4, Given DEF LoadsFresh
    <2>3. SelectorAgrees'
      BY <1>1, <1>2, <2>1, <2>2, Given DEF SelectorAgrees, TypeOK
    <2>4. RemovedStaysOut' /\ StoredSelectable'
      BY <1>1, <2>1, <2>2, Given DEF RemovedStaysOut, StoredSelectable
    <2> QED BY <1>1, <1>3, <2>3, <2>4, IndexSame
  <1> QED BY <1>6, <1>7

\* A query that fails leaves the pool as it is, and the object loaded.
LEMMA FailLoadOK ==
    ASSUME IndInv, NEW l \in Loads, FailLoad(l)
    PROVE  IndInv'
  <1> USE DEF IndInv, FailLoad, history
  <1>1. loads' \in [Loads -> {Idle, Asked} \cup {Answered(ids) : ids \in SUBSET Ids}]
    BY Given
  <1>2. loads[l] # Idle
    BY DEF Idle
  <1>3. /\ ~isLoaded => disk = <<>>
        /\ ~isLoaded /\ ~torn => disk = keysMap
    BY <1>2, Given DEF LoadsFresh
  <1>4. SelectorAgrees'
    BY <1>1, <1>3, Given DEF SelectorAgrees, TypeOK
  <1>5. RemovedStaysOut' /\ StoredSelectable' /\ LoadsFresh' /\ GoneHaveNoRow'
    BY <1>3, Given DEF RemovedStaysOut, StoredSelectable, LoadsFresh, GoneHaveNoRow
  <1> QED BY <1>4, <1>5, IndexSame

\* Keys that are added are in both maps.
LEMMA AddedLists ==
    ASSUME IndInv, NEW ids \in SUBSET Ids, addKeysSync(ids)
    PROVE  /\ IsKeyList(keysMap') /\ Range(keysMap') = Range(keysMap) \cup ids
           /\ IsKeyList(selector') /\ Range(selector') = Range(selector) \cup ids
  <1> DEFINE new == InOrder(ids)
  <1>1. IsKeyList(new) /\ Range(new) = ids
    BY InOrderList
  <1>2. keysMap' = SetAll(keysMap, new) /\ selector' = SetAll(selector, new)
    BY DEF addKeysSync
  <1> HIDE DEF new
  <1> QED BY <1>1, <1>2, Given, SetAllList

\* They are stored as well, unless the call throws.
LEMMA AddKeysOK ==
    ASSUME IndInv, NEW ids \in SUBSET Ids, addKeys(ids) \/ addKeysThrows(ids)
    PROVE  IndInv'
  <1> USE DEF IndInv
  <1>1. /\ addKeysSync(ids) /\ isLoaded /\ UNCHANGED <<isLoaded, replaced>>
        /\ \/ disk' = keysMap' /\ torn' = FALSE
           \/ disk' = disk /\ torn' = (torn \/ keysMap' # keysMap)
    BY DEF addKeys, addKeysThrows
  <1>2. /\ IsKeyList(keysMap') /\ Range(keysMap') = Range(keysMap) \cup ids
        /\ IsKeyList(selector') /\ Range(selector') = Range(selector) \cup ids
    BY <1>1, AddedLists
  <1>3. /\ gone' = gone \ ids /\ UNCHANGED <<rows, loads, rrMem, rrDisk, last, overlapped>>
    BY <1>1 DEF addKeysSync
  <1>4. TypeOK'
    BY <1>1, <1>2, <1>3, Given DEF TypeOK
  <1>5. SelectorAgrees'
    BY <1>1, <1>2, <1>3, <1>4, Given DEF SelectorAgrees
  <1>6. RemovedStaysOut' /\ StoredSelectable'
    BY <1>1, <1>2, <1>3, Given DEF RemovedStaysOut, StoredSelectable, SelectorAgrees
  <1>7. LoadsFresh' /\ GoneHaveNoRow'
    BY <1>1, <1>3 DEF LoadsFresh, GoneHaveNoRow
  <1> QED BY <1>3, <1>5, <1>6, <1>7, IndexSame

\* A key is removed, from both maps and, if it was in either, from storage.
LEMMA RemoveKeyOK ==
    ASSUME IndInv, NEW k \in Ids, removeKey(k)
    PROVE  IndInv'
  <1> USE DEF IndInv, removeKey
  <1>1. /\ IsKeyList(keysMap') /\ Range(keysMap') = Range(keysMap) \ {k}
        /\ IsKeyList(selector') /\ Range(selector') = Range(selector) \ {k}
        /\ k \notin Range(keysMap) => keysMap' = keysMap
    BY Given, DeleteKeyList
  <1>2. TypeOK'
    BY <1>1, Given DEF TypeOK
  <1>3. SelectorAgrees'
    <2>1. Range(keysMap') \subseteq Range(selector')
      BY <1>1 DEF SelectorAgrees
    <2>2. ~replaced' => Range(selector') = Range(keysMap')
      BY <1>1 DEF SelectorAgrees
    <2>3. ~overlapped /\ ~torn' => disk' = keysMap'
      BY <1>1 DEF SelectorAgrees
    <2> QED BY <1>2, <2>1, <2>2, <2>3 DEF SelectorAgrees
  <1>4. RemovedStaysOut'
    <2> SUFFICES ASSUME ~overlapped
                 PROVE  gone' \cap (Range(keysMap') \cup Range(selector') \cup Range(disk')) = {}
      BY DEF RemovedStaysOut
    <2>1. gone \cap (Range(keysMap) \cup Range(selector) \cup Range(disk)) = {}
      BY DEF RemovedStaysOut
    <2>2. CASE k \in Range(keysMap) \cup Range(selector)
      BY <1>1, <2>1, <2>2
    <2>3. CASE k \notin Range(keysMap) \cup Range(selector)
      <3>1. disk' = disk /\ k \notin Range(disk)
        BY <2>3 DEF StoredSelectable
      <3> QED BY <1>1, <2>1, <3>1
    <2> QED BY <2>2, <2>3
  <1>5. LoadsFresh' /\ GoneHaveNoRow'
    BY DEF LoadsFresh, GoneHaveNoRow
  <1>6. StoredSelectable'
    BY <1>1 DEF StoredSelectable, SelectorAgrees
  <1> QED BY <1>3, <1>4, <1>5, <1>6, IndexSame

\* The object's keys are replaced; the selector's are added to.
LEMMA ReplacedLists ==
    ASSUME IndInv, NEW ids \in SUBSET Ids, Replace(ids)
    PROVE  /\ IsKeyList(keysMap') /\ Range(keysMap') = ids
           /\ IsKeyList(selector') /\ Range(selector') = Range(selector) \cup ids
  <1> DEFINE new == InOrder(ids)
  <1>1. IsKeyList(new) /\ Range(new) = ids
    BY InOrderList
  <1>2. keysMap' = new /\ selector' = SetAll(selector, new)
    BY DEF Replace
  <1> HIDE DEF new
  <1> QED BY <1>1, <1>2, Given, SetAllList

\* They are stored as well, unless the call throws.
LEMMA SetKeysOK ==
    ASSUME IndInv, NEW ids \in SUBSET Ids, setKeys(ids) \/ setKeysThrows(ids)
    PROVE  IndInv'
  <1> USE DEF IndInv
  <1>1. /\ Replace(ids)
        /\ \/ disk' = keysMap' /\ torn' = FALSE /\ isLoaded' = TRUE
           \/ disk' = disk /\ torn' = TRUE /\ isLoaded' = isLoaded
    BY DEF setKeys, setKeysThrows
  <1>2. /\ IsKeyList(keysMap') /\ Range(keysMap') = ids
        /\ IsKeyList(selector') /\ Range(selector') = Range(selector) \cup ids
    BY <1>1, ReplacedLists
  <1>3. /\ gone' = gone \ ids /\ replaced' = TRUE
        /\ UNCHANGED <<rows, loads, rrMem, rrDisk, last, overlapped>>
    BY <1>1 DEF Replace
  <1>4. TypeOK'
    BY <1>1, <1>2, <1>3, Given DEF TypeOK
  <1>5. SelectorAgrees'
    BY <1>1, <1>2, <1>3, <1>4, Given DEF SelectorAgrees
  <1>6. RemovedStaysOut' /\ StoredSelectable'
    BY <1>1, <1>2, <1>3, Given DEF RemovedStaysOut, StoredSelectable, SelectorAgrees
  <1>7. LoadsFresh' /\ GoneHaveNoRow'
    BY <1>1, <1>3 DEF LoadsFresh, GoneHaveNoRow
  <1> QED BY <1>3, <1>5, <1>6, <1>7, IndexSame

\* All keys are dropped, and the index in memory.
LEMMA ClearKeysOK ==
    ASSUME IndInv, clearKeys
    PROVE  IndInv'
  <1> USE DEF IndInv, clearKeys, history
  <1>1. SelectorAgrees'
    BY Given DEF SelectorAgrees, TypeOK
  <1>2. RemovedStaysOut' /\ StoredSelectable' /\ LoadsFresh' /\ GoneHaveNoRow'
    BY Given DEF RemovedStaysOut, StoredSelectable, LoadsFresh, GoneHaveNoRow
  <1>3. IndexMoved'
    BY DEF IndexMoved
  <1> QED BY <1>1, <1>2, <1>3

\* The memory is dropped; storage holds what it held.
LEMMA EvictOK ==
    ASSUME IndInv, Evict
    PROVE  IndInv'
  <1> USE DEF IndInv, Evict
  <1>1. SelectorAgrees'
    BY Given DEF SelectorAgrees, TypeOK
  <1>2. RemovedStaysOut' /\ StoredSelectable' /\ LoadsFresh' /\ GoneHaveNoRow'
    BY Given DEF RemovedStaysOut, StoredSelectable, LoadsFresh, GoneHaveNoRow, Idle
  <1>3. IndexMoved'
    BY DEF IndexMoved
  <1> QED BY <1>1, <1>2, <1>3

\* A remainder is one of its divisor's.
LEMMA Remainder ==
    ASSUME NEW a \in Nat, NEW n \in Nat \ {0}
    PROVE  a % n \in 0..(n - 1)
  OBVIOUS

\* A tie is broken by the index, which moves on.
LEMMA GetKeyOK ==
    ASSUME IndInv, NEW healthy, getKey(healthy)
    PROVE  IndInv'
  <1> USE DEF IndInv
  <1> DEFINE t == TopTier(healthy)
             i == RoundRobinIndex
  <1>1. /\ UNCHANGED <<rows, isLoaded, keysMap, selector, loads, disk, gone, replaced, torn,
                       overlapped>>
        /\ Len(t) > 1
        /\ rrMem' = (i + 1) % RRModulus /\ rrDisk' = rrMem'
        /\ last' = [tier |-> t, index |-> i, odd |-> ~last.odd,
                    key |-> t[(i % Len(t)) + 1]]
    BY DEF getKey, selectRoundRobin, Take
  <1>2. IsKeyList(t)
    <2> DEFINE P == {j \in DOMAIN selector :
                        /\ selector[j] \in healthy
                        /\ \A h \in healthy : Priority[h] <= Priority[selector[j]]}
    <2>1. P \in SUBSET (1..Len(selector)) /\ t = Through(selector, P)
      BY Given, KeyList DEF TopTier
    <2> HIDE DEF P, t
    <2> QED BY <2>1, Given, ThroughList
  <1>3. i \in 0..(RRModulus - 1) /\ i # NotRead
    BY Given, KeyPoolAssumption DEF RoundRobinIndex, NotRead
  <1>4. (i + 1) % RRModulus \in 0..(RRModulus - 1)
    BY <1>3, KeyPoolAssumption, Remainder
  <1> HIDE DEF t, i
  <1>5. SelectorAgrees'
    BY <1>1, <1>4 DEF SelectorAgrees, TypeOK
  <1>6. RemovedStaysOut' /\ StoredSelectable' /\ LoadsFresh' /\ GoneHaveNoRow'
    BY <1>1 DEF RemovedStaysOut, StoredSelectable, LoadsFresh, GoneHaveNoRow
  <1>7. IndexMoved'
    <2>1. /\ last'.tier = t /\ last'.index = i /\ last'.odd \in BOOLEAN
          /\ last'.key = t[(i % Len(t)) + 1]
      BY <1>1
    <2> QED BY <1>1, <1>2, <1>3, <2>1 DEF IndexMoved, IsKeyList
  <1> QED BY <1>5, <1>6, <1>7

\* Every step keeps the invariant.
LEMMA StepOK == IndInv /\ [Next]_vars => IndInv'
  <1> SUFFICES ASSUME IndInv, [Next]_vars PROVE IndInv'
    OBVIOUS
  <1>1. CASE UNCHANGED vars
    BY <1>1 DEF vars, history, IndInv, SelectorAgrees, TypeOK, RemovedStaysOut, StoredSelectable,
                LoadsFresh, GoneHaveNoRow, IndexMoved
  <1>2. ASSUME NEW k \in Ids, InsertRow(k) \/ DeleteRow(k) \/ removeKey(k)
        PROVE  IndInv'
    BY <1>2, InsertRowOK, DeleteRowOK, RemoveKeyOK
  <1>3. ASSUME NEW l \in Loads, AskD1(l) \/ AnswerD1(l) \/ FinishLoad(l) \/ FailLoad(l)
        PROVE  IndInv'
    BY <1>3, AskD1OK, AnswerD1OK, FinishLoadOK, FailLoadOK
  <1>4. ASSUME NEW ids \in SUBSET Ids,
               addKeys(ids) \/ addKeysThrows(ids) \/ setKeys(ids) \/ setKeysThrows(ids)
        PROVE  IndInv'
    BY <1>4, AddKeysOK, SetKeysOK
  <1>5. ASSUME NEW healthy \in SUBSET Range(selector), getKey(healthy) PROVE IndInv'
    BY <1>5, GetKeyOK
  <1> QED BY <1>1, <1>2, <1>3, <1>4, <1>5, LoadStoredOK, LoadNothingOK, ClearKeysOK, EvictOK DEF Next

-----------------------------------------------------------------------------
(* What holds in every state *)

\* Both maps and storage agree as IndInv says, through loads that overlap calls
\* and evictions.
THEOREM Invariance == Spec => []IndInv
  BY InitIndInv, StepOK, PTL DEF Spec

\* The variables keep their types: no list names a key twice.
THEOREM TypeCorrect == Spec => []TypeOK
  <1>1. IndInv => TypeOK
    BY DEF IndInv, SelectorAgrees
  <1> QED BY Invariance, <1>1, PTL

\* The selector offers the object's keys and no others, unless PUT /keys ran;
\* an eviction leaves the pool behind, unless the rows of a second load came or
\* a call threw part-way.
THEOREM SelectorIsRight == Spec => []SelectorAgrees
  <1>1. IndInv => SelectorAgrees
    BY DEF IndInv
  <1> QED BY Invariance, <1>1, PTL

\* A removed key does not come back, by a load or from storage.
THEOREM RemovedKeysStayOut == Spec => []RemovedStaysOut
  <1>1. IndInv => RemovedStaysOut
    BY DEF IndInv
  <1> QED BY Invariance, <1>1, PTL

\* Successive numbers leave different remainders.
LEMMA NextRemainder ==
    ASSUME NEW a \in Nat, NEW n \in Nat, n > 1
    PROVE  /\ (a + 1) % n # a % n
         /\ (a % n) + 1 \in 1..n /\ ((a + 1) % n) + 1 \in 1..n
  <1> DEFINE p == a \div n
             q == (a + 1) \div n
             r == a % n
             t == (a + 1) % n
  <1>1. r \in 0..(n - 1) /\ t \in 0..(n - 1)
    BY Remainder
  <1>2. p \in Nat /\ q \in Nat
    OBVIOUS
  <1>3. a = n * p + r
    OBVIOUS
  <1>4. a + 1 = n * q + t
    OBVIOUS
  <1> HIDE DEF p, q, r, t
  <1>5. ASSUME r = t PROVE FALSE
    <2>1. r \in Int /\ n * p \in Int /\ n * q \in Int
      BY <1>1, <1>2
    <2>2. n * q = n * p + 1
      BY <1>3, <1>4, <1>5, <2>1
    <2>3. CASE q <= p
      <3>1. PICK d \in Nat : p = q + d
        BY <1>2, <2>3
      <3>2. n * p = n * q + n * d /\ n * d \in Nat
        BY <1>2, <3>1
      <3> QED BY <2>1, <2>2, <3>2
    <2>4. CASE ~(q <= p)
      <3>1. PICK d \in Nat : q = p + 1 + d
        <4>1. q - p - 1 \in Nat /\ q = p + 1 + (q - p - 1)
          BY <1>2, <2>4
        <4> QED BY <4>1
      <3>2. n * q = n * p + n + n * d /\ n * d \in Nat
        BY <1>2, <3>1
      <3> QED BY <2>1, <2>2, <3>2
    <2> QED BY <2>3, <2>4
  <1>6. r + 1 \in 1..n /\ t + 1 \in 1..n
    BY <1>1
  <1> QED BY <1>5, <1>6 DEF r, t

\* Requests that find the same keys tied take different keys one after the
\* other, whatever happened between, evictions included.
THEOREM TiesAlternate == Spec => TakesTurns
  <1>1. IndInv /\ [Next]_vars =>
            [last'.odd # last.odd /\ last'.tier = last.tier /\ last.index # RRModulus - 1
                => last'.key # last.key]_vars
    <2> SUFFICES ASSUME IndInv, Next, last'.odd # last.odd, last'.tier = last.tier,
                        last.index # RRModulus - 1
                 PROVE  last'.key # last.key
      BY DEF vars
    <2>1. PICK healthy : getKey(healthy)
      BY DEF Next, InsertRow, DeleteRow, removeKey, LoadStored, LoadNothing, AskD1, AnswerD1,
             FinishLoad, FailLoad, addKeys, addKeysThrows, addKeysSync, setKeys,
             setKeysThrows, Replace, clearKeys, Evict, history
    <2> DEFINE t == TopTier(healthy)
               n == Len(t)
               i == last.index
               j == RoundRobinIndex
    <2>2. n > 1 /\ last'.tier = t /\ last'.key = t[(j % n) + 1] /\ last.tier = t
      BY <2>1 DEF getKey, selectRoundRobin, Take
    <2>3. last.index # NotRead
      <3>1. t # <<>>
        BY <2>2, EmptySeq
      <3> QED BY <2>2, <3>1 DEF IndInv, IndexMoved
    <2>4. /\ i \in 0..(RRModulus - 1) /\ j = (i + 1) % RRModulus
          /\ t \in Seq(Ids) /\ IsInjective(t) /\ last.key = t[(i % n) + 1]
      BY <2>2, <2>3 DEF IndInv, IndexMoved, RoundRobinIndex
    <2> HIDE DEF t, i, j, n
    <2>5. n \in Nat /\ DOMAIN t = 1..n
      BY <2>4, LenProperties DEF n
    <2>6. i \in Nat /\ j = i + 1
      BY <2>4, KeyPoolAssumption DEF i
    <2>7. (j % n) + 1 # (i % n) + 1 /\ (j % n) + 1 \in 1..n /\ (i % n) + 1 \in 1..n
      <3>1. /\ (i + 1) % n # i % n
            /\ (i % n) + 1 \in 1..n /\ ((i + 1) % n) + 1 \in 1..n
        BY <2>2, <2>5, <2>6, NextRemainder
      <3>2. i % n \in 0..(n - 1) /\ (i + 1) % n \in 0..(n - 1)
        <4>1. n \in Nat \ {0} /\ i + 1 \in Nat /\ i \in Nat
          BY <2>2, <2>5, <2>6
        <4> QED BY ONLY <4>1, Remainder
      <3>3. ((i + 1) % n) + 1 # (i % n) + 1
        BY <2>5, <3>1, <3>2
      <3> QED BY <2>6, <3>1, <3>3
    <2> QED BY <2>2, <2>4, <2>5, <2>7 DEF IsInjective
  <1> QED BY <1>1, Invariance, PTL DEF Spec, TakesTurns

-----------------------------------------------------------------------------
(* The console in the browser (Workbench).                                 *)

\* A tenant or nobody, and a token that was made or none.
Users == Tenants \cup {NONE}
Tokens == Made \cup {NONE}

\* The calls that make a session's token, and those that delete a token.
Saves == {"signin", "sync", "resync"}
Deletes == {"revoke", "drop"}

\* A row belongs to the tenant its token was made for.
ServerOK ==
    /\ made \in Seq(Tenants) /\ Len(made) <= MaxTokens
    /\ auth_tokens \in [1..MaxTokens -> Users]
    /\ \A s \in Made : auth_tokens[s] # NONE => made[s] = auth_tokens[s]
    /\ \A s \in 1..MaxTokens : auth_tokens[s] # NONE => s \in Made

\* The page's account is the one that localStorage has.
PageOK ==
    /\ storage \in [user : Users, token : Tokens]
    /\ cookie \in [token : Tokens, httpOnly : BOOLEAN]
    /\ url \in Tokens
    /\ account = storage.user

\* What a request carries of the session: two headers and the cookie.
Creds == [header : Users, token : Tokens, cookie : Tokens]

\* A call has the fields of one.
IsCall(c) ==
    c = [op |-> c.op, arg |-> c.arg, creds |-> c.creds, at |-> c.at, ok |-> c.ok,
         ids |-> c.ids, id |-> c.id, known |-> c.known, live |-> c.live, mine |-> c.mine]

\* What a call asks for and was answered: a saved session is the user's, and
\* tokens are ones that were made.
CallOK(c) ==
    /\ IsCall(c)
    /\ c.creds \in Creds
    /\ c.op \in Saves =>
           /\ c.arg \in Tenants
           /\ c.ok \/ c.id # NONE => c.id \in Made /\ made[c.id] = c.arg
    /\ c.op = "session" => c.id \in Users
    /\ c.op = "newToken" /\ c.ok => c.id \in Made
    /\ c.op \in Deletes => c.arg \in Made
    /\ c.op = "tokens" => c.ids \subseteq Made

CallsOK == \A c \in calls : CallOK(c)

\* Whose the token is that the page sends.
Sender == Owner(RawToken(getAuthHeaders))

\* A call about the session that nothing has overtaken speaks of the session
\* that the page has.
Follows(c) ==
    c.live /\ c.mine =>
        /\ c.op \in {"sync", "resync"} => c.arg = storage.user
        /\ c.op = "session" /\ c.at = "sent" => c.creds = getAuthHeaders
        /\ c.op = "session" /\ c.ok /\ c.known => c.id = Sender
        /\ c.op = "session" /\ c.ok /\ ~c.known => c.id = storage.user

CallsFollow == \A c \in calls : Follows(c)

\* What SessionCoherent says, as far as it is not PageOK.
SessionOK ==
    /\ session = "in" => account # NONE /\ account = Sender
    /\ session = "out" => storage.user = NONE /\ storage.token = NONE /\ url = NONE

\* A deletion of the token that c was answered with.
Undoes(d, c) == d.op \in Deletes /\ d.arg = c.id

\* What api.ts does to the page when it is called.
Resaved == storage' = storage \/ Resaves

\* Tokens, the session and its page are left alone.
SessionKept == UNCHANGED <<auth_tokens, made, cookie, url, account, session>> /\ Resaved

\* A token that is being deleted although its creation is still to be shown is
\* known to be so, and one whose deletion nobody waits for is not shown.
NewTokenOK(c) ==
    c.op = "newToken" /\ c.ok =>
        /\ c.live => auth_tokens[c.id] # NONE
        /\ \A d \in calls : Undoes(d, c) => ~c.live /\ (c.mine => d.mine)

NewTokensOK == \A c \in calls : NewTokenOK(c)

\* A row of the page's table has the fields of one.
IsRow(r) ==
    r = [id |-> r.id, project |-> r.project, shown |-> r.shown,
         revoked |-> r.revoked, back |-> r.back]

\* One that shows its secret: the page waits for every deletion of its token, and
\* its token works or is being deleted.
RowOK(r) ==
    /\ IsRow(r)
    /\ r.id \in Made
    /\ r.shown => \A d \in calls : Undoes(d, r) => d.mine
    /\ r.shown /\ ~r.revoked /\ ~r.back =>
           auth_tokens[r.id] # NONE \/ \E d \in calls : Undoes(d, r)

RowsOK == \A r \in localKeys : RowOK(r)

\* The inductive invariant.
WorkbenchInv ==
    /\ ServerOK /\ PageOK /\ SessionOK
    /\ CallsOK /\ CallsFollow
    /\ NewTokensOK /\ RowsOK

-----------------------------------------------------------------------------
(* What becomes of calls.                                                  *)

\* e is c, perhaps overtaken, or without the page that made it.
Weaker(e, c) ==
    /\ IsCall(e)
    /\ e.op = c.op /\ e.arg = c.arg /\ e.creds = c.creds /\ e.at = c.at
    /\ e.ok = c.ok /\ e.ids = c.ids /\ e.id = c.id /\ e.known = c.known
    /\ e.live => c.live
    /\ e.mine => c.mine

\* e is c, perhaps overtaken.
Kept(e, c) == Weaker(e, c) /\ (c.mine => e.mine)

\* A call that has just been sent.
JustSent(e) ==
    /\ IsCall(e)
    /\ e.at = "sent" /\ ~e.ok /\ e.ids = {} /\ e.id = NONE
    /\ e.mine
    /\ e.creds \in Creds
    /\ e.op \in Saves => e.arg \in Tenants
    /\ e.op \in Deletes => e.arg \in Made

\* One that deletes nothing.
Harmless(e) == JustSent(e) /\ e.op \notin Deletes

\* Tokens are made, and what was made stays.
MadeGrows ==
    /\ Made \subseteq Made'
    /\ \A s \in Made : made'[s] = made[s]

\* And none that works ceases to.
Grown ==
    /\ MadeGrows
    /\ \A s \in Made : auth_tokens[s] # NONE => auth_tokens'[s] # NONE

\* Of the calls under way none is new but harmless ones.
CallsKept == \A e \in calls' : (\E c \in calls : Kept(e, c)) \/ Harmless(e)'
CallsWeakened == \A e \in calls' : (\E c \in calls : Weaker(e, c)) \/ Harmless(e)'

\* Deletions that the page waits for are still under way.
DeletesStay == \A d \in calls : d.op \in Deletes /\ d.mine => \E e \in calls' : Kept(e, d)

\* A row that shows no more than the row q did.
Tamer(r, q) ==
    /\ IsRow(r)
    /\ r.id = q.id
    /\ r.shown => q.shown
    /\ r.shown /\ ~r.revoked /\ ~r.back => ~q.revoked /\ ~q.back

RowsTame ==
    \A r \in localKeys' :
        (IsRow(r) /\ r.id \in Made /\ ~r.shown) \/ \E q \in localKeys : Tamer(r, q)

\* A call that was sent has been asked.
LEMMA CallFields ==
    ASSUME NEW op, NEW arg, NEW creds, NEW e, e = Call(op, arg, creds)
    PROVE  /\ IsCall(e) /\ e.op = op /\ e.arg = arg /\ e.creds = creds
           /\ e.at = "sent" /\ ~e.ok /\ e.ids = {} /\ e.id = NONE /\ e.live /\ e.mine
  BY DEF IsCall, Call

\* Overtaking calls.
LEMMA OvertakenFields ==
    ASSUME NEW c, IsCall(c), NEW kinds, NEW e, e = [c EXCEPT !.live = @ /\ c.op \notin kinds]
    PROVE  Kept(e, c) /\ (e.live => e.op \notin kinds)
  BY DEF IsCall, Kept, Weaker

\* Leaving a page.
LEMMA LeftFields ==
    ASSUME NEW c, IsCall(c), NEW kinds, NEW e, e = [c EXCEPT !.mine = @ /\ c.op \notin kinds]
    PROVE  Weaker(e, c) /\ (e.mine => e.op \notin kinds)
  BY DEF IsCall, Weaker

\* Leaving the page of all calls.
LEMMA GoneFields ==
    ASSUME NEW c, IsCall(c), NEW e, e = [c EXCEPT !.mine = FALSE]
    PROVE  Weaker(e, c) /\ ~e.mine
  BY DEF IsCall, Weaker

\* A weaker call is as good as the one it was.
LEMMA WeakerOK ==
    ASSUME MadeGrows, NEW c, CallOK(c), NEW e, Weaker(e, c)
    PROVE  CallOK(e)'
  BY DEF MadeGrows, CallOK, Weaker, Creds, Tokens

\* So is one that was asked.
LEMMA AskedOK ==
    ASSUME NEW e, JustSent(e)'
    PROVE  CallOK(e)'
  BY DEF CallOK, JustSent, Saves, Users

\* The calls remain what they should be.
LEMMA CallsStayOK ==
    ASSUME MadeGrows, CallsOK, CallsWeakened
    PROVE  CallsOK'
  <1> SUFFICES ASSUME NEW e \in calls' PROVE CallOK(e)'
    BY DEF CallsOK
  <1>1. CASE \E c \in calls : Weaker(e, c)
    BY <1>1, WeakerOK DEF CallsOK
  <1>2. CASE Harmless(e)'
    BY <1>2, AskedOK DEF Harmless
  <1> QED BY <1>1, <1>2 DEF CallsWeakened

\* Kept calls are weakened ones.
LEMMA KeptWeakened == CallsKept => CallsWeakened
  BY DEF CallsKept, CallsWeakened, Kept

\* New tokens and rows with a secret, while the page stays.
LEMMA RowsStayOK ==
    ASSUME Grown, CallsOK, NewTokensOK, RowsOK, CallsKept, DeletesStay, RowsTame
    PROVE  NewTokensOK' /\ RowsOK'
  <1>1. NewTokensOK'
    <2> SUFFICES ASSUME NEW e \in calls' PROVE NewTokenOK(e)'
      BY DEF NewTokensOK
    <2> SUFFICES ASSUME e.op = "newToken", e.ok
                 PROVE  /\ e.live => auth_tokens'[e.id] # NONE
                        /\ \A d \in calls' : Undoes(d, e) => ~e.live /\ (e.mine => d.mine)
      BY DEF NewTokenOK, Undoes
    <2>1. PICK c \in calls : Kept(e, c)
      BY DEF CallsKept, Harmless, JustSent
    <2>2. CallOK(c) /\ NewTokenOK(c) /\ c.op = "newToken" /\ c.ok /\ e.id = c.id
      BY <2>1 DEF CallsOK, NewTokensOK, Kept, Weaker
    <2>3. c.id \in Made
      BY <2>2 DEF CallOK
    <2>4. e.live => auth_tokens'[e.id] # NONE
      BY <2>1, <2>2, <2>3 DEF Grown, NewTokenOK, Kept, Weaker
    <2>5. ASSUME NEW d \in calls', Undoes(d, e) PROVE ~e.live /\ (e.mine => d.mine)
      <3>1. PICK b \in calls : Kept(d, b)
        BY <2>5 DEF CallsKept, Harmless, Undoes
      <3>2. Undoes(b, c)
        BY <2>2, <2>5, <3>1 DEF Kept, Weaker, Undoes
      <3> QED BY <2>1, <2>2, <3>1, <3>2 DEF NewTokenOK, Kept, Weaker
    <2> QED BY <2>4, <2>5
  <1>2. RowsOK'
    <2> SUFFICES ASSUME NEW r \in localKeys' PROVE RowOK(r)'
      BY DEF RowsOK
    <2>1. CASE IsRow(r) /\ r.id \in Made /\ ~r.shown
      BY <2>1 DEF RowOK, Grown, MadeGrows
    <2>2. CASE \E q \in localKeys : Tamer(r, q)
      <3>1. PICK q \in localKeys : Tamer(r, q)
        BY <2>2
      <3>2. RowOK(q)
        BY DEF RowsOK
      <3>3. IsRow(r) /\ r.id \in Made'
        BY <3>1, <3>2 DEF RowOK, Tamer, Grown, MadeGrows
      <3>4. ASSUME r.shown, NEW d \in calls', Undoes(d, r) PROVE d.mine
        <4>1. PICK b \in calls : Kept(d, b)
          BY <3>4 DEF CallsKept, Harmless, Undoes
        <4>2. Undoes(b, q)
          BY <3>1, <3>4, <4>1 DEF Kept, Weaker, Undoes, Tamer
        <4> QED BY <3>1, <3>2, <3>4, <4>1, <4>2 DEF RowOK, Kept, Tamer
      <3>5. ASSUME r.shown, ~r.revoked, ~r.back
            PROVE  auth_tokens'[r.id] # NONE \/ \E d \in calls' : Undoes(d, r)
        <4>1. CASE auth_tokens[q.id] # NONE
          BY <3>1, <3>2, <4>1 DEF RowOK, Grown, Tamer
        <4>2. CASE \E d \in calls : Undoes(d, q)
          <5>1. PICK d \in calls : Undoes(d, q)
            BY <4>2
          <5>2. d.mine
            BY <3>1, <3>2, <3>5, <5>1 DEF RowOK, Tamer
          <5>3. PICK e \in calls' : Kept(e, d)
            BY <5>1, <5>2 DEF DeletesStay, Undoes
          <5>4. Undoes(e, r)
            BY <3>1, <5>1, <5>3 DEF Undoes, Kept, Weaker, Tamer
          <5> QED BY <5>4
        <4> QED BY <3>1, <3>2, <3>5, <4>1, <4>2 DEF RowOK, Tamer
      <3>6. RowOK(r)' <=> /\ IsRow(r) /\ r.id \in Made'
                          /\ r.shown => \A d \in calls' : Undoes(d, r) => d.mine
                          /\ r.shown /\ ~r.revoked /\ ~r.back =>
                               auth_tokens'[r.id] # NONE \/ \E d \in calls' : Undoes(d, r)
        BY DEF RowOK, Undoes
      <3> QED BY <3>3, <3>4, <3>5, <3>6
    <2> QED BY <2>1, <2>2 DEF RowsTame
  <1> QED BY <1>1, <1>2

-----------------------------------------------------------------------------
(* The session, where it is left alone.                                    *)

\* The calls about the session are no others than before, or do not matter.
Followers ==
    \A e \in calls' :
        \/ \E c \in calls : Weaker(e, c)
        \/ e.op \notin SessionCalls
        \/ ~(e.live /\ e.mine)

\* With the same credentials the page is the same tenant: what api.ts saves is
\* what it sends.
LEMMA SenderStays ==
    ASSUME MadeGrows, PageOK, UNCHANGED <<cookie, url>>, Resaved
    PROVE  Sender' = Sender /\ getAuthHeaders' = getAuthHeaders /\ storage'.user = storage.user
  <1>1. RawToken(getAuthHeaders) \in Made \cup {NONE}
    BY DEF PageOK, Tokens, RawToken, getAuthHeaders, Credentials, UrlFirst
  <1>2. storage'.user = storage.user /\ storage'.token \in {storage.token, UrlFirst(storage.token)}
    BY DEF Resaved, Resaves, PageOK
  <1>3. getAuthHeaders' = getAuthHeaders
    BY <1>2 DEF getAuthHeaders, Credentials, UrlFirst
  <1> QED BY <1>1, <1>2, <1>3 DEF Sender, Owner, RawToken, MadeGrows

\* Calls about the session that follow it go on doing so.
LEMMA CallsGoOn ==
    ASSUME MadeGrows, PageOK, CallsFollow, Followers, UNCHANGED <<cookie, url>>, Resaved
    PROVE  CallsFollow'
  <1>1. Sender' = Sender /\ getAuthHeaders' = getAuthHeaders /\ storage'.user = storage.user
    BY SenderStays
  <1> SUFFICES ASSUME NEW e \in calls' PROVE Follows(e)'
    BY DEF CallsFollow
  <1>2. CASE \E c \in calls : Weaker(e, c)
    <2>1. PICK c \in calls : Weaker(e, c)
      BY <1>2
    <2>2. Follows(c)
      BY DEF CallsFollow
    <2> QED BY <1>1, <2>1, <2>2 DEF Follows, Weaker
  <1>3. CASE e.op \notin SessionCalls \/ ~(e.live /\ e.mine)
    BY <1>3 DEF Follows, SessionCalls
  <1> QED BY <1>2, <1>3 DEF Followers

\* What is true of the page's session and its account stays true.
LEMMA SessionStays ==
    ASSUME MadeGrows, PageOK, SessionOK, UNCHANGED <<cookie, url, account, session>>, Resaved
    PROVE  PageOK' /\ SessionOK'
  <1>1. Sender' = Sender /\ storage'.user = storage.user
    BY SenderStays
  <1>2. storage' \in [user : Users, token : Tokens]
    BY DEF Resaved, Resaves, UrlFirst, PageOK
  <1>3. PageOK'
    BY <1>1, <1>2 DEF PageOK, MadeGrows, Tokens
  <1>4. SessionOK'
    BY <1>1 DEF SessionOK, Resaved, Resaves, UrlFirst, PageOK
  <1> QED BY <1>3, <1>4

\* The API and the session are left alone, and no deletion is new or gone.
Quiet ==
    /\ SessionKept
    /\ CallsKept /\ Followers /\ DeletesStay
    /\ RowsTame

\* Such a step keeps the invariant.
LEMMA QuietOK ==
    ASSUME WorkbenchInv, Quiet
    PROVE  WorkbenchInv'
  <1>1. Grown /\ MadeGrows
    BY DEF Quiet, Grown, MadeGrows, Made, SessionKept
  <1>2. ServerOK'
    BY DEF Quiet, WorkbenchInv, ServerOK, Made, SessionKept
  <1>3. PageOK' /\ SessionOK' /\ CallsFollow'
    BY <1>1, SessionStays, CallsGoOn DEF WorkbenchInv, Quiet, SessionKept
  <1>4. CallsOK'
    BY <1>1, KeptWeakened, CallsStayOK DEF WorkbenchInv, Quiet
  <1>5. NewTokensOK' /\ RowsOK'
    BY <1>1, RowsStayOK DEF WorkbenchInv, Quiet
  <1> QED BY <1>2, <1>3, <1>4, <1>5 DEF WorkbenchInv

\* A call is kept as it is.
LEMMA SameKept ==
    ASSUME NEW c, IsCall(c)
    PROVE  Kept(c, c)
  BY DEF Kept, Weaker

\* A call that ends, and is no deletion that the page waits for.
LEMMA CallEnds ==
    ASSUME CallsOK, NEW c \in calls, c.op \notin Deletes \/ ~c.mine,
           calls' = calls \ {c}
    PROVE  CallsKept /\ Followers /\ DeletesStay
  <1>1. \A e \in calls : Kept(e, e)
    BY SameKept DEF CallsOK, CallOK
  <1>2. CallsKept
    BY <1>1 DEF CallsKept
  <1>3. Followers
    BY <1>1 DEF Followers, Kept
  <1>4. DeletesStay
    BY <1>1 DEF DeletesStay
  <1> QED BY <1>2, <1>3, <1>4

\* Calls that are sent.
LEMMA CallsSent ==
    ASSUME CallsOK, NEW more, calls' = calls \cup more, UNCHANGED made,
           \A e \in more : Harmless(e) /\ e.op \notin SessionCalls
    PROVE  CallsKept /\ Followers /\ DeletesStay
  <1>1. \A e \in calls : Kept(e, e)
    BY SameKept DEF CallsOK, CallOK
  <1>2. \A e \in more : Harmless(e)'
    BY DEF Harmless, JustSent, Creds, Tokens, Made
  <1>3. CallsKept
    BY <1>1, <1>2 DEF CallsKept
  <1>4. Followers
    BY <1>1 DEF Followers, Kept
  <1>5. DeletesStay
    BY <1>1 DEF DeletesStay
  <1> QED BY <1>3, <1>4, <1>5

\* Rows of the page that stay, or of which some go.
LEMMA SameRows ==
    ASSUME RowsOK, localKeys' \subseteq localKeys
    PROVE  RowsTame
  BY DEF RowsOK, RowOK, RowsTame, Tamer

\* The credentials that a page sends.
LEMMA CredsOK ==
    ASSUME PageOK, NEW user \in Users, NEW token \in Tokens
    PROVE  /\ Credentials(user, token, cookie) \in Creds
           /\ getAuthHeaders \in Creds /\ getRequestHeaders \in Creds
           /\ Blank \in Creds
           /\ storage.user \in Users /\ storage.token \in Tokens /\ account \in Users
           /\ UrlFirst(storage.token) \in Tokens
  BY DEF PageOK, Creds, Users, Tokens, Credentials, getAuthHeaders,
         getRequestHeaders, Blank, UrlFirst

\* A call that is sent and deletes nothing.
LEMMA CallAsked ==
    ASSUME NEW op, op \notin Deletes, NEW arg, op \in Saves => arg \in Tenants,
           NEW creds \in Creds
    PROVE  Harmless(Call(op, arg, creds)) /\ Call(op, arg, creds).op = op
  <1> DEFINE e == Call(op, arg, creds)
  <1>1. /\ IsCall(e) /\ e.op = op /\ e.arg = arg /\ e.creds = creds
        /\ e.at = "sent" /\ ~e.ok /\ e.ids = {} /\ e.id = NONE /\ e.live /\ e.mine
    BY CallFields
  <1> HIDE DEF e
  <1>2. Harmless(e) /\ e.op = op
    BY <1>1 DEF Harmless, JustSent
  <1> QED BY <1>2 DEF e

-----------------------------------------------------------------------------
(* What the user does without consequence for the session or for a token.  *)

\* One more call, that deletes nothing and is not about the session.
LEMMA CallSent ==
    ASSUME WorkbenchInv, NEW op, op \notin Deletes \cup SessionCalls, NEW arg,
           op \in Saves => arg \in Tenants, NEW creds \in Creds,
           calls' = calls \cup {Call(op, arg, creds)},
           SessionKept,
           localKeys' \subseteq localKeys
    PROVE  Quiet
  <1> DEFINE e == Call(op, arg, creds)
  <1>1. Harmless(e) /\ e.op = op
    BY CallAsked
  <1> HIDE DEF e
  <1>2. calls' = calls \cup {e}
    BY DEF e
  <1> DEFINE more == {e}
  <1>3. \A x \in more : Harmless(x) /\ x.op \notin SessionCalls
    BY <1>1
  <1>4. calls' = calls \cup more /\ UNCHANGED made /\ CallsOK
    BY <1>2 DEF WorkbenchInv, SessionKept
  <1> HIDE DEF more
  <1>5. CallsKept /\ Followers /\ DeletesStay
    BY <1>3, <1>4, CallsSent
  <1>6. RowsTame
    BY SameRows DEF WorkbenchInv
  <1> QED BY <1>5, <1>6 DEF Quiet

\* The modal's sign-in, the timer, and what the user does to keys.
LEMMA PoolQuiet ==
    ASSUME WorkbenchInv,
           \/ \E u \in Tenants : GoogleSignIn(u)
           \/ \E k \in Keys : AddKey(k)
           \/ \E k \in Keys \cup Commons : deleteKey(k)
           \/ Poll
    PROVE  Quiet
  <1>1. PageOK
    BY DEF WorkbenchInv
  <1>2. CASE \E u \in Tenants : GoogleSignIn(u)
    <2>1. PICK u \in Tenants : GoogleSignIn(u)
      BY <1>2
    <2> QED BY <1>1, <2>1, CallSent, CredsOK
            DEF GoogleSignIn, server, page, lists, Deletes, SessionCalls, Users, Tokens,
                SessionKept, Resaved
  <1>3. CASE \E k \in Keys : AddKey(k)
    <2>1. PICK k \in Keys : AddKey(k)
      BY <1>3
    <2> QED BY <1>1, <2>1, CallSent, CredsOK
            DEF AddKey, server, others, lists, Deletes, Saves, SessionCalls, Users, Tokens,
                SessionKept, Resaved
  <1>4. CASE \E k \in Keys \cup Commons : deleteKey(k)
    <2>1. PICK k \in Keys \cup Commons : deleteKey(k)
      BY <1>4
    <2> QED BY <1>1, <2>1, CallSent, CredsOK
            DEF deleteKey, server, others, lists, Deletes, Saves, SessionCalls, Users, Tokens,
                SessionKept, Resaved
  <1>5. CASE Poll
    BY <1>1, <1>5, CallSent, CredsOK
    DEF Poll, Load, server, others, lists, Deletes, Saves, SessionCalls, Users, Tokens,
        SessionKept, Resaved
  <1> QED BY <1>2, <1>3, <1>4, <1>5

\* The switch of the timer changes nothing that the invariant speaks of.
LEMMA ToggleQuiet ==
    ASSUME WorkbenchInv, ToggleAutoRefresh
    PROVE  Quiet
  <1>1. /\ SessionKept
        /\ UNCHANGED <<calls, localKeys>>
    BY DEF ToggleAutoRefresh, server, lists, SessionKept, Resaved
  <1>2. CallsKept /\ Followers /\ DeletesStay
    BY <1>1, SameKept DEF WorkbenchInv, CallsOK, CallOK, CallsKept, Followers, DeletesStay, Kept
  <1> QED BY <1>1, <1>2, SameRows DEF Quiet, WorkbenchInv

\* The calls of the Workbench, with which it begins and that its forms make.
LEMMA BenchQuiet ==
    ASSUME WorkbenchInv,
           \/ OpenWorkbench \/ handleCreateNewProject
           \/ \E p \in Projects \cup {FALLBACK} :
                 \/ handleCreateNewKey(p) \/ handleRotateProjectKey(p)
                 \/ handleDeleteProject_(p)
    PROVE  Quiet
  <1>1. PageOK /\ CallsOK /\ RowsOK
    BY DEF WorkbenchInv
  <1>2. ASSUME NEW op \in {"newToken", "rotate", "dropProject", "newProject"}, NEW arg,
               Asks(op, arg)
        PROVE  Quiet
    BY <1>1, <1>2, CallSent, CredsOK
    DEF Asks, server, page, lists, Deletes, Saves, SessionCalls, Users, Tokens,
        SessionKept, Resaved
  <1>3. CASE OpenWorkbench
    <2> PICK creds : creds = Credentials(account, storage'.token, cookie)
      OBVIOUS
    <2> DEFINE more == {Call(op, NONE, creds) : op \in ListCalls}
    <2>1. /\ SessionKept
          /\ localKeys' = {} /\ calls' = calls \cup more
      BY <1>3 DEF OpenWorkbench, server, SessionKept, Resaved
    <2>2. creds \in Creds
      <3>1. storage'.token \in Tokens
        BY <1>1, <2>1 DEF SessionKept, Resaved, Resaves, UrlFirst, PageOK
      <3> QED BY <1>1, <3>1 DEF PageOK, Creds, Credentials, Tokens
    <2>3. \A op \in ListCalls : /\ Harmless(Call(op, NONE, creds))
                                  /\ Call(op, NONE, creds).op = op
                                  /\ op \notin SessionCalls
      BY <2>2, CallAsked DEF ListCalls, Deletes, Saves, SessionCalls
    <2>4. \A e \in more : Harmless(e) /\ e.op \notin SessionCalls
      BY <2>3
    <2> HIDE DEF more
    <2>5. CallsKept /\ Followers /\ DeletesStay
      BY <1>1, <2>1, <2>4, CallsSent DEF SessionKept
    <2> QED BY <1>1, <2>1, <2>5, SameRows DEF Quiet
  <1>4. CASE \E p \in Projects \cup {FALLBACK} :
                 \/ handleCreateNewKey(p) \/ handleRotateProjectKey(p)
                 \/ handleDeleteProject_(p)
    BY <1>2, <1>4 DEF handleCreateNewKey, handleRotateProjectKey, handleDeleteProject_
  <1>5. CASE handleCreateNewProject
    BY <1>2, <1>5 DEF handleCreateNewProject
  <1> QED BY <1>3, <1>4, <1>5

\* A row that is switched on again is marked as such.
LEMMA ToggleKeyQuiet ==
    ASSUME WorkbenchInv, NEW r \in localKeys, handleToggleKey(r)
    PROVE  Quiet
  <1> DEFINE q == [r EXCEPT !.revoked = FALSE, !.back = TRUE]
  <1>1. /\ SessionKept /\ UNCHANGED calls
        /\ localKeys' = (localKeys \ {r}) \cup {q}
    BY DEF handleToggleKey, server, page, SessionKept, Resaved
  <1>2. IsRow(r) /\ \A s \in localKeys : Tamer(s, s)
    BY DEF WorkbenchInv, RowsOK, RowOK, Tamer
  <1>3. Tamer(q, r)
    <2>1. ASSUME NEW yes, NEW no, NEW x, x = [r EXCEPT !.revoked = no, !.back = yes]
          PROVE  IsRow(x) /\ x.id = r.id /\ x.shown = r.shown /\ x.back = yes
      BY <1>2, <2>1 DEF IsRow
    <2>2. IsRow(q) /\ q.id = r.id /\ q.shown = r.shown /\ q.back = TRUE
      BY <2>1
    <2> HIDE DEF q
    <2> QED BY <2>2 DEF Tamer
  <1> HIDE DEF q
  <1>4. RowsTame
    BY <1>1, <1>2, <1>3 DEF RowsTame
  <1>5. CallsKept /\ Followers /\ DeletesStay
    BY <1>1, SameKept DEF WorkbenchInv, CallsOK, CallOK, CallsKept, Followers, DeletesStay, Kept
  <1> QED BY <1>1, <1>4, <1>5 DEF Quiet, SessionKept

-----------------------------------------------------------------------------
(* Answers without such a consequence.                                     *)

\* A call that ends with the rows it leaves.
LEMMA EndQuiet ==
    ASSUME WorkbenchInv, NEW c \in calls, c.op \notin Deletes \/ ~c.mine,
           calls' = calls \ {c}, RowsTame,
           SessionKept
    PROVE  Quiet
  BY CallEnds DEF WorkbenchInv, Quiet

\* Answers that nobody waits for, and those about provider keys.
LEMMA PoolAnswerQuiet ==
    ASSUME WorkbenchInv, NEW c \in calls,
           Discard(c) \/ Loaded(c) \/ Added(c) \/ Removed(c)
    PROVE  Quiet
  <1>1. /\ SessionKept
        /\ UNCHANGED localKeys /\ calls' = calls \ {c}
        /\ c.op \notin Deletes \/ ~c.mine
    BY DEF Discard, Loaded, Added, Removed, server, page, lists, Deletes, SessionKept, Resaved
  <1>2. RowsTame
    BY <1>1, SameRows DEF WorkbenchInv
  <1> QED BY <1>1, <1>2, EndQuiet

\* A row that a list brings.
LEMMA ListedRow ==
    ASSUME NEW s, NEW r, r = Row(s, NONE, FALSE)
    PROVE  IsRow(r) /\ r.id = s /\ ~r.shown
  BY DEF IsRow, Row

\* The bodies of the Workbench's lists.
LEMMA ListReadQuiet ==
    ASSUME WorkbenchInv, NEW c \in calls, ListRead(c)
    PROVE  Quiet
  <1>1. /\ SessionKept
        /\ calls' = calls \ {c} /\ c.op \notin Deletes
        /\ \/ localKeys' = localKeys
           \/ c.op = "tokens" /\ localKeys' = {Row(s, NONE, FALSE) : s \in c.ids}
    BY DEF ListRead, server, page, ListCalls, Deletes, SessionKept, Resaved
  <1>2. CASE localKeys' = localKeys
    BY <1>1, <1>2, SameRows, EndQuiet DEF WorkbenchInv
  <1>3. CASE c.op = "tokens" /\ localKeys' = {Row(s, NONE, FALSE) : s \in c.ids}
    <2>1. c.ids \subseteq Made
      BY <1>3 DEF WorkbenchInv, CallsOK, CallOK
    <2>2. ASSUME NEW r \in localKeys' PROVE IsRow(r) /\ r.id \in Made /\ ~r.shown
      <3>1. PICK s \in c.ids : r = Row(s, NONE, FALSE)
        BY <1>3
      <3> QED BY <2>1, <3>1, ListedRow
    <2>3. RowsTame
      BY <2>2 DEF RowsTame
    <2> QED BY <1>1, <2>3, EndQuiet
  <1> QED BY <1>1, <1>2, <1>3

\* Their headers: the call goes on with its body, or ends.
LEMMA ListArrivesQuiet ==
    ASSUME WorkbenchInv, NEW c \in calls, ListArrives(c)
    PROVE  WorkbenchInv'
  <1> DEFINE e == [c EXCEPT !.at = "body"]
  <1>1. /\ SessionKept
        /\ calls' = calls \ {c} \/ calls' = (calls \ {c}) \cup {e}
        /\ localKeys' \subseteq localKeys
        /\ c.op \in ListCalls
    BY DEF ListArrives, server, page, SessionKept, Resaved
  <1>2. CallOK(c)
    BY DEF WorkbenchInv, CallsOK
  <1>3. /\ IsCall(e) /\ e.op = c.op /\ e.creds = c.creds /\ e.ids = c.ids
    BY <1>2 DEF CallOK, IsCall
  <1> HIDE DEF e
  <1>4. CASE calls' = calls \ {c}
    BY <1>1, <1>4, SameRows, EndQuiet, QuietOK DEF WorkbenchInv, ListCalls, Deletes
  <1>5. CASE calls' = (calls \ {c}) \cup {e}
    <2> USE <1>1, <1>5
    <2>1. e.op \notin Deletes \cup Saves \cup {"session", "newToken", "sync", "resync"}
      BY <1>3 DEF Deletes, Saves, ListCalls
    <2>2. MadeGrows
      BY DEF MadeGrows, Made, SessionKept
    <2>3. ServerOK' /\ PageOK' /\ SessionOK'
      BY <2>2, SessionStays DEF WorkbenchInv, ServerOK, Made, SessionKept
    <2>4. CallsOK'
      <3>1. CallOK(e)'
        BY <1>2, <1>3, <2>1 DEF CallOK, Creds, Tokens, Made, SessionKept
      <3>2. ASSUME NEW d \in calls PROVE CallOK(d)'
        <4>1. CallOK(d) /\ Weaker(d, d)
          BY SameKept DEF WorkbenchInv, CallsOK, CallOK, Kept
        <4> QED BY <2>2, <4>1, WeakerOK
      <3> QED BY <3>1, <3>2 DEF CallsOK
    <2>5. CallsFollow'
      <3>1. Sender' = Sender /\ getAuthHeaders' = getAuthHeaders /\ storage'.user = storage.user
        BY <2>2, SenderStays DEF WorkbenchInv, SessionKept
      <3> QED BY <2>1, <3>1 DEF WorkbenchInv, CallsFollow, Follows
    <2>6. NewTokensOK'
      BY <2>1 DEF WorkbenchInv, NewTokensOK, NewTokenOK, Undoes, SessionKept
    <2>7. RowsOK'
      <3> SUFFICES ASSUME NEW r \in localKeys' PROVE RowOK(r)'
        BY DEF RowsOK
      <3>1. RowOK(r)
        BY DEF WorkbenchInv, RowsOK
      <3>2. c.op \notin Deletes
        BY DEF Deletes, ListCalls
      <3> QED BY <2>1, <3>1, <3>2 DEF RowOK, Undoes, Made, SessionKept
    <2> QED BY <2>3, <2>4, <2>5, <2>6, <2>7 DEF WorkbenchInv
  <1> QED BY <1>1, <1>4, <1>5

-----------------------------------------------------------------------------
(* Tokens that are shown, revoked and deleted.                             *)

\* A call that ends, with what the rows are then.
LEMMA EndOK ==
    ASSUME WorkbenchInv, NEW c \in calls, calls' = calls \ {c}, RowsOK',
           SessionKept
    PROVE  WorkbenchInv'
  <1>1. MadeGrows /\ ServerOK'
    BY DEF WorkbenchInv, ServerOK, MadeGrows, Made, SessionKept
  <1>2. \A e \in calls : Weaker(e, e)
    BY SameKept DEF WorkbenchInv, CallsOK, CallOK, Kept
  <1>3. Followers /\ CallsWeakened
    BY <1>2 DEF Followers, CallsWeakened
  <1>4. CallsOK' /\ PageOK' /\ SessionOK' /\ CallsFollow'
    BY <1>1, <1>3, CallsStayOK, SessionStays, CallsGoOn DEF WorkbenchInv, SessionKept
  <1>5. NewTokensOK'
    BY DEF WorkbenchInv, NewTokensOK, NewTokenOK, Undoes, SessionKept
  <1> QED BY <1>1, <1>4, <1>5 DEF WorkbenchInv

\* A new token is shown.
LEMMA CreatedOK ==
    ASSUME WorkbenchInv, NEW c \in calls, c.mine, Created(c), calls' = calls \ {c},
           SessionKept
    PROVE  WorkbenchInv'
  <1> DEFINE r == [Row(c.id, c.arg, TRUE) EXCEPT !.back = ~c.live]
  <1>1. localKeys' = localKeys \cup {r} /\ c.op = "newToken" /\ c.ok
    BY DEF Created
  <1>2. IsRow(r) /\ r.id = c.id /\ (~r.back => c.live)
    <2> DEFINE b == ~c.live
    <2>1. r = [Row(c.id, c.arg, TRUE) EXCEPT !.back = b]
      OBVIOUS
    <2> HIDE DEF b, r
    <2>2. IsRow(r) /\ r.id = c.id /\ r.back = b
      BY <2>1 DEF IsRow, Row
    <2> QED BY <2>2 DEF b
  <1> HIDE DEF r
  <1>3. CallOK(c) /\ NewTokenOK(c)
    BY DEF WorkbenchInv, CallsOK, NewTokensOK
  <1>4. RowOK(r)'
    <2>1. r.id \in Made' /\ (~r.back => auth_tokens'[r.id] # NONE)
      BY <1>1, <1>2, <1>3 DEF CallOK, NewTokenOK, Made, SessionKept
    <2>2. ASSUME NEW d \in calls', Undoes(d, r) PROVE d.mine
      BY <1>1, <1>2, <1>3, <2>2 DEF NewTokenOK, Undoes
    <2> QED BY <1>2, <2>1, <2>2 DEF RowOK, Undoes
  <1>5. ASSUME NEW q \in localKeys PROVE RowOK(q)'
    <2>1. RowOK(q)
      BY DEF WorkbenchInv, RowsOK
    <2>2. \A d : Undoes(d, q) => d # c
      BY <1>1 DEF Undoes, Deletes
    <2> QED BY <2>1, <2>2 DEF RowOK, Undoes, Made, SessionKept
  <1> QED BY <1>1, <1>4, <1>5, EndOK DEF RowsOK

\* A row that its deletion leaves.
LEMMA SurvivorOK ==
    ASSUME NEW c \in calls, calls' = calls \ {c}, UNCHANGED <<auth_tokens, made>>,
           NEW q, RowOK(q), q.id # c.arg
    PROVE  RowOK(q)'
  <1>1. \A d : Undoes(d, q) => d # c
    BY DEF Undoes
  <1> QED BY <1>1 DEF RowOK, Undoes, Made

\* A row that is shown as revoked.
LEMMA RevokedRow ==
    ASSUME NEW q, RowOK(q), NEW yes, NEW r, r = [q EXCEPT !.revoked = yes]
    PROVE  IsRow(r) /\ r.id = q.id /\ r.revoked = yes /\ r.shown = q.shown
  BY DEF IsRow, RowOK

\* A token is shown as revoked, or not at all.
LEMMA DeletedOK ==
    ASSUME WorkbenchInv, NEW c \in calls, Revoked(c) \/ Dropped(c), calls' = calls \ {c},
           SessionKept
    PROVE  WorkbenchInv'
  <1>1. \A q \in localKeys : RowOK(q)
    BY DEF WorkbenchInv, RowsOK
  <1>2. CASE Revoked(c)
    <2> SUFFICES ASSUME NEW r \in localKeys' PROVE RowOK(r)'
      BY EndOK DEF RowsOK
    <2>1. PICK q \in localKeys :
              r = IF q.id = c.arg THEN [q EXCEPT !.revoked = TRUE] ELSE q
      BY <1>2 DEF Revoked
    <2>2. CASE q.id # c.arg
      BY <1>1, <2>1, <2>2, SurvivorOK DEF SessionKept
    <2>3. CASE q.id = c.arg
      <3>1. IsRow(r) /\ r.id = q.id /\ r.revoked = TRUE /\ r.shown = q.shown
        BY <1>1, <2>1, <2>3, RevokedRow
      <3>2. RowOK(q)
        BY <1>1
      <3> QED BY <3>1, <3>2 DEF RowOK, Undoes, Made, SessionKept
    <2> QED BY <2>2, <2>3
  <1>3. CASE Dropped(c)
    <2>1. \A q \in localKeys' : q \in localKeys /\ q.id # c.arg
      BY <1>3 DEF Dropped
    <2>2. RowsOK'
      BY <1>1, <2>1, SurvivorOK DEF RowsOK, SessionKept
    <2> QED BY <2>2, EndOK
  <1> QED BY <1>2, <1>3

\* What the Workbench does with the answers to what it asked.
LEMMA ChangedOK ==
    ASSUME WorkbenchInv, NEW c \in calls, c.mine, Changed(c)
    PROVE  WorkbenchInv'
  <1>1. /\ SessionKept
        /\ calls' = calls \ {c}
    BY DEF Changed, server, page, SessionKept, Resaved
  <1>2. CASE Created(c)
    BY <1>1, <1>2, CreatedOK
  <1>3. CASE Revoked(c) \/ Dropped(c)
    BY <1>1, <1>3, DeletedOK
  <1>4. CASE ~(Created(c) \/ Revoked(c) \/ Dropped(c))
    <2>1. localKeys' \subseteq localKeys /\ c.op \notin Deletes
      BY <1>4 DEF Changed, Rotated, ProjectDropped, ProjectCreated, lists, Deletes
    <2>2. RowsTame
      BY <2>1, SameRows DEF WorkbenchInv
    <2> QED BY <1>1, <2>1, <2>2, EndQuiet, QuietOK
  <1> QED BY <1>2, <1>3, <1>4

\* A deletion is asked for: a token that is still to be shown is known to be
\* deleted from then on.
LEMMA AsksToDeleteOK ==
    ASSUME WorkbenchInv, NEW op \in Deletes, NEW s \in Made, AsksToDelete(op, s)
    PROVE  WorkbenchInv'
  <1> PICK new : new = Call(op, s, getRequestHeaders)
    OBVIOUS
  <1> DEFINE rest == {[c EXCEPT !.live = @ /\ c.id # s] : c \in calls}
  <1>1. /\ UNCHANGED <<auth_tokens, made, storage, cookie, url, account, session, localKeys>>
        /\ Resaved
        /\ calls' = rest \cup {new}
    BY DEF AsksToDelete, server, page, lists, Resaved
  <1>2. /\ IsCall(new) /\ new.op = op /\ new.arg = s /\ new.creds = getRequestHeaders
        /\ new.at = "sent" /\ ~new.ok /\ new.ids = {} /\ new.id = NONE /\ new.live /\ new.mine
    BY CallFields
  <1>3. ASSUME NEW c \in calls, NEW e, e = [c EXCEPT !.live = @ /\ c.id # s]
        PROVE  Kept(e, c) /\ (e.live => e.id # s)
    <2> DEFINE v == c.live /\ c.id # s
    <2>1. e = [c EXCEPT !.live = v] /\ IsCall(c)
      BY <1>3 DEF WorkbenchInv, CallsOK, CallOK
    <2> HIDE DEF v
    <2>2. /\ IsCall(e) /\ e.live = v /\ e.op = c.op /\ e.arg = c.arg /\ e.creds = c.creds
          /\ e.at = c.at /\ e.ok = c.ok /\ e.ids = c.ids /\ e.id = c.id
          /\ e.known = c.known /\ e.mine = c.mine
      BY <2>1 DEF IsCall
    <2>3. (e.live => c.live) /\ (e.live => c.id # s)
      BY <2>2 DEF v
    <2> QED BY <2>2, <2>3 DEF Kept, Weaker
  <1>4. \A e \in rest : \E c \in calls : Kept(e, c) /\ (e.live => e.id # s)
    BY <1>3
  <1>5. \A c \in calls : \E e \in rest : Kept(e, c)
    BY <1>3
  <1> HIDE DEF rest
  <1>6. MadeGrows /\ ServerOK'
    BY <1>1 DEF WorkbenchInv, ServerOK, MadeGrows, Made
  <1>7. PageOK' /\ SessionOK'
    BY <1>1, <1>6, SessionStays DEF WorkbenchInv
  <1>8. CallsFollow'
    <2>1. Followers
      BY <1>1, <1>2, <1>4 DEF Followers, Kept, Deletes, SessionCalls
    <2> QED BY <1>1, <1>6, <2>1, CallsGoOn DEF WorkbenchInv
  <1>9. CallsOK'
    <2>1. getRequestHeaders \in Creds
      BY CredsOK DEF WorkbenchInv, Users, Tokens
    <2>2. JustSent(new)'
      BY <1>1, <1>2, <2>1 DEF JustSent, Creds, Tokens, Made, Deletes, Saves
    <2>3. \A e \in rest : CallOK(e)'
      BY <1>4, <1>6, WeakerOK DEF WorkbenchInv, CallsOK, Kept
    <2> QED BY <1>1, <2>2, <2>3, AskedOK DEF CallsOK
  <1>10. NewTokensOK'
    <2> SUFFICES ASSUME NEW e \in calls', e.op = "newToken", e.ok
                 PROVE  /\ e.live => auth_tokens'[e.id] # NONE
                        /\ \A d \in calls' : Undoes(d, e) => ~e.live /\ (e.mine => d.mine)
      BY DEF NewTokensOK, NewTokenOK, Undoes
    <2>1. PICK c \in calls : Kept(e, c) /\ (e.live => e.id # s)
      BY <1>1, <1>2, <1>4
    <2>2. NewTokenOK(c) /\ c.op = "newToken" /\ c.ok /\ e.id = c.id
      BY <2>1 DEF WorkbenchInv, NewTokensOK, Kept, Weaker
    <2>3. e.live => auth_tokens'[e.id] # NONE
      BY <1>1, <2>1, <2>2 DEF NewTokenOK, Kept, Weaker
    <2>4. ASSUME NEW d \in rest, Undoes(d, e) PROVE ~e.live /\ (e.mine => d.mine)
      <3>1. PICK b \in calls : Kept(d, b)
        BY <1>4
      <3>2. Undoes(b, c)
        BY <2>2, <2>4, <3>1 DEF Kept, Weaker, Undoes
      <3> QED BY <2>1, <2>2, <3>1, <3>2 DEF NewTokenOK, Kept, Weaker
    <2>5. Undoes(new, e) => ~e.live /\ (e.mine => new.mine)
      BY <1>2, <2>1 DEF Undoes
    <2> QED BY <1>1, <2>3, <2>4, <2>5
  <1>11. RowsOK'
    <2> SUFFICES ASSUME NEW r \in localKeys PROVE RowOK(r)'
      BY <1>1 DEF RowsOK
    <2>1. RowOK(r)
      BY DEF WorkbenchInv, RowsOK
    <2>2. ASSUME r.shown, NEW d \in calls', Undoes(d, r) PROVE d.mine
      <3>1. CASE d \in rest
        <4>1. PICK b \in calls : Kept(d, b)
          BY <1>4, <3>1
        <4>2. Undoes(b, r)
          BY <2>2, <4>1 DEF Kept, Weaker, Undoes
        <4> QED BY <2>1, <2>2, <4>1, <4>2 DEF RowOK, Kept
      <3> QED BY <1>1, <1>2, <3>1
    <2>3. ASSUME NEW d \in calls, Undoes(d, r) PROVE \E e \in calls' : Undoes(e, r)
      <3>1. PICK e \in rest : Kept(e, d)
        BY <1>5
      <3> QED BY <1>1, <2>3, <3>1 DEF Undoes, Kept, Weaker
    <2> QED BY <1>1, <2>1, <2>2, <2>3 DEF RowOK, Undoes, Made
  <1> QED BY <1>6, <1>7, <1>8, <1>9, <1>10, <1>11 DEF WorkbenchInv

\* The Workbench's two ways to delete a token.
LEMMA DeleteTokenOK ==
    ASSUME WorkbenchInv, NEW r \in localKeys, handleRevokeKey(r) \/ handleDeleteToken_(r)
    PROVE  WorkbenchInv'
  <1>1. r.id \in Made
    BY DEF WorkbenchInv, RowsOK, RowOK
  <1> QED BY <1>1, AsksToDeleteOK DEF handleRevokeKey, handleDeleteToken_, Deletes

-----------------------------------------------------------------------------
(* Pages and sessions.                                                     *)

\* Of the calls under way none is new but harmless ones, and no other is still
\* to show a token.
CallsGone ==
    \A e \in calls' :
        \/ \E c \in calls : Weaker(e, c) /\ ~(e.mine /\ e.op = "newToken")
        \/ Harmless(e)'

\* A page, or the Workbench, that is left shows no token.
LEMMA RowsGone ==
    ASSUME Grown, CallsOK, NewTokensOK, CallsGone, localKeys' = {}
    PROVE  CallsOK' /\ NewTokensOK' /\ RowsOK'
  <1>1. CallsOK'
    <2>1. CallsWeakened
      BY DEF CallsGone, CallsWeakened
    <2> QED BY <2>1, CallsStayOK DEF Grown
  <1>2. NewTokensOK'
    <2> SUFFICES ASSUME NEW e \in calls', e.op = "newToken", e.ok
                 PROVE  /\ e.live => auth_tokens'[e.id] # NONE
                        /\ \A d \in calls' : Undoes(d, e) => ~e.live /\ (e.mine => d.mine)
      BY DEF NewTokensOK, NewTokenOK, Undoes
    <2>1. PICK c \in calls : Weaker(e, c) /\ ~(e.mine /\ e.op = "newToken")
      BY DEF CallsGone, Harmless, JustSent
    <2>2. CallOK(c) /\ NewTokenOK(c) /\ c.op = "newToken" /\ c.ok /\ e.id = c.id
      BY <2>1 DEF CallsOK, NewTokensOK, Weaker
    <2>3. e.live => auth_tokens'[e.id] # NONE
      BY <2>1, <2>2 DEF Grown, CallOK, NewTokenOK, Weaker
    <2>4. ASSUME NEW d \in calls', Undoes(d, e) PROVE ~e.live
      <3>1. PICK b \in calls : Weaker(d, b)
        BY <2>4 DEF CallsGone, Harmless, Undoes
      <3>2. Undoes(b, c)
        BY <2>2, <2>4, <3>1 DEF Weaker, Undoes
      <3> QED BY <2>1, <2>2, <3>2 DEF NewTokenOK, Weaker
    <2> QED BY <2>1, <2>3, <2>4
  <1>3. RowsOK'
    BY DEF RowsOK
  <1> QED BY <1>1, <1>2, <1>3

\* The Workbench is left.
LEMMA LeaveWorkbenchOK ==
    ASSUME WorkbenchInv, LeaveWorkbench
    PROVE  WorkbenchInv'
  <1>1. /\ SessionKept
        /\ localKeys' = {}
        /\ calls' = {[c EXCEPT !.mine = @ /\ c.op \notin WorkbenchCalls] : c \in calls}
    BY DEF LeaveWorkbench, server, SessionKept, Resaved
  <1>2. Grown /\ MadeGrows /\ ServerOK'
    BY <1>1 DEF WorkbenchInv, ServerOK, Grown, MadeGrows, Made, SessionKept
  <1>3. \A e \in calls' : \E c \in calls : Weaker(e, c) /\ ~(e.mine /\ e.op = "newToken")
    <2> SUFFICES ASSUME NEW e \in calls'
                 PROVE  \E c \in calls : Weaker(e, c) /\ ~(e.mine /\ e.op = "newToken")
      OBVIOUS
    <2>1. PICK c \in calls : e = [c EXCEPT !.mine = @ /\ c.op \notin WorkbenchCalls]
      BY <1>1
    <2>2. IsCall(c)
      BY DEF WorkbenchInv, CallsOK, CallOK
    <2>3. Weaker(e, c) /\ (e.mine => e.op \notin WorkbenchCalls)
      BY <2>1, <2>2, LeftFields
    <2> QED BY <2>3 DEF WorkbenchCalls
  <1>4. Followers /\ CallsGone
    BY <1>3 DEF Followers, CallsGone
  <1>5. CallsOK' /\ NewTokensOK' /\ RowsOK'
    BY <1>1, <1>2, <1>4, RowsGone DEF WorkbenchInv
  <1>6. PageOK' /\ SessionOK' /\ CallsFollow'
    BY <1>1, <1>2, <1>4, SessionStays, CallsGoOn DEF WorkbenchInv, SessionKept
  <1> QED BY <1>2, <1>5, <1>6 DEF WorkbenchInv

\* A page that is opened, with a token in its address or without.
LEMMA OnMountOK ==
    ASSUME WorkbenchInv, Grown, ServerOK', SessionOK',
           NEW address, address \in Tokens', OnMount(address)
    PROVE  WorkbenchInv'
  <1> PICK user : user = storage.user
    OBVIOUS
  <1> PICK token : token = IF address # NONE THEN address ELSE storage.token
    OBVIOUS
  <1> PICK jar : jar = cookie
    OBVIOUS
  <1>0. /\ user \in Users /\ token \in Tokens'
        /\ jar \in [token : Tokens', httpOnly : BOOLEAN]
    BY DEF WorkbenchInv, PageOK, Tokens, Grown, MadeGrows
  <1> PICK creds : creds = Credentials(user, token, jar)
    OBVIOUS
  <1> PICK me : me = Call("session", NONE, creds)
    OBVIOUS
  <1> PICK load : load = Call("load", NONE, creds)
    OBVIOUS
  <1> PICK again : again = Call("resync", user, Blank)
    OBVIOUS
  <1> DEFINE old == {[c EXCEPT !.mine = FALSE] : c \in {d \in calls : d.at = "sent"}}
  <1>1. /\ storage' = [user |-> user, token |-> token] /\ cookie' = jar /\ account' = user
        /\ url' = address /\ localKeys' = {}
        /\ calls' = old \cup {me, load}
                        \cup (IF user # NONE /\ storage.token = NONE THEN {again} ELSE {})
    BY DEF OnMount, Load
  <1>2. ASSUME NEW e \in old PROVE \E c \in calls : Weaker(e, c) /\ ~e.mine
    <2>1. PICK c \in calls : e = [c EXCEPT !.mine = FALSE]
      OBVIOUS
    <2>2. IsCall(c)
      BY DEF WorkbenchInv, CallsOK, CallOK
    <2> QED BY <2>1, <2>2, GoneFields
  <1> HIDE DEF old
  <1>3. creds \in Creds' /\ Blank \in Creds'
    BY <1>0 DEF Credentials, Creds, Blank, Users, Tokens
  <1>4. /\ IsCall(me) /\ me.op = "session" /\ me.creds = creds
        /\ me.at = "sent" /\ ~me.ok /\ me.ids = {} /\ me.id = NONE /\ me.live /\ me.mine
    BY CallFields
  <1>5. /\ IsCall(load) /\ load.op = "load" /\ load.creds = creds
        /\ load.at = "sent" /\ ~load.ok /\ load.ids = {} /\ load.id = NONE
        /\ load.live /\ load.mine
    BY CallFields
  <1>6. /\ IsCall(again) /\ again.op = "resync" /\ again.arg = user /\ again.creds = Blank
        /\ again.at = "sent" /\ ~again.ok /\ again.ids = {} /\ again.id = NONE
        /\ again.live /\ again.mine
    BY CallFields
  <1>7. Harmless(me)' /\ Harmless(load)'
    BY <1>3, <1>4, <1>5 DEF Harmless, JustSent, Deletes, Saves
  <1>8. user # NONE => Harmless(again)'
    BY <1>0, <1>3, <1>6 DEF Harmless, JustSent, Deletes, Saves, Users
  <1>9. CallsOK' /\ NewTokensOK' /\ RowsOK'
    <2>1. CallsGone
      BY <1>1, <1>2, <1>7, <1>8 DEF CallsGone
    <2> QED BY <1>1, <2>1, RowsGone DEF WorkbenchInv
  <1>10. PageOK'
    BY <1>0, <1>1 DEF PageOK, Users, Tokens
  <1>11. CallsFollow'
    <2> SUFFICES ASSUME NEW e \in calls' PROVE Follows(e)'
      BY DEF CallsFollow
    <2>1. CASE e \in old
      BY <1>2, <2>1 DEF Follows
    <2>2. CASE e = me
      <3>1. getAuthHeaders' = creds
        BY <1>1 DEF getAuthHeaders, UrlFirst, Credentials
      <3> QED BY <1>1, <1>4, <2>2, <3>1 DEF Follows
    <2>3. CASE e = load
      BY <1>5, <2>3 DEF Follows
    <2>4. CASE e = again
      BY <1>1, <1>6, <2>4 DEF Follows
    <2> QED BY <1>1, <2>1, <2>2, <2>3, <2>4
  <1> QED BY <1>9, <1>10, <1>11 DEF WorkbenchInv

\* A reload.
LEMMA ReloadOK ==
    ASSUME WorkbenchInv, Reload
    PROVE  WorkbenchInv'
  <1>1. /\ UNCHANGED <<auth_tokens, made>>
        /\ OnMount(url)
        /\ session' = "pending" \/ session' = session
    BY DEF Reload, server
  <1>2. PageOK
    BY DEF WorkbenchInv
  <1>3. Grown /\ ServerOK'
    BY <1>1 DEF WorkbenchInv, ServerOK, Grown, MadeGrows, Made
  <1>4. UNCHANGED <<cookie, url, account>> /\ Resaved
    BY <1>1, <1>2 DEF OnMount, PageOK, Resaved, Resaves, UrlFirst
  <1>5. SessionOK'
    <2>1. Sender' = Sender /\ storage'.user = storage.user
      BY <1>2, <1>3, <1>4, SenderStays DEF Grown
    <2> QED BY <1>1, <1>2, <1>4, <2>1
            DEF WorkbenchInv, SessionOK, PageOK, Resaved, Resaves, UrlFirst
  <1>6. url \in Tokens'
    BY <1>1, <1>2 DEF PageOK, Tokens, Made
  <1> QED BY <1>1, <1>3, <1>5, <1>6, OnMountOK

\* A new token is one that was not made before.
LEMMA NewTokenMade ==
    ASSUME ServerOK, NEW t \in Tenants, NEW stored, NewToken(t, stored)
    PROVE  /\ Grown /\ ServerOK'
           /\ NextToken \notin Made /\ NextToken \in Made'
           /\ made'[NextToken] = t
           /\ stored => auth_tokens'[NextToken] = t
  <1>1. /\ made' = Append(made, t) /\ Len(made) + 1 <= MaxTokens
        /\ made \in Seq(Tenants) /\ Len(made) \in Nat /\ MaxTokens \in Nat
    BY SessionAssumption DEF NewToken, NextToken, ServerOK
  <1>2. /\ made' \in Seq(Tenants) /\ Len(made') = Len(made) + 1
        /\ made'[Len(made) + 1] = t /\ \A s \in 1..Len(made) : made'[s] = made[s]
    BY <1>1, AppendProperties
  <1>3. Made = 1..Len(made) /\ Made' = 1..(Len(made) + 1)
    BY <1>1, <1>2 DEF Made
  <1>4. /\ auth_tokens' \in [1..MaxTokens -> Users]
        /\ \A s \in 1..MaxTokens : s # Len(made) + 1 => auth_tokens'[s] = auth_tokens[s]
        /\ auth_tokens'[Len(made) + 1] \in {t, auth_tokens[Len(made) + 1]}
        /\ stored => auth_tokens'[Len(made) + 1] = t
    BY <1>1 DEF ServerOK, NewToken, NextToken, Users
  <1>5. Grown
    BY <1>1, <1>2, <1>3, <1>4 DEF Grown, MadeGrows
  <1>6. ServerOK'
    <2>1. auth_tokens[Len(made) + 1] = NONE
      BY <1>1, <1>3 DEF ServerOK, Users
    <2>2. \A s \in 1..MaxTokens : auth_tokens'[s] # NONE => s \in Made'
      BY <1>1, <1>3, <1>4 DEF ServerOK
    <2>3. \A s \in Made' : auth_tokens'[s] # NONE => made'[s] = auth_tokens'[s]
      BY <1>1, <1>2, <1>3, <1>4, <2>1 DEF ServerOK
    <2>4. Len(made') <= MaxTokens
      BY <1>1, <1>2
    <2> QED BY <1>2, <1>4, <2>2, <2>3, <2>4 DEF ServerOK
  <1> QED BY <1>2, <1>3, <1>4, <1>5, <1>6 DEF NextToken

\* Back from GitHub, with a new token.
LEMMA GithubSignInOK ==
    ASSUME WorkbenchInv, NEW u \in Tenants, GithubSignIn(u)
    PROVE  WorkbenchInv'
  <1>1. PICK stored \in BOOLEAN : NewToken(u, stored)
    BY DEF GithubSignIn, handleOAuthGithubCallback
  <1> PICK n : n = NextToken
    OBVIOUS
  <1>2. /\ OnMount(n)
        /\ session' = IF storage.user = u THEN "in" ELSE "pending"
    BY DEF GithubSignIn
  <1>3. Grown /\ ServerOK' /\ n \in Made' /\ made'[n] = u
    BY <1>1, NewTokenMade DEF WorkbenchInv
  <1>4. PageOK
    BY DEF WorkbenchInv
  <1>5. n \in Tokens'
    BY <1>3 DEF Tokens
  <1>6. n # NONE /\ u # NONE
    <2>1. n \in Nat
      BY <1>3 DEF ServerOK, Made
    <2> QED BY SessionAssumption, <2>1
  <1>7. SessionOK'
    <2>1. /\ storage' = [user |-> storage.user, token |-> n] /\ account' = storage.user
          /\ url' = n
      BY <1>2, <1>6 DEF OnMount
    <2>2. Sender' = u
      BY <1>3, <1>6, <2>1 DEF Sender, Owner, RawToken, getAuthHeaders, Credentials, UrlFirst
    <2> QED BY <1>2, <1>6, <2>1, <2>2 DEF SessionOK
  <1> QED BY <1>2, <1>3, <1>5, <1>7, OnMountOK

\* Calls that a login or logout overtakes.
LEMMA OvertakenCalls ==
    ASSUME NEW cs, \A c \in cs : IsCall(c), NEW kinds
    PROVE  /\ \A e \in Overtaken(cs, kinds) :
                  \E c \in cs : Kept(e, c) /\ (e.live => e.op \notin kinds)
           /\ \A c \in cs : \E e \in Overtaken(cs, kinds) : Kept(e, c)
  <1> DEFINE new == Overtaken(cs, kinds)
  <1>1. new = {[c EXCEPT !.live = @ /\ c.op \notin kinds] : c \in cs}
    BY DEF Overtaken
  <1>2. ASSUME NEW c \in cs, NEW e, e = [c EXCEPT !.live = @ /\ c.op \notin kinds]
        PROVE  Kept(e, c) /\ (e.live => e.op \notin kinds)
    BY <1>2, OvertakenFields
  <1> HIDE DEF new
  <1>3. \A e \in new : \E c \in cs : Kept(e, c) /\ (e.live => e.op \notin kinds)
    BY <1>1, <1>2
  <1>4. \A c \in cs : \E e \in new : Kept(e, c)
    BY <1>1, <1>2
  <1> QED BY <1>3, <1>4 DEF new

\* No call about the session is left that nothing has overtaken, except for
\* one that saves the session of the page's new user.
SessionSettled ==
    \A e \in calls' :
        \/ e.op \notin SessionCalls
        \/ ~e.live
        \/ e.op = "sync" /\ e.arg = storage'.user

\* A step that gives the page another session.
LEMMA SessionMovesOK ==
    ASSUME WorkbenchInv, UNCHANGED <<auth_tokens, made, localKeys>>,
           PageOK', SessionOK', CallsKept, DeletesStay, SessionSettled,
           \A e \in calls' : e.op = "session" => ~e.live
    PROVE  WorkbenchInv'
  <1>1. Grown /\ MadeGrows /\ ServerOK'
    BY DEF WorkbenchInv, ServerOK, Grown, MadeGrows, Made
  <1>2. CallsOK'
    BY <1>1, KeptWeakened, CallsStayOK DEF WorkbenchInv
  <1>3. NewTokensOK' /\ RowsOK'
    BY <1>1, SameRows, RowsStayOK DEF WorkbenchInv
  <1>4. CallsFollow'
    BY DEF CallsFollow, Follows, SessionSettled, SessionCalls
  <1> QED BY <1>1, <1>2, <1>3, <1>4 DEF WorkbenchInv

\* The calls after a login or a logout, and after an answer that was one's
\* session: cs are those that were under way.
LEMMA AfterLoginCalls ==
    ASSUME CallsOK, NEW cs \in SUBSET calls,
           \A c \in calls \ cs : c.op \notin Deletes,
           NEW user, NEW token, NEW jar, Credentials(user, token, jar) \in Creds',
           NEW more, \A e \in more : Harmless(e)' /\ (e.op = "sync" \/ e.op = "load"),
           \A e \in more : e.op = "sync" => e.arg = storage'.user,
           calls' = AfterLogin(cs, user, token, jar, more)
    PROVE  /\ CallsKept /\ DeletesStay /\ SessionSettled
           /\ \A e \in calls' : e.op = "session" => ~e.live
  <1> DEFINE old == Overtaken(cs, SessionCalls \cup ListCalls)
             asks == Effects(user, token, jar)
  <1>1. calls' = old \cup asks \cup more
    BY DEF AfterLogin
  <1>2. /\ \A e \in old : \E c \in cs : Kept(e, c) /\ (e.live => e.op \notin SessionCalls)
        /\ \A c \in cs : \E e \in old : Kept(e, c)
    <2>1. \A c \in cs : IsCall(c)
      BY DEF CallsOK, CallOK
    <2> DEFINE kinds == SessionCalls \cup ListCalls
    <2>2. kinds = SessionCalls \cup ListCalls
      OBVIOUS
    <2> HIDE DEF kinds
    <2>3. /\ \A e \in Overtaken(cs, kinds) :
                  \E c \in cs : Kept(e, c) /\ (e.live => e.op \notin kinds)
          /\ \A c \in cs : \E e \in Overtaken(cs, kinds) : Kept(e, c)
      BY <2>1, OvertakenCalls
    <2> QED BY <2>2, <2>3
  <1>3. ASSUME NEW e \in asks PROVE Harmless(e)' /\ e.op \in ListCalls
    <2>1. PICK op \in ListCalls : e = Call(op, NONE, Credentials(user, token, jar))
      BY DEF Effects
    <2> PICK creds : creds = Credentials(user, token, jar)
      OBVIOUS
    <2>2. /\ IsCall(e) /\ e.op = op /\ e.creds = creds
          /\ e.at = "sent" /\ ~e.ok /\ e.ids = {} /\ e.id = NONE /\ e.mine
      BY <2>1, CallFields
    <2> QED BY <2>2 DEF Harmless, JustSent, ListCalls, Deletes, Saves
  <1> HIDE DEF old, asks
  <1>4. CallsKept
    BY <1>1, <1>2, <1>3 DEF CallsKept
  <1>5. DeletesStay
    BY <1>1, <1>2 DEF DeletesStay
  <1>6. SessionSettled
    BY <1>1, <1>2, <1>3 DEF SessionSettled, ListCalls, SessionCalls, Kept, Weaker
  <1>7. \A e \in calls' : e.op = "session" => ~e.live
    BY <1>1, <1>2, <1>3 DEF ListCalls, SessionCalls, Kept, Weaker
  <1> QED BY <1>4, <1>5, <1>6, <1>7

\* A call that a step sends with credentials of the page as it is then.
LEMMA SentThen ==
    ASSUME NEW op, NEW arg, NEW creds, creds \in Creds', op \notin Deletes,
           op \in Saves => arg \in Tenants, NEW e, e = Call(op, arg, creds)
    PROVE  Harmless(e)' /\ e.op = op /\ e.arg = arg
  <1>1. /\ IsCall(e) /\ e.op = op /\ e.arg = arg /\ e.creds = creds
        /\ e.at = "sent" /\ ~e.ok /\ e.ids = {} /\ e.id = NONE /\ e.live /\ e.mine
    BY CallFields
  <1> QED BY <1>1 DEF Harmless, JustSent

\* The credentials of a page to come.
LEMMA CredsThen ==
    ASSUME NEW user \in Users, NEW token, token \in Tokens', NEW jar,
           jar \in [token : Tokens', httpOnly : BOOLEAN]
    PROVE  Credentials(user, token, jar) \in Creds' /\ Blank \in Creds'
  BY DEF Credentials, Creds, Blank, Users, Tokens

\* A logout.
LEMMA LogoutOK ==
    ASSUME WorkbenchInv, Logout
    PROVE  WorkbenchInv'
  <1> PICK jar : jar = Written(cookie, NONE)
    OBVIOUS
  <1> PICK load : load = Call("load", NONE, Credentials(NONE, url, jar))
    OBVIOUS
  <1> DEFINE more == {load}
  <1>1. /\ UNCHANGED <<auth_tokens, made, localKeys>>
        /\ storage' = [user |-> NONE, token |-> url] /\ cookie' = jar /\ account' = NONE
        /\ url' = url
        /\ session' = IF url = NONE THEN "out" ELSE "url"
        /\ calls' = AfterLogin(calls, NONE, url, jar, more)
    BY DEF Logout, Load, server, lists
  <1>2. NONE \in Users /\ url \in Tokens' /\ NONE \in Tokens' /\ jar \in [token : Tokens', httpOnly : BOOLEAN]
    BY <1>1 DEF WorkbenchInv, PageOK, Written, Users, Tokens, Made
  <1>3. PageOK' /\ SessionOK'
    BY <1>1, <1>2 DEF PageOK, SessionOK
  <1> PICK creds : creds = Credentials(NONE, url, jar)
    OBVIOUS
  <1>4. creds \in Creds' /\ load = Call("load", NONE, creds)
    BY <1>2, CredsThen
  <1>5. Harmless(load)' /\ load.op = "load"
    BY <1>4, SentThen DEF Deletes, Saves
  <1>6. \A e \in more : Harmless(e)' /\ e.op = "load"
    BY <1>5
  <1> HIDE DEF more
  <1>7. calls \in SUBSET calls /\ CallsOK /\ \A c \in calls \ calls : c.op \notin Deletes
    BY DEF WorkbenchInv
  <1>8. /\ CallsKept /\ DeletesStay /\ SessionSettled
        /\ \A e \in calls' : e.op = "session" => ~e.live
    BY <1>1, <1>4, <1>6, <1>7, AfterLoginCalls
  <1> QED BY <1>1, <1>3, <1>8, SessionMovesOK

\* A user who has signed in, with a session that was saved or without.
LEMMA SignedInOK ==
    ASSUME WorkbenchInv, NEW c \in calls, SignedIn(c)
    PROVE  WorkbenchInv'
  <1> PICK u : u = c.arg
    OBVIOUS
  <1> PICK jar : jar = Jar(c)
    OBVIOUS
  <1> PICK kept : kept = IF c.id = NONE THEN storage.token ELSE UrlFirst(c.id)
    OBVIOUS
  <1> PICK call : call = IF c.id = NONE THEN Call("sync", u, Blank) ELSE Load(u, kept, jar)
    OBVIOUS
  <1> DEFINE more == {call}
  <1>1. /\ UNCHANGED <<auth_tokens, made, localKeys>>
        /\ storage' = [user |-> u, token |-> kept] /\ cookie' = jar /\ account' = u
        /\ url' = url
        /\ session' = IF c.id = NONE THEN "pending" ELSE SignedInAs(u)
        /\ calls' = AfterLogin(calls \ {c}, u, kept, jar, more)
        /\ c.op = "signin"
    BY DEF SignedIn, SimulateLogin, server, lists
  <1>2. CallOK(c) /\ PageOK
    BY DEF WorkbenchInv, CallsOK
  <1>3. u \in Tenants /\ (c.ok \/ c.id # NONE => c.id \in Made /\ made[c.id] = u)
    BY <1>1, <1>2 DEF CallOK, Saves
  <1>4. u \in Users /\ kept \in Tokens' /\ jar \in [token : Tokens', httpOnly : BOOLEAN]
    BY <1>1, <1>2, <1>3 DEF PageOK, Jar, Users, Tokens, Made, UrlFirst
  <1>5. PageOK' /\ SessionOK'
    <2>1. PageOK'
      BY <1>1, <1>2, <1>4 DEF PageOK, Tokens, Made
    <2>2. session' = "in" => Sender' = u
      BY <1>1, <1>3 DEF Sender, Owner, RawToken, getAuthHeaders, Credentials, UrlFirst, SignedInAs
    <2>3. u # NONE
      BY SessionAssumption, <1>3
    <2> QED BY <1>1, <2>1, <2>2, <2>3 DEF SessionOK, SignedInAs
  <1> PICK creds : creds = Credentials(u, kept, jar)
    OBVIOUS
  <1> PICK blank : blank = Blank
    OBVIOUS
  <1>6. creds \in Creds' /\ blank \in Creds'
    BY <1>4, CredsThen
  <1>7. /\ Harmless(call)' /\ (call.op = "sync" \/ call.op = "load")
        /\ call.op = "sync" => call.arg = u
    <2>1. CASE c.id = NONE
      <3>1. call = Call("sync", u, blank)
        BY <2>1
      <3> QED BY <1>3, <1>6, <3>1, SentThen DEF Deletes
    <2>2. CASE c.id # NONE
      <3>1. call = Call("load", NONE, creds)
        BY <2>2 DEF Load
      <3>2. Harmless(call)' /\ call.op = "load"
        BY <1>6, <3>1, SentThen DEF Deletes, Saves
      <3> QED BY <3>2
    <2> QED BY <2>1, <2>2
  <1>8. /\ \A e \in more : Harmless(e)' /\ (e.op = "sync" \/ e.op = "load")
        /\ \A e \in more : e.op = "sync" => e.arg = storage'.user
    BY <1>1, <1>7
  <1> HIDE DEF more
  <1> DEFINE cs == calls \ {c}
  <1>9. /\ cs \in SUBSET calls /\ CallsOK /\ \A d \in calls \ cs : d.op \notin Deletes
        /\ calls' = AfterLogin(cs, u, kept, jar, more)
    BY <1>1 DEF WorkbenchInv, Deletes
  <1> HIDE DEF cs
  <1>10. /\ CallsKept /\ DeletesStay /\ SessionSettled
         /\ \A e \in calls' : e.op = "session" => ~e.live
    BY <1>6, <1>8, <1>9, AfterLoginCalls
  <1> QED BY <1>1, <1>5, <1>10, SessionMovesOK

\* Who one is, according to the API.
LEMMA GotSessionOK ==
    ASSUME WorkbenchInv, NEW c \in calls, c.mine, GotSession(c)
    PROVE  WorkbenchInv'
  <1>1. UNCHANGED <<auth_tokens, made, cookie, url, localKeys>> /\ c.op = "session"
    BY DEF GotSession, server, lists
  <1>2. PageOK /\ SessionOK /\ CallOK(c) /\ Follows(c)
    BY DEF WorkbenchInv, CallsOK, CallsFollow
  <1>3. CASE ~(c.ok /\ c.id # NONE)
    <2>1. calls' = calls \ {c} /\ UNCHANGED <<account, storage, session>>
      BY <1>3 DEF GotSession
    <2>2. RowsTame
      BY <1>1, SameRows DEF WorkbenchInv
    <2> QED BY <1>1, <2>1, <2>2, EndQuiet, QuietOK DEF Deletes, SessionKept, Resaved
  <1>4. CASE c.ok /\ c.id # NONE
    <2> PICK token : token = storage.token
      OBVIOUS
    <2> PICK jar : jar = cookie
      OBVIOUS
    <2> DEFINE cs == calls \ {c}
               more == {}
    <2>1. /\ account' = c.id /\ storage' = [user |-> c.id, token |-> token]
          /\ calls' = AfterLogin(cs, c.id, token, jar, more)
          /\ session' = IF ~c.live THEN "late" ELSE IF c.known THEN "in" ELSE session
      BY <1>2, <1>4 DEF GotSession, AfterLogin, PageOK
    <2>2. c.id \in Users /\ token \in Tokens' /\ jar \in [token : Tokens', httpOnly : BOOLEAN]
      BY <1>1, <1>2 DEF CallOK, PageOK, Tokens, Made
    <2>3. PageOK'
      BY <1>1, <1>2, <2>1, <2>2 DEF PageOK, Tokens, Made
    <2>4. SessionOK'
      <3>1. Sender' = Sender
        BY <1>1, <2>1 DEF Sender, Owner, RawToken, getAuthHeaders, Credentials, UrlFirst
      <3>2. CASE ~c.live
        BY <2>1, <3>2 DEF SessionOK
      <3>3. CASE c.live /\ c.known
        <4>1. c.id = Sender /\ session' = "in"
          BY <1>1, <1>2, <1>4, <2>1, <3>3 DEF Follows
        <4> QED BY <1>4, <2>1, <3>1, <4>1 DEF SessionOK
      <3>4. CASE c.live /\ ~c.known
        <4>1. c.id = storage.user /\ session' = session
          BY <1>1, <1>2, <1>4, <2>1, <3>4 DEF Follows
        <4> QED BY <1>2, <1>4, <2>1, <3>1, <4>1 DEF SessionOK, PageOK
      <3> QED BY <3>2, <3>3, <3>4
    <2>5. Credentials(c.id, token, jar) \in Creds'
      BY <2>2, CredsThen
    <2>6. /\ cs \in SUBSET calls /\ CallsOK /\ \A d \in calls \ cs : d.op \notin Deletes
      BY <1>1 DEF WorkbenchInv, Deletes
    <2>7. \A e \in more : /\ Harmless(e)' /\ (e.op = "sync" \/ e.op = "load")
                          /\ e.op = "sync" => e.arg = storage'.user
      OBVIOUS
    <2> HIDE DEF cs, more
    <2>8. /\ CallsKept /\ DeletesStay /\ SessionSettled
          /\ \A e \in calls' : e.op = "session" => ~e.live
      BY <2>1, <2>5, <2>6, <2>7, AfterLoginCalls
    <2> QED BY <1>1, <2>3, <2>4, <2>8, SessionMovesOK
  <1> QED BY <1>3, <1>4

\* The calls after a session was saved: cs are those that were under way.
LEMMA SyncedCalls ==
    ASSUME CallsOK, NEW c \in calls, c.op \notin Deletes, NEW more,
           \A e \in more : Harmless(e)' /\ e.op = "load",
           calls' = Overtaken(calls \ {c}, SessionCalls) \cup more
    PROVE  /\ CallsKept /\ DeletesStay /\ SessionSettled
           /\ \A e \in calls' : e.op = "session" => ~e.live
  <1> DEFINE cs == calls \ {c}
             kinds == SessionCalls
             old == Overtaken(cs, kinds)
  <1>1. calls' = old \cup more
    OBVIOUS
  <1>2. \A d \in cs : IsCall(d)
    BY DEF CallsOK, CallOK
  <1>3. \A d \in calls : d.op \in Deletes => d \in cs
    OBVIOUS
  <1>4. cs \subseteq calls /\ kinds = SessionCalls
    OBVIOUS
  <1> HIDE DEF cs, kinds
  <1>5. /\ \A e \in old : \E d \in cs : Kept(e, d) /\ (e.live => e.op \notin kinds)
        /\ \A d \in cs : \E e \in old : Kept(e, d)
    BY <1>2, OvertakenCalls
  <1> HIDE DEF old
  <1>6. CallsKept
    BY <1>1, <1>4, <1>5 DEF CallsKept
  <1>7. DeletesStay
    BY <1>1, <1>3, <1>5 DEF DeletesStay
  <1>8. SessionSettled
    BY <1>1, <1>4, <1>5 DEF SessionSettled, SessionCalls
  <1>9. \A e \in calls' : e.op = "session" => ~e.live
    BY <1>1, <1>4, <1>5 DEF SessionCalls
  <1> QED BY <1>6, <1>7, <1>8, <1>9

\* The answer to a session that was to be saved.
LEMMA SyncedOK ==
    ASSUME WorkbenchInv, NEW c \in calls, c.mine, Synced(c)
    PROVE  WorkbenchInv'
  <1> PICK saved : saved = IF c.ok THEN c.id ELSE storage.token
    OBVIOUS
  <1> PICK token : token = IF c.op = "sync" THEN UrlFirst(saved) ELSE saved
    OBVIOUS
  <1> PICK jar : jar = Jar(c)
    OBVIOUS
  <1> PICK creds : creds = Credentials(storage.user, token, jar)
    OBVIOUS
  <1> PICK load : load = Call("load", NONE, creds)
    OBVIOUS
  <1> DEFINE more == IF c.op = "sync" THEN {load} ELSE {}
  <1>1. PageOK /\ SessionOK /\ CallsOK /\ RowsOK /\ CallOK(c) /\ Follows(c)
    BY DEF WorkbenchInv, CallsOK, CallsFollow
  <1>2. /\ UNCHANGED <<auth_tokens, made, url, account, localKeys>>
        /\ c.op \in {"sync", "resync"}
        /\ storage' = [user |-> storage.user, token |-> token] /\ cookie' = jar
        /\ calls' = (IF c.ok THEN Overtaken(calls \ {c}, SessionCalls) ELSE calls \ {c})
                      \cup more
        /\ session' = IF ~c.live THEN IF c.ok THEN "late" ELSE session
                      ELSE IF c.ok \/ url # NONE THEN SignedInAs(storage.user) ELSE "failed"
    BY <1>1 DEF Synced, Load, server, lists, PageOK
  <1>3. c.arg \in Tenants /\ (c.ok => c.id \in Made /\ made[c.id] = c.arg)
    BY <1>1, <1>2 DEF CallOK, Saves
  <1>4. /\ storage.user \in Users /\ token \in Tokens'
        /\ jar \in [token : Tokens', httpOnly : BOOLEAN]
    BY <1>1, <1>2, <1>3 DEF PageOK, Jar, Tokens, Made, UrlFirst
  <1>5. PageOK'
    BY <1>1, <1>2, <1>4 DEF PageOK, Tokens, Made
  <1>6. creds \in Creds'
    BY <1>4, CredsThen
  <1>7. Harmless(load)' /\ load.op = "load"
    BY <1>6, SentThen DEF Deletes, Saves
  <1>8. \A e \in more : Harmless(e)' /\ e.op = "load"
    BY <1>7
  <1>9. c.op \notin Deletes
    BY <1>2 DEF Deletes
  <1> HIDE DEF more
  <1>10. CASE c.ok
    <2>1. SessionOK'
      <3>1. c.id \in Nat /\ c.id # NONE
        BY SessionAssumption, <1>1, <1>3, <1>10 DEF WorkbenchInv, ServerOK, Made
      <3>2. Sender' = IF url # NONE THEN made[url] ELSE c.arg
        BY <1>2, <1>3, <1>10, <3>1
        DEF Sender, Owner, RawToken, getAuthHeaders, Credentials, UrlFirst
      <3>3. c.live => c.arg = storage.user
        BY <1>1, <1>2 DEF Follows
      <3>4. c.arg # NONE
        BY SessionAssumption, <1>3
      <3> QED BY <1>1, <1>2, <1>10, <3>2, <3>3, <3>4 DEF SessionOK, PageOK, SignedInAs
    <2>2. calls' = Overtaken(calls \ {c}, SessionCalls) \cup more
      BY <1>2, <1>10
    <2>3. /\ CallsKept /\ DeletesStay /\ SessionSettled
          /\ \A e \in calls' : e.op = "session" => ~e.live
      BY <1>1, <1>8, <1>9, <2>2, SyncedCalls
    <2> QED BY <1>2, <1>5, <2>1, <2>3, SessionMovesOK
  <1>11. CASE ~c.ok
    <2>1. UNCHANGED <<cookie, url>> /\ Resaved
      BY <1>1, <1>2, <1>11 DEF PageOK, Jar, Resaved, Resaves
    <2>2. calls' = (calls \ {c}) \cup more
      BY <1>2, <1>11
    <2>3. Grown /\ MadeGrows /\ ServerOK'
      BY <1>2 DEF WorkbenchInv, ServerOK, Grown, MadeGrows, Made
    <2>4. \A e \in calls : Kept(e, e)
      BY <1>1, SameKept DEF CallsOK, CallOK
    <2>5. CallsKept
      BY <1>8, <2>2, <2>4 DEF CallsKept
    <2>6. DeletesStay
      BY <1>9, <2>2, <2>4 DEF DeletesStay
    <2>7. Followers
      BY <1>8, <2>2, <2>4 DEF Followers, Kept, SessionCalls
    <2>8. CallsFollow'
      BY <1>1, <2>1, <2>3, <2>7, CallsGoOn DEF WorkbenchInv
    <2>9. CallsOK'
      BY <1>1, <2>3, <2>5, KeptWeakened, CallsStayOK
    <2>10. NewTokensOK' /\ RowsOK'
      BY <1>1, <1>2, <2>3, <2>5, <2>6, SameRows, RowsStayOK DEF WorkbenchInv
    <2>11. SessionOK'
      <3>1. Sender' = Sender
        BY <1>1, <2>1, <2>3, SenderStays
      <3>2. CASE c.live
        <4>1. url # NONE => Sender = made[url]
          BY DEF Sender, Owner, RawToken, getAuthHeaders, Credentials, UrlFirst
        <4>2. storage.user # NONE
          BY SessionAssumption, <1>1, <1>2, <1>3, <3>2 DEF Follows
        <4> QED BY <1>1, <1>2, <1>11, <3>1, <3>2, <4>1, <4>2 DEF SessionOK, PageOK, SignedInAs
      <3>3. CASE ~c.live
        BY <1>1, <1>2, <1>11, <2>1, <3>1, <3>3
        DEF SessionOK, PageOK, Resaved, Resaves, UrlFirst
      <3> QED BY <3>2, <3>3
    <2> QED BY <1>5, <2>3, <2>8, <2>9, <2>10, <2>11 DEF WorkbenchInv
  <1> QED BY <1>10, <1>11

-----------------------------------------------------------------------------
(* The API.                                                                *)

\* No token but the one that c deletes stops working.
OthersWork(c) ==
    \A s \in Made :
        auth_tokens[s] # NONE =>
            auth_tokens'[s] # NONE \/ (c.op \in Deletes /\ c.arg = s)

\* e is c, answered.
Answers(e, c) ==
    /\ IsCall(e)
    /\ e.op = c.op /\ e.arg = c.arg /\ e.at = "answered"
    /\ e.live = c.live /\ e.mine = c.mine
    /\ e.creds \in Creds

\* A call is answered: what it made is new, what it deleted is its own.
LEMMA AnsweredOK ==
    ASSUME WorkbenchInv, NEW c \in calls, NEW e, Answers(e, c),
           calls' = (calls \ {c}) \cup {e},
           UNCHANGED <<storage, cookie, url, account, session, localKeys>>,
           ServerOK', MadeGrows, OthersWork(c), CallOK(e)', Follows(e)',
           e.op = "newToken" /\ e.ok => e.id \notin Made /\ auth_tokens'[e.id] # NONE
    PROVE  WorkbenchInv'
  <1>0. Resaved
    BY DEF Resaved
  <1>1. PageOK' /\ SessionOK'
    BY <1>0, SessionStays DEF WorkbenchInv
  <1>2. CallsOK'
    <2>1. ASSUME NEW f \in calls PROVE CallOK(f)'
      <3>1. CallOK(f) /\ Weaker(f, f)
        BY SameKept DEF WorkbenchInv, CallsOK, CallOK, Kept
      <3> QED BY <3>1, WeakerOK
    <2> QED BY <2>1 DEF CallsOK
  <1>3. CallsFollow'
    <2>1. Sender' = Sender /\ getAuthHeaders' = getAuthHeaders
      BY <1>0, SenderStays DEF WorkbenchInv
    <2>2. ASSUME NEW f \in calls PROVE Follows(f)'
      <3>1. Follows(f)
        BY DEF WorkbenchInv, CallsFollow
      <3> QED BY <2>1, <3>1 DEF Follows
    <2> QED BY <2>2 DEF CallsFollow
  <1>4. \A x : Undoes(e, x) <=> Undoes(c, x)
    BY DEF Undoes, Answers
  <1>5. e.mine = c.mine /\ e.live = c.live
    BY DEF Answers
  <1>6. NewTokensOK'
    <2> SUFFICES ASSUME NEW f \in calls', f.op = "newToken", f.ok
                 PROVE  /\ f.live => auth_tokens'[f.id] # NONE
                        /\ \A d \in calls' : Undoes(d, f) => ~f.live /\ (f.mine => d.mine)
      BY DEF NewTokensOK, NewTokenOK, Undoes
    <2>1. CASE f = e
      <3>1. f.id \notin Made /\ auth_tokens'[f.id] # NONE
        BY <2>1
      <3>2. \A d \in calls : ~Undoes(d, f)
        BY <3>1 DEF WorkbenchInv, CallsOK, CallOK, Undoes
      <3>3. \A d \in calls' : ~Undoes(d, f)
        BY <1>4, <3>2
      <3> QED BY <3>1, <3>3
    <2>2. CASE f \in calls
      <3>1. NewTokenOK(f) /\ CallOK(f)
        BY <2>2 DEF WorkbenchInv, NewTokensOK, CallsOK
      <3>2. f.id \in Made
        BY <3>1 DEF CallOK
      <3>3. f.live => auth_tokens'[f.id] # NONE
        <4>1. f.live => auth_tokens[f.id] # NONE /\ ~Undoes(c, f)
          BY <3>1 DEF NewTokenOK
        <4> QED BY <3>2, <4>1 DEF OthersWork, Undoes
      <3>4. ASSUME NEW d \in calls', Undoes(d, f) PROVE ~f.live /\ (f.mine => d.mine)
        <4>1. CASE d \in calls
          BY <3>1, <3>4, <4>1 DEF NewTokenOK
        <4>2. CASE d = e
          BY <1>4, <1>5, <3>1, <3>4, <4>2 DEF NewTokenOK
        <4> QED BY <4>1, <4>2
      <3> QED BY <3>3, <3>4
    <2> QED BY <2>1, <2>2
  <1>7. RowsOK'
    <2> SUFFICES ASSUME NEW r \in localKeys PROVE RowOK(r)'
      BY DEF RowsOK
    <2>1. RowOK(r)
      BY DEF WorkbenchInv, RowsOK
    <2>2. r.id \in Made'
      BY <2>1 DEF RowOK, MadeGrows
    <2>3. ASSUME r.shown, NEW d \in calls', Undoes(d, r) PROVE d.mine
      <3>1. CASE d \in calls
        BY <2>1, <2>3, <3>1 DEF RowOK
      <3>2. CASE d = e
        BY <1>4, <1>5, <2>1, <2>3, <3>2 DEF RowOK
      <3> QED BY <3>1, <3>2
    <2>4. ASSUME NEW d \in calls, Undoes(d, r) PROVE \E x \in calls' : Undoes(x, r)
      BY <1>4, <2>4
    <2>5. ASSUME auth_tokens[r.id] # NONE
          PROVE  auth_tokens'[r.id] # NONE \/ \E x \in calls' : Undoes(x, r)
      <3>1. auth_tokens'[r.id] # NONE \/ Undoes(c, r)
        BY <2>1, <2>5 DEF RowOK, OthersWork, Undoes
      <3> QED BY <2>4, <3>1
    <2>6. r.shown /\ ~r.revoked /\ ~r.back =>
              auth_tokens'[r.id] # NONE \/ \E x \in calls' : Undoes(x, r)
      BY <2>1, <2>4, <2>5 DEF RowOK
    <2>7. RowOK(r)' <=> /\ IsRow(r) /\ r.id \in Made'
                        /\ r.shown => \A d \in calls' : Undoes(d, r) => d.mine
                        /\ r.shown /\ ~r.revoked /\ ~r.back =>
                             auth_tokens'[r.id] # NONE \/ \E d \in calls' : Undoes(d, r)
      BY DEF RowOK, Undoes
    <2> QED BY <2>1, <2>2, <2>3, <2>6, <2>7 DEF RowOK
  <1> QED BY <1>1, <1>2, <1>3, <1>6, <1>7 DEF WorkbenchInv

\* What an answer is.
LEMMA AnswerGiven ==
    ASSUME CallsOK, NEW c \in calls, NEW ok, NEW ids, NEW id, NEW known,
           Answer(c, ok, ids, id, known)
    PROVE  \E e : /\ Answers(e, c) /\ e.ok = ok /\ e.ids = ids /\ e.id = id /\ e.known = known
                  /\ calls' = (calls \ {c}) \cup {e}
  <1> PICK blank : blank = Blank
    OBVIOUS
  <1> PICK e : e = [c EXCEPT !.at = "answered", !.ok = ok, !.ids = ids, !.id = id,
                             !.known = known, !.creds = blank]
    OBVIOUS
  <1>1. calls' = (calls \ {c}) \cup {e}
    BY DEF Answer
  <1>2. IsCall(c)
    BY DEF CallsOK, CallOK
  <1>3. /\ IsCall(e) /\ e.op = c.op /\ e.arg = c.arg /\ e.at = "answered"
        /\ e.ok = ok /\ e.ids = ids /\ e.id = id /\ e.known = known
        /\ e.creds = blank /\ e.live = c.live /\ e.mine = c.mine
    BY <1>2 DEF IsCall
  <1>4. blank \in Creds
    BY DEF Blank, Creds, Users, Tokens
  <1> QED BY <1>1, <1>3, <1>4 DEF Answers

\* An answer that says no: the call was declined, or its answer lost.
LEMMA DeclinedOK ==
    ASSUME WorkbenchInv, NEW c \in calls, Answer(c, FALSE, {}, NONE, FALSE),
           UNCHANGED <<auth_tokens, made, storage, cookie, url, account, session, localKeys>>
    PROVE  WorkbenchInv'
  <1>1. CallsOK /\ CallOK(c)
    BY DEF WorkbenchInv, CallsOK
  <1> PICK no : no = FALSE
    OBVIOUS
  <1>0. Answer(c, no, {}, NONE, no)
    OBVIOUS
  <1>2. PICK e : /\ Answers(e, c) /\ e.ok = no /\ e.ids = {} /\ e.id = NONE
                 /\ calls' = (calls \ {c}) \cup {e}
    BY ONLY <1>0, <1>1, c \in calls, AnswerGiven
  <1>3. ~e.ok
    BY <1>2
  <1>4. ServerOK' /\ MadeGrows /\ OthersWork(c)
    BY DEF WorkbenchInv, ServerOK, MadeGrows, OthersWork, Made
  <1>5. CallOK(e)'
    BY <1>1, <1>2, <1>3 DEF CallOK, Answers, Creds, Tokens, Users, Made
  <1>6. Follows(e)'
    <2>1. Follows(c)
      BY DEF WorkbenchInv, CallsFollow
    <2> QED BY <1>2, <1>3, <2>1 DEF Follows, Answers
  <1> QED BY <1>2, <1>3, <1>4, <1>5, <1>6, AnsweredOK

\* An answer that leaves the tokens alone: of the calls about the session it
\* can be one that asks who one is.
LEMMA TokensAloneOK ==
    ASSUME WorkbenchInv, NEW c \in calls, c.op \notin Saves \cup Deletes \cup {"newToken"},
           NEW ok, NEW ids, NEW id, NEW known, Answer(c, ok, ids, id, known),
           UNCHANGED <<auth_tokens, made, storage, cookie, url, account, session, localKeys>>,
           c.op = "tokens" => ids \subseteq Made,
           c.op = "session" => id \in Users,
           c.op = "session" /\ c.live /\ c.mine => id = IF known THEN Sender ELSE storage.user
    PROVE  WorkbenchInv'
  <1>1. CallsOK /\ CallOK(c)
    BY DEF WorkbenchInv, CallsOK
  <1>2. PICK e : /\ Answers(e, c) /\ e.ok = ok /\ e.ids = ids /\ e.id = id /\ e.known = known
                 /\ calls' = (calls \ {c}) \cup {e}
    BY <1>1, AnswerGiven
  <1>3. e.op = c.op /\ e.op \notin Saves \cup Deletes \cup {"newToken", "sync", "resync"}
    BY <1>2 DEF Answers, Saves
  <1>4. ServerOK' /\ MadeGrows /\ OthersWork(c)
    BY DEF WorkbenchInv, ServerOK, MadeGrows, OthersWork, Made
  <1>5. CallOK(e)'
    BY <1>2, <1>3 DEF CallOK, Answers, Creds, Tokens, Made
  <1>6. Follows(e)'
    <2>1. Sender' = Sender
      BY <1>4, SenderStays DEF WorkbenchInv, Resaved
    <2>2. e.op = "session" /\ e.live /\ e.mine => id = IF known THEN Sender ELSE storage.user
      BY <1>2 DEF Answers
    <2>3. e.at # "sent"
      BY <1>2 DEF Answers
    <2> QED BY <1>2, <1>3, <2>1, <2>2, <2>3 DEF Follows
  <1> QED BY <1>2, <1>3, <1>4, <1>5, <1>6, AnsweredOK

\* The tenant of a request is that of its token, or the one its header names.
LEMMA TenantKnown ==
    ASSUME ServerOK, NEW creds \in Creds, NEW throttled
    PROVE  /\ TenantOf(creds, throttled) \in Users
           /\ Accepted(creds, throttled) =>
                  TenantOf(creds, throttled) = Owner(RawToken(creds))
           /\ ~Accepted(creds, throttled) => TenantOf(creds, throttled) = creds.header
  <1>1. RawToken(creds) \in Made \cup {NONE} /\ creds.header \in Users
    BY DEF Creds, Tokens, RawToken
  <1>2. Made \subseteq 1..MaxTokens
    BY SessionAssumption DEF ServerOK, Made
  <1>3. CASE Accepted(creds, throttled)
    <2>1. RawToken(creds) \in Made /\ auth_tokens[RawToken(creds)] # NONE
      BY <1>1, <1>3 DEF Accepted
    <2>2. auth_tokens[RawToken(creds)] \in Users
      BY <1>2, <2>1 DEF ServerOK
    <2>3. Owner(RawToken(creds)) = auth_tokens[RawToken(creds)]
      BY <1>3, <2>1 DEF ServerOK, Owner, Accepted
    <2> QED BY <1>3, <2>2, <2>3 DEF TenantOf
  <1>4. CASE ~Accepted(creds, throttled)
    BY <1>1, <1>4 DEF TenantOf
  <1> QED BY <1>3, <1>4

\* A GET is answered.
LEMMA ReadsOK ==
    ASSUME WorkbenchInv, NEW c \in calls, c.at = "sent", NEW throttled,
           Method(c.op) = "GET",
           Reads(c, TenantOf(c.creds, throttled), Accepted(c.creds, throttled)),
           UNCHANGED <<storage, cookie, url, account, session, localKeys>>
    PROVE  WorkbenchInv'
  <1> PICK t : t = TenantOf(c.creds, throttled)
    OBVIOUS
  <1> PICK known : known = Accepted(c.creds, throttled)
    OBVIOUS
  <1>1. CallOK(c) /\ Follows(c) /\ c.creds \in Creds
    BY DEF WorkbenchInv, CallsOK, CallsFollow, CallOK
  <1>2. /\ t \in Users
        /\ known => t = Owner(RawToken(c.creds))
        /\ ~known => t = c.creds.header
    BY <1>1, TenantKnown DEF WorkbenchInv
  <1>3. UNCHANGED <<auth_tokens, made>>
    BY DEF Reads, server
  <1>4. c.op \in {"load", "session", "projects", "tokens"}
    BY DEF Method
  <1>5. c.op \notin Saves \cup Deletes \cup {"newToken"}
    BY <1>4 DEF Saves, Deletes
  <1>6. Reads(c, t, known)
    OBVIOUS
  <1>7. CASE c.op = "session"
    <2> PICK yes : yes = TRUE
      OBVIOUS
    <2>1. Answer(c, yes, {}, t, known)
      BY <1>6, <1>7 DEF Reads
    <2>2. ASSUME c.live, c.mine PROVE t = IF known THEN Sender ELSE storage.user
      <3>1. c.creds = getAuthHeaders
        BY <1>1, <1>7, <2>2 DEF Follows
      <3>2. Sender = Owner(RawToken(c.creds)) /\ c.creds.header = storage.user
        BY <3>1 DEF Sender, getAuthHeaders, Credentials
      <3> QED BY <1>2, <3>2
    <2> QED BY <1>2, <1>3, <1>5, <1>7, <2>1, <2>2, TokensAloneOK
  <1>8. CASE c.op # "session"
    <2>1. \E ok, ids : /\ Answer(c, ok, ids, NONE, known)
                       /\ c.op = "tokens" => ids \subseteq Made
      <3>1. CASE c.op = "load"
        BY <1>6, <3>1 DEF Reads
      <3>2. CASE c.op = "projects"
        BY <1>6, <3>2 DEF Reads
      <3>3. CASE c.op = "tokens"
        <4>1. handleGetTokens(t) \subseteq Made
          BY DEF handleGetTokens
        <4>2. Answer(c, t # NONE, handleGetTokens(t), NONE, known)
          BY <1>6, <3>3 DEF Reads
        <4> QED BY <4>1, <4>2
      <3> QED BY <1>4, <1>8, <3>1, <3>2, <3>3
    <2>2. PICK ok, ids : /\ Answer(c, ok, ids, NONE, known)
                         /\ c.op = "tokens" => ids \subseteq Made
      BY <2>1
    <2> QED BY <1>3, <1>5, <1>8, <2>2, TokensAloneOK
  <1> QED BY <1>7, <1>8

\* A token is deleted.
LEMMA TokenGone ==
    ASSUME ServerOK, NEW t \in Tenants, NEW s \in Made,
           handleDeleteToken(t, s)
    PROVE  /\ ServerOK' /\ MadeGrows
           /\ \A x \in Made : x # s => auth_tokens'[x] = auth_tokens[x]
  <1>1. made' = made /\ Made' = Made
    BY DEF handleDeleteToken, Made
  <1>2. Made \subseteq 1..MaxTokens
    BY SessionAssumption DEF ServerOK, Made
  <1>3. /\ auth_tokens' \in [1..MaxTokens -> Users]
        /\ \A x \in 1..MaxTokens : auth_tokens'[x] \in {auth_tokens[x], NONE}
        /\ \A x \in 1..MaxTokens : x # s => auth_tokens'[x] = auth_tokens[x]
    BY DEF ServerOK, handleDeleteToken, Users
  <1>4. ServerOK'
    BY <1>1, <1>2, <1>3 DEF ServerOK
  <1> QED BY <1>1, <1>2, <1>3, <1>4 DEF MadeGrows

\* A change that was asked for is made, and answered.
LEMMA ChangesOK ==
    ASSUME WorkbenchInv, NEW c \in calls, NEW t \in Tenants,
           c.op \notin Saves, Changes(c, t),
           UNCHANGED <<storage, cookie, url, account, session, localKeys>>
    PROVE  WorkbenchInv'
  <1> PICK yes : yes = TRUE
    OBVIOUS
  <1>1. CallsOK /\ CallOK(c) /\ ServerOK
    BY DEF WorkbenchInv, CallsOK
  <1>2. CASE c.op = "newToken"
    <2> PICK n : n = NextToken
      OBVIOUS
    <2>1. NewToken(t, TRUE) /\ Answer(c, yes, {}, n, yes)
      BY <1>2 DEF Changes, handlePostTokens
    <2>2. /\ Grown /\ ServerOK' /\ n \notin Made /\ n \in Made'
          /\ auth_tokens'[n] = t
      BY <1>1, <2>1, NewTokenMade
    <2>3. auth_tokens'[n] # NONE
      BY SessionAssumption, <2>2
    <2>4. PICK e : /\ Answers(e, c) /\ e.ok = yes /\ e.ids = {} /\ e.id = n /\ e.known = yes
                   /\ calls' = (calls \ {c}) \cup {e}
      BY ONLY <1>1, <2>1, c \in calls, AnswerGiven
    <2>5. MadeGrows /\ OthersWork(c)
      BY <2>2 DEF Grown, OthersWork
    <2>6. CallOK(e)'
      BY <1>2, <2>2, <2>4, <2>5
      DEF CallOK, Answers, Creds, Tokens, MadeGrows, Saves, Deletes
    <2>7. Follows(e)'
      BY <1>2, <2>4 DEF Follows, Answers
    <2> QED BY <2>2, <2>3, <2>4, <2>5, <2>6, <2>7, AnsweredOK
  <1>3. CASE c.op \in Deletes
    <2> PICK ok : ok = (auth_tokens[c.arg] = t)
      OBVIOUS
    <2>1. handleDeleteToken(t, c.arg) /\ Answer(c, ok, {}, NONE, yes)
      BY <1>3 DEF Changes, Deletes
    <2>2. c.arg \in Made
      BY <1>1, <1>3 DEF CallOK
    <2>3. /\ ServerOK' /\ MadeGrows
          /\ \A x \in Made : x # c.arg => auth_tokens'[x] = auth_tokens[x]
      BY <1>1, <2>1, <2>2, TokenGone
    <2>4. PICK e : /\ Answers(e, c) /\ e.ok = ok /\ e.ids = {} /\ e.id = NONE /\ e.known = yes
                   /\ calls' = (calls \ {c}) \cup {e}
      BY ONLY <1>1, <2>1, c \in calls, AnswerGiven
    <2>5. OthersWork(c)
      BY <1>3, <2>3 DEF OthersWork
    <2>6. CallOK(e)'
      BY <1>3, <2>2, <2>3, <2>4
      DEF CallOK, Answers, Creds, Tokens, MadeGrows, Saves, Deletes
    <2>7. Follows(e)' /\ e.op # "newToken"
      BY <1>3, <2>4 DEF Follows, Answers, Deletes
    <2> QED BY <2>3, <2>4, <2>5, <2>6, <2>7, AnsweredOK
  <1>4. CASE c.op \notin Deletes \cup {"newToken"}
    <2>1. /\ c.op \in {"add", "remove", "newProject", "dropProject"}
          /\ UNCHANGED <<auth_tokens, made>>
          /\ \E ok, id : Answer(c, ok, {}, id, TRUE)
      <3>1. CASE c.op = "add"
        BY <3>1 DEF Changes, handlePostKeys
      <3>2. CASE c.op = "remove"
        BY <3>2 DEF Changes, handleDeleteKey
      <3>3. CASE c.op = "newProject"
        BY <3>3 DEF Changes, handlePostProjects
      <3>4. CASE c.op = "dropProject"
        BY <3>4 DEF Changes, handleDeleteProject
      <3>5. CASE c.op \notin {"add", "remove", "newProject", "dropProject"}
        BY <1>4, <3>5 DEF Changes, Deletes
      <3> QED BY <3>1, <3>2, <3>3, <3>4, <3>5
    <2>2. PICK ok, id : Answer(c, ok, {}, id, yes)
      BY <2>1
    <2> QED BY <1>4, <2>1, <2>2, TokensAloneOK
  <1> QED BY <1>2, <1>3, <1>4

\* The API takes up a call.
LEMMA ServeOK ==
    ASSUME WorkbenchInv, NEW c \in calls, Serve(c)
    PROVE  WorkbenchInv'
  <1>1. /\ UNCHANGED <<storage, cookie, url, account, session, localKeys>>
        /\ c.at = "sent" /\ c.op \notin Saves
    BY DEF Serve, page, lists, Saves
  <1>2. PICK throttled \in BOOLEAN :
          LET t == TenantOf(c.creds, throttled) IN
          IF Method(c.op) = "GET"
          THEN Reads(c, t, Accepted(c.creds, throttled))
          ELSE Declines(c) \/ (t # NONE /\ Changes(c, t))
    BY DEF Serve
  <1>3. CASE Method(c.op) = "GET"
    BY <1>1, <1>2, <1>3, ReadsOK
  <1>4. CASE Declines(c)
    <2>1. UNCHANGED <<auth_tokens, made>> /\ Answer(c, FALSE, {}, NONE, FALSE)
      BY <1>4 DEF Declines, server
    <2> QED BY <1>1, <2>1, DeclinedOK
  <1>5. CASE Method(c.op) # "GET" /\ ~Declines(c)
    <2> PICK t : t = TenantOf(c.creds, throttled)
      OBVIOUS
    <2>1. t # NONE /\ Changes(c, t)
      BY <1>2, <1>5
    <2>2. t \in Tenants
      <3>1. c.creds \in Creds /\ ServerOK
        BY DEF WorkbenchInv, CallsOK, CallOK
      <3>2. t \in Users
        BY <3>1, TenantKnown
      <3> QED BY <2>1, <3>2 DEF Users
    <2> QED BY <1>1, <2>1, <2>2, ChangesOK
  <1> QED BY <1>3, <1>4, <1>5

\* The API saves a session.
LEMMA SaveSessionOK ==
    ASSUME WorkbenchInv, NEW c \in calls, SaveSession(c)
    PROVE  WorkbenchInv'
  <1> PICK yes : yes = TRUE
    OBVIOUS
  <1> PICK n : n = NextToken
    OBVIOUS
  <1>1. CallsOK /\ CallOK(c) /\ Follows(c) /\ ServerOK
    BY DEF WorkbenchInv, CallsOK, CallsFollow
  <1>2. /\ UNCHANGED <<storage, cookie, url, account, session, localKeys>>
        /\ c.op \in Saves /\ Answer(c, yes, {}, n, yes)
    BY DEF SaveSession, page, lists, Saves
  <1>3. PICK stored : NewToken(c.arg, stored)
    BY DEF SaveSession, handleSyncSession
  <1>4. c.arg \in Tenants
    BY <1>1, <1>2 DEF CallOK
  <1>5. Grown /\ ServerOK' /\ n \in Made' /\ made'[n] = c.arg
    BY <1>1, <1>3, <1>4, NewTokenMade
  <1>6. PICK e : /\ Answers(e, c) /\ e.ok = yes /\ e.ids = {} /\ e.id = n /\ e.known = yes
                 /\ calls' = (calls \ {c}) \cup {e}
    BY ONLY <1>1, <1>2, c \in calls, AnswerGiven
  <1>7. MadeGrows /\ OthersWork(c) /\ e.op # "newToken"
    BY <1>2, <1>5, <1>6 DEF Grown, OthersWork, Answers, Saves
  <1>8. CallOK(e)'
    BY <1>2, <1>4, <1>5, <1>6, <1>7
    DEF CallOK, Answers, Creds, Tokens, MadeGrows, Saves, Deletes
  <1>9. Follows(e)'
    BY <1>1, <1>2, <1>6 DEF Follows, Answers, Saves
  <1> QED BY <1>2, <1>5, <1>6, <1>7, <1>8, <1>9, AnsweredOK

\* A call, or its answer, is lost.
LEMMA LoseOK ==
    ASSUME WorkbenchInv, NEW c \in calls, Lose(c)
    PROVE  WorkbenchInv'
  <1>1. /\ UNCHANGED <<auth_tokens, made, storage, cookie, url, account, session, localKeys>>
        /\ Answer(c, FALSE, {}, NONE, FALSE)
    BY DEF Lose, Answer, server, page, lists
  <1> QED BY <1>1, DeclinedOK

-----------------------------------------------------------------------------
(* The theorems.                                                           *)

\* At first nothing is under way, and the page shows no secret.
LEMMA WorkbenchInitOK ==
    ASSUME WorkbenchInit
    PROVE  WorkbenchInv
  <1> PICK u \in Starters \cup {NONE} :
          LET token == IF u = NONE THEN NONE ELSE 1 IN
          /\ made = IF u = NONE THEN <<>> ELSE <<u>>
          /\ auth_tokens = [s \in 1..MaxTokens |-> IF s = token THEN u ELSE NONE]
          /\ storage = [user |-> u, token |-> token]
          /\ cookie = [token |-> token, httpOnly |-> u # NONE]
          /\ account = u
          /\ url = NONE
          /\ session = IF u = NONE THEN "out" ELSE "in"
    BY DEF WorkbenchInit
  <1>1. calls = {}
    BY DEF WorkbenchInit
  <1>2. CASE u = NONE
    <2>1. made \in Seq(Tenants) /\ Len(made) = 0 /\ Made = {}
      BY <1>2 DEF Made
    <2>2. auth_tokens = [s \in 1..MaxTokens |-> NONE]
      BY <1>2
    <2>3. ServerOK
      BY SessionAssumption, <2>1, <2>2 DEF ServerOK, Users
    <2> PICK no : no = (u # NONE)
      OBVIOUS
    <2>4. no \in BOOLEAN /\ cookie = [token |-> NONE, httpOnly |-> no]
      BY <1>2
    <2>5. PageOK /\ SessionOK
      BY <1>2, <2>4 DEF PageOK, SessionOK, Users, Tokens
    <2>6. localKeys = {}
      BY <1>2 DEF WorkbenchInit
    <2> QED BY <1>1, <2>3, <2>5, <2>6
            DEF WorkbenchInv, CallsOK, CallsFollow, NewTokensOK, RowsOK
  <1>3. CASE u # NONE
    <2>1. u \in Tenants
      BY WorkbenchAssumption, <1>3
    <2>2. made = <<u>> /\ made \in Seq(Tenants) /\ Len(made) = 1 /\ Made = {1} /\ made[1] = u
      BY <1>3, <2>1 DEF Made
    <2>3. auth_tokens = [s \in 1..MaxTokens |-> IF s = 1 THEN u ELSE NONE]
      BY <1>3
    <2>4. ServerOK
      BY SessionAssumption, <2>1, <2>2, <2>3 DEF ServerOK, Users
    <2>5. storage = [user |-> u, token |-> 1] /\ cookie.token = 1
      BY <1>3
    <2> PICK yes : yes = (u # NONE)
      OBVIOUS
    <2>6. yes \in BOOLEAN /\ cookie = [token |-> 1, httpOnly |-> yes]
      BY <1>3
    <2>7. PageOK
      BY <2>1, <2>2, <2>5, <2>6 DEF PageOK, Users, Tokens
    <2>8. SessionOK
      <3>1. 1 # NONE
        BY SessionAssumption
      <3>2. Sender = u
        BY <2>2, <2>5, <3>1
        DEF Sender, Owner, RawToken, getAuthHeaders, Credentials, UrlFirst
      <3> QED BY <1>3, <3>2 DEF SessionOK
    <2>9. RowsOK
      <3>1. localKeys = {} \/ localKeys = {Row(s, NONE, FALSE) : s \in handleGetTokens(account)}
        BY DEF WorkbenchInit
      <3>2. handleGetTokens(account) \subseteq Made
        BY DEF handleGetTokens
      <3>3. ASSUME NEW r \in localKeys PROVE IsRow(r) /\ r.id \in Made /\ ~r.shown
        <4>1. PICK s \in Made : r = Row(s, NONE, FALSE)
          BY <3>1, <3>2
        <4> QED BY <4>1, ListedRow
      <3> QED BY <3>3 DEF RowsOK, RowOK
    <2> QED BY <1>1, <2>4, <2>7, <2>8, <2>9
            DEF WorkbenchInv, CallsOK, CallsFollow, NewTokensOK
  <1> QED BY <1>2, <1>3

\* Every step keeps the invariant.
LEMMA WorkbenchStep ==
    ASSUME WorkbenchInv, [WorkbenchNext]_workbenchVars
    PROVE  WorkbenchInv'
  <1>1. CASE User
    <2>1. CASE Reload
      BY <2>1, ReloadOK
    <2>2. CASE Logout
      BY <2>2, LogoutOK
    <2>3. CASE ToggleAutoRefresh
      BY <2>3, ToggleQuiet, QuietOK
    <2>4. CASE \E u \in Tenants : GithubSignIn(u)
      BY <2>4, GithubSignInOK
    <2>5. CASE \/ \E u \in Tenants : GoogleSignIn(u)
               \/ \E k \in Keys : AddKey(k)
               \/ \E k \in Keys \cup Commons : deleteKey(k)
      BY <2>5, PoolQuiet, QuietOK
    <2>6. CASE LeaveWorkbench
      BY <2>6, LeaveWorkbenchOK
    <2>7. CASE \/ OpenWorkbench \/ handleCreateNewProject
               \/ \E p \in Projects \cup {FALLBACK} :
                     \/ handleCreateNewKey(p) \/ handleRotateProjectKey(p)
                     \/ handleDeleteProject_(p)
      BY <2>7, BenchQuiet, QuietOK
    <2>8. CASE \E r \in localKeys : handleRevokeKey(r) \/ handleDeleteToken_(r)
      BY <2>8, DeleteTokenOK
    <2>9. CASE \E r \in localKeys : handleToggleKey(r)
      BY <2>9, ToggleKeyQuiet, QuietOK
    <2> QED BY <1>1, <2>1, <2>2, <2>3, <2>4, <2>5, <2>6, <2>7, <2>8, <2>9 DEF User
  <1>2. CASE Poll
    BY <1>2, PoolQuiet, QuietOK
  <1>3. ASSUME NEW c \in calls, Serve(c) \/ SaveSession(c) \/ Lose(c)
        PROVE  WorkbenchInv'
    BY <1>3, ServeOK, SaveSessionOK, LoseOK
  <1>4. ASSUME NEW c \in calls, Receive(c)
        PROVE  WorkbenchInv'
    <2>1. CASE Discard(c) \/ Loaded(c) \/ Added(c) \/ Removed(c)
      BY <2>1, PoolAnswerQuiet, QuietOK
    <2>2. CASE SignedIn(c)
      BY <2>2, SignedInOK
    <2>3. CASE c.mine /\ (Synced(c) \/ GotSession(c) \/ Changed(c))
      BY <2>3, SyncedOK, GotSessionOK, ChangedOK
    <2>4. CASE ListArrives(c) \/ ListRead(c)
      BY <2>4, ListArrivesQuiet, ListReadQuiet, QuietOK
    <2> QED BY <1>4, <2>1, <2>2, <2>3, <2>4 DEF Receive
  <1>5. CASE UNCHANGED workbenchVars
    <2>1. /\ SessionKept
          /\ UNCHANGED <<calls, localKeys>>
      BY <1>5 DEF workbenchVars, server, page, lists, SessionKept, Resaved
    <2>2. CallsKept /\ Followers /\ DeletesStay
      BY <2>1, SameKept
      DEF WorkbenchInv, CallsOK, CallOK, CallsKept, Followers, DeletesStay, Kept
    <2>3. Quiet
      BY <2>1, <2>2, SameRows DEF Quiet, WorkbenchInv
    <2> QED BY <2>3, QuietOK
  <1> QED BY <1>1, <1>2, <1>3, <1>4, <1>5 DEF WorkbenchNext

\* The inductive invariant holds throughout: what is under way belongs to the
\* session that the page has, or is known not to.
THEOREM WorkbenchInductive == WorkbenchSpec => []WorkbenchInv
  <1>1. WorkbenchInit => WorkbenchInv
    BY WorkbenchInitOK
  <1>2. WorkbenchInv /\ [WorkbenchNext]_workbenchVars => WorkbenchInv'
    BY WorkbenchStep
  <1> QED BY <1>1, <1>2, PTL DEF WorkbenchSpec

\* The account that the page shows, the tenant it sends and the owner of the
\* token it sends are one, whatever is answered when (App.svelte).
THEOREM WorkbenchSessionCoherent == WorkbenchSpec => []SessionCoherent
  <1>1. WorkbenchInv => SessionCoherent
    <2> SUFFICES ASSUME WorkbenchInv PROVE SessionCoherent
      OBVIOUS
    <2>1. session = "in" => /\ account # NONE /\ account = storage.user /\ account = Sender
      BY DEF WorkbenchInv, PageOK, SessionOK
    <2>2. session = "out" => account = NONE /\ storage = [user |-> NONE, token |-> NONE]
      BY DEF WorkbenchInv, PageOK, SessionOK
    <2> QED BY <2>1, <2>2 DEF SessionCoherent, Sender
  <1> QED BY <1>1, WorkbenchInductive, PTL

\* A token that is shown with its secret and as active works, or is being
\* deleted right now (Workbench.svelte).
THEOREM WorkbenchShownSecretsWork == WorkbenchSpec => []ShownSecretsWork
  <1>1. WorkbenchInv => ShownSecretsWork
    <2> SUFFICES ASSUME WorkbenchInv, NEW r \in localKeys, r.shown, ~r.revoked, ~r.back,
                        auth_tokens[r.id] = NONE
                 PROVE  \E c \in calls : c.op \in {"revoke", "drop"} /\ c.arg = r.id
      BY DEF ShownSecretsWork
    <2> QED BY DEF WorkbenchInv, RowsOK, RowOK, Undoes, Deletes
  <1> QED BY <1>1, WorkbenchInductive, PTL

=============================================================================
