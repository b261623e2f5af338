------------------------- MODULE SelectionTheorems -------------------------
(***************************************************************************)
(* Facts about Ascending, from counting: how many numbers of the set are   *)
(* up to n is a different number for each n.                               *)
(***************************************************************************)
EXTENDS Selection, Sequences, FiniteSetTheorems, FunctionTheorems, TLAPS

\* In a finite set of numbers, how many are up to n is a different number for
\* each n, and every number up to the size of the set is that of some n.
LEMMA Ranked ==
  ASSUME NEW S \in SUBSET Nat, IsFiniteSet(S)
  PROVE  /\ Cardinality(S) \in Nat
         /\ \A n \in S : Cardinality({m \in S : m <= n}) \in 1..Cardinality(S)
         /\ \A n, p \in S :
              n < p => Cardinality({m \in S : m <= n}) < Cardinality({m \in S : m <= p})
         /\ \A k \in 1..Cardinality(S) : \E n \in S : Cardinality({m \in S : m <= n}) = k
<1> DEFINE upTo(n) == {m \in S : m <= n}
<1>1. Cardinality(S) \in Nat
  BY FS_CardinalityType
<1>2. \A n \in S : IsFiniteSet(upTo(n)) /\ Cardinality(upTo(n)) \in 1..Cardinality(S)
  <2>. SUFFICES ASSUME NEW n \in S
                PROVE  IsFiniteSet(upTo(n)) /\ Cardinality(upTo(n)) \in 1..Cardinality(S)
    OBVIOUS
  <2>1. upTo(n) \in SUBSET S /\ n \in upTo(n)
    OBVIOUS
  <2> HIDE DEF upTo
  <2>2. IsFiniteSet(upTo(n)) /\ Cardinality(upTo(n)) <= Cardinality(S)
    BY <2>1, FS_Subset
  <2>3. Cardinality(upTo(n)) # 0
    BY <2>1, <2>2, FS_EmptySet
  <2>4. Cardinality(upTo(n)) \in Nat
    BY <2>2, FS_CardinalityType
  <2>. QED  BY <1>1, <2>2, <2>3, <2>4
<1>3. \A n, p \in S : n < p => Cardinality(upTo(n)) < Cardinality(upTo(p))
  <2>. SUFFICES ASSUME NEW n \in S, NEW p \in S, n < p
                PROVE  Cardinality(upTo(n)) < Cardinality(upTo(p))
    OBVIOUS
  <2>. n \in Nat /\ p \in Nat
    OBVIOUS
  <2>1. \A m \in S : m \in Nat /\ (m <= n => m <= p)
    OBVIOUS
  <2>5. upTo(n) \in SUBSET upTo(p)
    BY <2>1
  <2>6. p \in upTo(p) /\ p \notin upTo(n)
    OBVIOUS
  <2>2. /\ IsFiniteSet(upTo(p))
        /\ Cardinality(upTo(n)) \in Nat /\ Cardinality(upTo(p)) \in Nat
    BY <1>1, <1>2
  <2> HIDE DEF upTo
  <2>3. /\ Cardinality(upTo(n)) <= Cardinality(upTo(p))
        /\ Cardinality(upTo(p)) = Cardinality(upTo(n)) => upTo(p) = upTo(n)
    BY <2>5, <2>2, FS_Subset
  <2>. QED  BY <2>6, <2>2, <2>3
<1>4. \A k \in 1..Cardinality(S) : \E n \in S : Cardinality(upTo(n)) = k
  <2> DEFINE f == [n \in S |-> Cardinality(upTo(n))]
             T == 1..Cardinality(S)
  <2>1. f \in [S -> T]
    BY <1>2
  <2>2. \A a, b \in S : f[a] = f[b] => a = b
    <3>. SUFFICES ASSUME NEW a \in S, NEW b \in S, a # b PROVE f[a] # f[b]
      OBVIOUS
    <3>1. a < b \/ b < a
      OBVIOUS
    <3>2. Cardinality(upTo(a)) \in Nat /\ Cardinality(upTo(b)) \in Nat
      BY <1>1, <1>2
    <3> HIDE DEF upTo
    <3>. QED  BY <1>3, <3>1, <3>2
  <2>3. IsFiniteSet(T) /\ Cardinality(T) = Cardinality(S)
    BY <1>1, FS_Interval
  <2> HIDE DEF f, T
  <2>4. f \in Injection(S, T)
    BY <2>1, <2>2, Fun_IsInj
  <2>5. f \in Surjection(S, T)
    BY <2>3, <2>4, FS_Injection
  <2>6. \A k \in T : \E n \in S : f[n] = k
    BY <2>5 DEF Surjection
  <2>. QED  BY <2>6 DEF f, T
<1>. QED  BY <1>1, <1>2, <1>3, <1>4

\* A set of positions that is not empty has a first one.
LEMMA LeastNumber ==
  ASSUME NEW N \in Nat, NEW S \in SUBSET (1..N), S # {}
  PROVE  \E i \in S : \A j \in S : i <= j
<1>1. S \in SUBSET Nat /\ IsFiniteSet(S)
  <2>1. S \in SUBSET Nat
    OBVIOUS
  <2>2. IsFiniteSet(1..N)
    BY FS_Interval
  <2>. QED  BY <2>1, <2>2, FS_Subset
<1>2. Cardinality(S) \in Nat /\ Cardinality(S) # 0
  BY <1>1, FS_CardinalityType, FS_EmptySet
<1>3. 1 \in 1..Cardinality(S)
  BY <1>2
<1>4. \A k \in 1..Cardinality(S) : \E n \in S : Cardinality({m \in S : m <= n}) = k
  BY <1>1, Ranked
<1>5. PICK i \in S : Cardinality({m \in S : m <= i}) = 1
  BY <1>3, <1>4
<1>6. SUFFICES ASSUME NEW j \in S, ~(i <= j) PROVE FALSE
  BY <1>5
<1>7. i \in Nat /\ j \in Nat /\ j < i
  BY <1>1, <1>6
<1>8. Cardinality({m \in S : m <= j}) < Cardinality({m \in S : m <= i})
  BY <1>1, <1>7, Ranked
<1>9. Cardinality({m \in S : m <= j}) \in 1..Cardinality(S)
  BY <1>1, Ranked
<1>. QED  BY <1>2, <1>5, <1>8, <1>9

\* Ascending lists the numbers of a set of positions, each once and in order.
LEMMA AscendingLists ==
  ASSUME NEW N \in Nat, NEW S \in SUBSET (1..N)
  PROVE  /\ Ascending(S) \in Seq(S) /\ Len(Ascending(S)) \in Nat
         /\ DOMAIN Ascending(S) = 1..Len(Ascending(S))
         /\ \A k \in 1..Len(Ascending(S)) : Ascending(S)[k] \in S
         /\ \A n \in S : \E k \in 1..Len(Ascending(S)) : Ascending(S)[k] = n
         /\ \A j, k \in 1..Len(Ascending(S)) :
              Ascending(S)[j] = Ascending(S)[k] => j = k
<1> DEFINE R(n) == Cardinality({m \in S : m <= n})
<1>1. S \in SUBSET Nat /\ IsFiniteSet(S)
  <2>1. S \in SUBSET Nat
    OBVIOUS
  <2>2. IsFiniteSet(1..N)
    BY FS_Interval
  <2>. QED  BY <2>1, <2>2, FS_Subset
<1>2. Ascending(S) = [k \in 1..Cardinality(S) |-> CHOOSE n \in S : R(n) = k]
  BY DEF Ascending
<1>3. /\ Cardinality(S) \in Nat
      /\ \A n \in S : R(n) \in 1..Cardinality(S)
      /\ \A n, p \in S : n < p => R(n) < R(p)
      /\ \A k \in 1..Cardinality(S) : \E n \in S : R(n) = k
  BY <1>1, Ranked
<1>4. \A n \in S : n \in Nat
  BY <1>1
<1> HIDE DEF R
<1>5. \A k \in 1..Cardinality(S) : Ascending(S)[k] \in S /\ R(Ascending(S)[k]) = k
  <2>. SUFFICES ASSUME NEW k \in 1..Cardinality(S)
                PROVE  Ascending(S)[k] \in S /\ R(Ascending(S)[k]) = k
    OBVIOUS
  <2>1. Ascending(S)[k] = CHOOSE n \in S : R(n) = k
    BY <1>2
  <2>2. \E n \in S : R(n) = k
    BY <1>3
  <2>. QED  BY <2>1, <2>2
<1>6. Ascending(S) \in Seq(S) /\ Len(Ascending(S)) = Cardinality(S)
  <2>1. Ascending(S) \in [1..Cardinality(S) -> S]
    BY <1>2, <1>5
  <2>2. Ascending(S) \in Seq(S)
    BY <2>1, <1>3
  <2>. QED  BY <2>1, <2>2, <1>3
<1>7. \A n \in S : Ascending(S)[R(n)] = n
  <2>. SUFFICES ASSUME NEW n \in S PROVE Ascending(S)[R(n)] = n
    OBVIOUS
  <2>1. Ascending(S)[R(n)] \in S /\ R(Ascending(S)[R(n)]) = R(n)
    BY <1>3, <1>5
  <2>2. PICK p \in S : p = Ascending(S)[R(n)]
    BY <2>1
  <2>3. R(p) = R(n) /\ R(n) \in Nat
    BY <1>3, <2>1, <2>2
  <2>4. ~(p < n) /\ ~(n < p)
    BY <1>3, <2>3
  <2>. QED  BY <1>4, <2>2, <2>4
<1>8. \A j, k \in 1..Cardinality(S) : Ascending(S)[j] = Ascending(S)[k] => j = k
  BY <1>5
<1>9. \A n \in S : \E k \in 1..Cardinality(S) : Ascending(S)[k] = n
  BY <1>3, <1>7
<1>10. DOMAIN Ascending(S) = 1..Cardinality(S)
  BY <1>2
<1>. QED  BY <1>3, <1>5, <1>6, <1>8, <1>9, <1>10

\* The member of a set of positions that Ascending gives for k is the one that
\* k members do not exceed.
LEMMA AscendingRank ==
  ASSUME NEW N \in Nat, NEW S \in SUBSET (1..N), NEW n \in S
  PROVE  /\ DOMAIN Ascending(S) = 1..Cardinality(S) /\ Cardinality(S) \in Nat
         /\ Cardinality({m \in S : m <= n}) \in 1..Cardinality(S)
         /\ Ascending(S)[Cardinality({m \in S : m <= n})] = n
<1> DEFINE R(x) == Cardinality({m \in S : m <= x})
<1>1. S \in SUBSET Nat /\ IsFiniteSet(S)
  <2>1. S \in SUBSET Nat
    OBVIOUS
  <2>2. IsFiniteSet(1..N)
    BY FS_Interval
  <2>. QED  BY <2>1, <2>2, FS_Subset
<1>2. /\ Cardinality(S) \in Nat
      /\ \A x \in S : R(x) \in 1..Cardinality(S)
      /\ \A x, y \in S : x < y => R(x) < R(y)
  BY <1>1, Ranked
<1>3. Ascending(S) = [k \in 1..Cardinality(S) |-> CHOOSE x \in S : R(x) = k]
  BY DEF Ascending
<1>4. \A x \in S : x \in Nat
  BY <1>1
<1> HIDE DEF R
<1>5. PICK p : p = CHOOSE x \in S : R(x) = R(n)
  OBVIOUS
<1>6. p \in S /\ R(p) = R(n)
  BY <1>5
<1>7. R(n) \in Nat
  BY <1>2
<1>8. ~(p < n) /\ ~(n < p)
  BY <1>2, <1>6, <1>7
<1>9. p = n
  BY <1>4, <1>6, <1>8
<1>10. R(n) \in 1..Cardinality(S) /\ Ascending(S)[R(n)] = n
  BY <1>2, <1>3, <1>5, <1>9
<1>. QED  BY <1>2, <1>3, <1>10 DEF R

\* The selections S of s and T of t have the same elements, none of them twice,
\* and each comes before the same others.
SameElements(s, S, t, T) ==
  /\ \E M, N \in Nat : S \subseteq 1..M /\ T \subseteq 1..N
  /\ \A j \in S : \E k \in T : s[j] = t[k]
  /\ \A k \in T : \E j \in S : s[j] = t[k]
  /\ \A i, j \in S : s[i] = s[j] => i = j
  /\ \A k, l \in T : t[k] = t[l] => k = l
  /\ \A i, j \in S : \A k, l \in T : s[i] = t[k] /\ s[j] = t[l] /\ i < j => k < l

\* Then they list the same in the same order.
LEMMA SameSelection ==
  ASSUME NEW s, NEW S, NEW t, NEW T, SameElements(s, S, t, T)
  PROVE  Listed(s, S) = Listed(t, T)
<1>0. PICK M \in Nat, N \in Nat : S \in SUBSET (1..M) /\ T \in SUBSET (1..N)
  BY DEF SameElements
<1> USE <1>0 DEF SameElements
<1> DEFINE f == [j \in S |-> CHOOSE k \in T : s[j] = t[k]]
<1>1. \A j \in S : f[j] \in T /\ s[j] = t[f[j]]
  OBVIOUS
<1>2. f \in [S -> T]
  BY <1>1
<1> HIDE DEF f
<1>3. ASSUME NEW j \in S, NEW k \in T, s[j] = t[k] PROVE f[j] = k
  <2>1. f[j] \in T /\ t[f[j]] = t[k]
    BY <1>1, <1>3
  <2>. QED  BY <2>1
<1>4. \A i, j \in S : i < j => f[i] < f[j]
  BY <1>1
<1>5. /\ \A j \in S : j \in Nat
      /\ \A k \in T : k \in Nat
      /\ IsFiniteSet(S) /\ IsFiniteSet(T)
  <2>1. IsFiniteSet(1..M) /\ IsFiniteSet(1..N)
    BY FS_Interval
  <2>2. IsFiniteSet(S) /\ IsFiniteSet(T)
    BY <2>1, FS_Subset
  <2>3. (\A j \in S : j \in Nat) /\ (\A k \in T : k \in Nat)
    OBVIOUS
  <2>. QED  BY <2>2, <2>3
<1>6. \A i, j \in S : i <= j <=> f[i] <= f[j]
  <2>. SUFFICES ASSUME NEW i \in S, NEW j \in S PROVE i <= j <=> f[i] <= f[j]
    OBVIOUS
  <2>1. i \in Nat /\ j \in Nat /\ f[i] \in Nat /\ f[j] \in Nat
    BY <1>1, <1>5
  <2>2. i < j \/ i = j \/ j < i
    BY <2>1
  <2>. QED  BY <1>4, <2>1, <2>2
\* f maps any part of S on the part of T that has the same elements.
<1>7. ASSUME NEW A \in SUBSET S, NEW B \in SUBSET T,
             \A j \in S : j \in A <=> f[j] \in B
      PROVE  Cardinality(A) = Cardinality(B)
  <2> DEFINE g == [j \in A |-> f[j]]
  <2>1. g \in [A -> B]
    BY <1>2, <1>7
  <2>2. ASSUME NEW i \in A, NEW j \in A, g[i] = g[j] PROVE i = j
    <3>1. i \in S /\ j \in S /\ f[i] = f[j]
      BY <2>2
    <3>2. s[i] = s[j]
      BY <1>1, <3>1
    <3>. QED  BY <3>1, <3>2
  <2>3. \A k \in B : \E j \in A : g[j] = k
    <3>. SUFFICES ASSUME NEW k \in B PROVE \E j \in A : g[j] = k
      OBVIOUS
    <3>1. PICK j \in S : s[j] = t[k]
      OBVIOUS
    <3>2. f[j] = k
      BY <1>3, <3>1
    <3>. QED  BY <1>7, <3>2
  <2> HIDE DEF g
  <2>4. g \in Injection(A, B)
    BY <2>1, <2>2, Fun_IsInj
  <2>5. g \in Surjection(A, B)
    BY <2>1, <2>3, Fun_IsSurj
  <2>6. IsFiniteSet(B)
    BY <1>5, FS_Subset
  <2>. QED  BY <2>4, <2>5, <2>6, FS_Injection
<1>8. Cardinality(S) = Cardinality(T)
  BY <1>1, <1>7
<1>9. ASSUME NEW j \in S
      PROVE  Cardinality({m \in S : m <= j}) = Cardinality({m \in T : m <= f[j]})
  <2>1. \A i \in S : i \in {m \in S : m <= j} <=> f[i] \in {m \in T : m <= f[j]}
    BY <1>1, <1>6
  <2>. QED  BY <1>7, <2>1
<1>10. /\ DOMAIN Ascending(S) = 1..Cardinality(S)
       /\ DOMAIN Ascending(T) = 1..Cardinality(T)
  BY DEF Ascending
<1>11. ASSUME NEW k \in 1..Cardinality(S) PROVE s[Ascending(S)[k]] = t[Ascending(T)[k]]
  <2>1. PICK j \in S : Cardinality({m \in S : m <= j}) = k
    <3>1. S \in SUBSET Nat
      BY <1>5
    <3>2. \A i \in 1..Cardinality(S) : \E n \in S : Cardinality({m \in S : m <= n}) = i
      BY <1>5, <3>1, Ranked
    <3>. QED  BY <3>2
  <2>2. Ascending(S)[k] = j
    BY <2>1, AscendingRank
  <2>3. f[j] \in T /\ Cardinality({m \in T : m <= f[j]}) = k
    BY <1>1, <1>9, <2>1
  <2>4. Ascending(T)[k] = f[j]
    BY <2>3, AscendingRank
  <2>. QED  BY <1>1, <2>2, <2>4
<1>12. [k \in DOMAIN Ascending(S) |-> s[Ascending(S)[k]]]
         = [k \in DOMAIN Ascending(T) |-> t[Ascending(T)[k]]]
  BY <1>8, <1>10, <1>11
<1>. QED  BY <1>12, Zenon DEF Listed
=============================================================================
