---------------------------- MODULE InlineProofs ----------------------------
(***************************************************************************)
(* What holds of SsInline on every module.                                 *)
(***************************************************************************)
EXTENDS Inline, SequenceTheorems, FiniteSetTheorems, TLAPS

-----------------------------------------------------------------------------
(***************************************************************************)
(* Blocks of code: what an insertion and a deletion do to the places of    *)
(* the instructions.                                                       *)
(***************************************************************************)

\* The sequence with an element put before the i-th.
LEMMA Inserted ==
  ASSUME NEW S, NEW s \in Seq(S), NEW i \in 1..(Len(s) + 1), NEW e \in S
  PROVE  /\ InsertAt(s, i, e) \in Seq(S)
         /\ Len(InsertAt(s, i, e)) = Len(s) + 1
         /\ DOMAIN InsertAt(s, i, e) = 1..(Len(s) + 1)
         /\ \A k \in 1..(Len(s) + 1) :
              InsertAt(s, i, e)[k] = IF k < i THEN s[k] ELSE IF k = i THEN e ELSE s[k - 1]
<1> DEFINE before == SubSeq(s, 1, i - 1)
           behind == SubSeq(s, i, Len(s))
<1>1. PICK N \in Nat : N = Len(s)
  BY LenProperties
<1>2. DOMAIN s = 1..N
  BY <1>1, LenProperties
<1>3. /\ before \in Seq(S) /\ Len(before) = i - 1
      /\ \A k \in 1..(i - 1) : before[k] = s[k]
  BY <1>1, <1>2, SubSeqProperties, ElementOfSeq
<1>4. /\ behind \in Seq(S) /\ Len(behind) = N - i + 1
      /\ \A k \in 1..(N - i + 1) : behind[k] = s[i + k - 1]
  BY <1>1, <1>2, SubSeqProperties, ElementOfSeq
<1>5. <<e>> \in Seq(S) /\ Len(<<e>>) = 1 /\ <<e>>[1] = e
  OBVIOUS
<1> HIDE DEF before, behind
<1>6. /\ before \o <<e>> \in Seq(S) /\ Len(before \o <<e>>) = i
      /\ \A k \in 1..i : (before \o <<e>>)[k] = IF k < i THEN s[k] ELSE e
  BY <1>1, <1>3, <1>5, ConcatProperties
<1> DEFINE front == before \o <<e>>
<1> HIDE DEF front
<1>7. front \in Seq(S) /\ Len(front) = i /\ \A k \in 1..i : front[k] = IF k < i THEN s[k] ELSE e
  BY <1>6 DEF front
<1>8. /\ front \o behind \in Seq(S) /\ Len(front \o behind) = N + 1
      /\ \A k \in 1..(N + 1) : (front \o behind)[k] = IF k <= i THEN front[k] ELSE behind[k - i]
  <2>1. Len(front) + Len(behind) = N + 1
    BY <1>1, <1>4, <1>7
  <2>. QED  BY <1>4, <1>7, <2>1, ConcatProperties
<1>9. \A k \in 1..(N + 1) :
        (front \o behind)[k] = IF k < i THEN s[k] ELSE IF k = i THEN e ELSE s[k - 1]
  BY <1>1, <1>4, <1>7, <1>8
<1>10. InsertAt(s, i, e) = front \o behind
  BY DEF InsertAt, front, before, behind
<1>11. DOMAIN (front \o behind) = 1..(N + 1)
  BY <1>8, LenProperties
<1>. QED  BY <1>1, <1>8, <1>9, <1>10, <1>11

\* The element that was the i-th comes after it.
LEMMA InsertedBefore ==
  ASSUME NEW S, NEW s \in Seq(S), NEW i \in 1..(Len(s) + 1), NEW e \in S, i # Len(s) + 1
  PROVE  /\ i + 1 <= Len(InsertAt(s, i, e))
         /\ InsertAt(s, i, e)[i + 1] = s[i] /\ InsertAt(s, i, e)[i] = e
<1>1. /\ InsertAt(s, i, e) \in Seq(S)
      /\ \A k \in 1..(Len(s) + 1) :
           InsertAt(s, i, e)[k] = IF k < i THEN s[k] ELSE IF k = i THEN e ELSE s[k - 1]
  BY Inserted
<1>2. Len(InsertAt(s, i, e)) = Len(s) + 1
  BY Inserted
<1>3. PICK N \in Nat : N = Len(s) /\ DOMAIN s = 1..N
  BY LenProperties
<1>4. i + 1 \in 1..(N + 1) /\ ~(i + 1 < i) /\ i + 1 # i /\ (i + 1) - 1 = i /\ i \in 1..(N + 1) /\ ~(i < i)
  BY <1>3
<1>5. InsertAt(s, i, e)[i + 1] = s[i] /\ InsertAt(s, i, e)[i] = e
  BY <1>1, <1>3, <1>4
<1>. QED  BY <1>2, <1>3, <1>4, <1>5

\* The sequence without the i-th element.
LEMMA Removed ==
  ASSUME NEW S, NEW s \in Seq(S), NEW i \in DOMAIN s
  PROVE  /\ RemoveAt(s, i) \in Seq(S)
         /\ Len(RemoveAt(s, i)) = Len(s) - 1
         /\ DOMAIN RemoveAt(s, i) = 1..(Len(s) - 1)
         /\ \A k \in 1..(Len(s) - 1) : RemoveAt(s, i)[k] = IF k < i THEN s[k] ELSE s[k + 1]
<1> DEFINE before == SubSeq(s, 1, i - 1)
           behind == SubSeq(s, i + 1, Len(s))
<1>1. PICK N \in Nat : N = Len(s)
  BY LenProperties
<1>2. DOMAIN s = 1..N
  BY <1>1, LenProperties
<1>3. /\ before \in Seq(S) /\ Len(before) = i - 1
      /\ \A k \in 1..(i - 1) : before[k] = s[k]
  BY <1>1, <1>2, SubSeqProperties, ElementOfSeq
<1>4. /\ behind \in Seq(S) /\ Len(behind) = N - i
      /\ \A k \in 1..(N - i) : behind[k] = s[i + k]
  BY <1>1, <1>2, SubSeqProperties, ElementOfSeq, SMTT(30)
<1> HIDE DEF before, behind
<1>5. /\ before \o behind \in Seq(S) /\ Len(before \o behind) = N - 1
      /\ \A k \in 1..(N - 1) : (before \o behind)[k] = IF k <= i - 1 THEN before[k] ELSE behind[k - (i - 1)]
  <2>1. i \in Nat /\ i - 1 \in Nat
    BY <1>2
  <2>2. Len(before) + Len(behind) = N - 1
    BY <1>3, <1>4, <2>1
  <2>3. /\ before \o behind \in Seq(S) /\ Len(before \o behind) = Len(before) + Len(behind)
        /\ \A k \in 1..(Len(before) + Len(behind)) :
             (before \o behind)[k] = IF k <= Len(before) THEN before[k] ELSE behind[k - Len(before)]
    BY <1>3, <1>4, ConcatProperties
  <2>. QED  BY <1>3, <2>2, <2>3
<1>6. \A k \in 1..(N - 1) : (before \o behind)[k] = IF k < i THEN s[k] ELSE s[k + 1]
  <2>1. SUFFICES ASSUME NEW k \in 1..(N - 1)
                 PROVE  (before \o behind)[k] = IF k < i THEN s[k] ELSE s[k + 1]
    OBVIOUS
  <2>2. CASE k < i
    BY <1>1, <1>2, <1>3, <1>5, <2>2
  <2>3. CASE ~(k < i)
    <3>1. k - (i - 1) \in 1..(N - i) /\ i + (k - (i - 1)) = k + 1
      BY <1>2, <2>3
    <3>2. behind[k - (i - 1)] = s[k + 1]
      BY <1>4, <3>1
    <3>. QED  BY <1>2, <1>5, <2>3, <3>2
  <2>. QED  BY <2>2, <2>3
<1>7. RemoveAt(s, i) = before \o behind
  BY DEF RemoveAt, before, behind
<1>8. DOMAIN (before \o behind) = 1..(N - 1)
  BY <1>5, LenProperties
<1>. QED  BY <1>1, <1>5, <1>6, <1>7, <1>8

\* A sequence of elements of a smaller set.
LEMMA SeqOfSmaller ==
  ASSUME NEW S, NEW T, NEW s \in Seq(S), \A k \in 1..Len(s) : s[k] \in T
  PROVE  s \in Seq(T)
<1>1. Len(s) \in Nat /\ s = [k \in 1..Len(s) |-> s[k]]
  BY LenProperties
<1>. QED  BY <1>1

\* The blocks L have their code in c, every instruction of D is in one place.
Places(L, c, D) ==
  /\ c \in [L -> Seq(D)]
  /\ \A n \in D : \E b \in L : \E i \in DOMAIN c[b] : c[b][i] = n
  /\ \A b, d \in L : \A i \in DOMAIN c[b], j \in DOMAIN c[d] :
       c[b][i] = c[d][j] => b = d /\ i = j

\* The code with an instruction put before the i-th of block B, and without
\* the i-th.
With(c, B, i, e) == [c EXCEPT ![B] = InsertAt(@, i, e)]
Without(c, B, i) == [c EXCEPT ![B] = RemoveAt(@, i)]

LEMMA BlockIs ==
  ASSUME NEW L, NEW c, NEW D, Places(L, c, D), NEW b \in L
  PROVE  /\ c[b] \in Seq(D) /\ DOMAIN c[b] = 1..Len(c[b]) /\ Len(c[b]) \in Nat
         /\ \A i \in DOMAIN c[b] : c[b][i] \in D
<1>1. c[b] \in Seq(D)
  BY DEF Places
<1>. QED  BY <1>1, LenProperties, ElementOfSeq

LEMMA InsertedPlaces ==
  ASSUME NEW L, NEW c, NEW D, Places(L, c, D), NEW B \in L,
         NEW i \in 1..(Len(c[B]) + 1), NEW e, e \notin D
  PROVE  Places(L, With(c, B, i, e), D \cup {e})
<1> DEFINE E == D \cup {e}
           s == c[B]
           t == InsertAt(s, i, e)
           new == [c EXCEPT ![B] = t]
<1>1. \A b \in L : c[b] \in Seq(E)
  <2>1. D \subseteq E
    OBVIOUS
  <2>. QED  BY <2>1, BlockIs, SeqMonotonic
<1>2. PICK N \in Nat : N = Len(s)
  BY BlockIs
<1>3. DOMAIN s = 1..N /\ \A k \in 1..N : s[k] \in D
  BY <1>2, BlockIs
<1>4. /\ t \in Seq(E) /\ DOMAIN t = 1..(N + 1)
      /\ \A k \in 1..(N + 1) : t[k] = IF k < i THEN s[k] ELSE IF k = i THEN e ELSE s[k - 1]
  <2>1. PICK r : r = s
    OBVIOUS
  <2>2. r \in Seq(E) /\ N = Len(r) /\ i \in 1..(Len(r) + 1) /\ e \in E /\ t = InsertAt(r, i, e)
    BY <1>1, <1>2, <2>1
  <2> HIDE DEF t, E, s
  <2>3. /\ InsertAt(r, i, e) \in Seq(E) /\ DOMAIN InsertAt(r, i, e) = 1..(Len(r) + 1)
        /\ \A k \in 1..(Len(r) + 1) :
             InsertAt(r, i, e)[k] = IF k < i THEN r[k] ELSE IF k = i THEN e ELSE r[k - 1]
    <3>1. r \in Seq(E)
      BY <2>2
    <3>2. i \in 1..(Len(r) + 1) /\ e \in E
      BY <2>2
    <3>. QED  BY <3>1, <3>2, Inserted
  <2>. QED  BY <2>1, <2>2, <2>3
<1> HIDE DEF t
<1>5. i \in 1..(N + 1)
  BY <1>2
<1>6. DOMAIN c = L /\ new[B] = t /\ \A b \in L \ {B} : new[b] = c[b]
  BY DEF Places
<1>7. new \in [L -> Seq(E)]
  BY <1>1, <1>4, <1>6 DEF Places
<1> HIDE DEF new
\* Where the instruction at the k-th place has gone to.
<1> DEFINE moved(k) == IF k < i THEN k ELSE k + 1
<1>8. \A k \in 1..N : moved(k) \in 1..(N + 1) /\ t[moved(k)] = s[k]
  <2>1. SUFFICES ASSUME NEW k \in 1..N PROVE moved(k) \in 1..(N + 1) /\ t[moved(k)] = s[k]
    OBVIOUS
  <2>2. CASE k < i
    BY <1>4, <1>5, <2>2
  <2>3. CASE k >= i
    <3>1. moved(k) = k + 1 /\ k + 1 \in 1..(N + 1) /\ k + 1 > i /\ (k + 1) - 1 = k
      BY <1>5, <2>3
    <3>2. t[k + 1] = s[(k + 1) - 1]
      BY <1>4, <1>5, <3>1
    <3>. QED  BY <3>1, <3>2
  <2>. QED  BY <1>5, <2>2, <2>3
<1>9. t[i] = e /\ i \in DOMAIN t
  BY <1>4, <1>5
<1>10. \A n \in E : \E b \in L : \E k \in DOMAIN new[b] : new[b][k] = n
  <2>0. SUFFICES ASSUME NEW n \in D PROVE \E b \in L : \E k \in DOMAIN new[b] : new[b][k] = n
    BY <1>6, <1>9
  <2>1. PICK b \in L : \E k \in DOMAIN c[b] : c[b][k] = n
    BY DEF Places
  <2>2. PICK k \in DOMAIN c[b] : c[b][k] = n
    BY <2>1
  <2>3. CASE b = B
    BY <1>3, <1>4, <1>6, <1>8, <2>2, <2>3
  <2>4. CASE b # B
    BY <1>6, <2>2, <2>4
  <2>. QED  BY <2>3, <2>4
\* What is at a place of t other than the i-th was in s, at that place or before.
<1> DEFINE old(k) == IF k < i THEN k ELSE k - 1
<1>11. \A k \in (1..(N + 1)) \ {i} : old(k) \in 1..N /\ t[k] = s[old(k)]
  BY <1>4, <1>5
<1>12. \A k, m \in (1..(N + 1)) \ {i} : old(k) = old(m) => k = m
  BY <1>5
<1>13. \A k \in (1..(N + 1)) \ {i} : t[k] # e
  BY <1>3, <1>11
<1> HIDE DEF moved, old
<1>14. ASSUME NEW b \in L, NEW d \in L, NEW k, NEW m, k \in DOMAIN new[b], m \in DOMAIN new[d],
              new[b][k] = new[d][m]
       PROVE  b = d /\ k = m
  <2>1. CASE b = B /\ d = B
    <3>1. CASE k = i \/ m = i
      BY <1>4, <1>6, <1>9, <1>13, <1>14, <2>1, <3>1
    <3>2. CASE k # i /\ m # i
      <4>0. k \in (1..(N + 1)) \ {i} /\ m \in (1..(N + 1)) \ {i}
        BY <1>4, <1>6, <1>14, <2>1, <3>2
      <4>1. old(k) \in DOMAIN s /\ old(m) \in DOMAIN s /\ s[old(k)] = s[old(m)]
        BY <1>3, <1>6, <1>11, <1>14, <2>1, <4>0
      <4>2. old(k) = old(m)
        BY <4>1 DEF Places
      <4>. QED  BY <1>12, <2>1, <4>0, <4>2
    <3>. QED  BY <3>1, <3>2
  <2>2. CASE b = B /\ d # B
    <3>1. c[d][m] \in D /\ m \in DOMAIN c[d] /\ t[k] = c[d][m]
      BY <1>6, <1>14, <2>2, BlockIs
    <3>2. k # i
      BY <1>9, <3>1
    <3>3. k \in (1..(N + 1)) \ {i}
      BY <1>4, <1>6, <1>14, <2>2, <3>2
    <3>4. old(k) \in DOMAIN s /\ s[old(k)] = c[d][m]
      BY <1>3, <1>11, <3>1, <3>3
    <3>. QED  BY <2>2, <3>1, <3>4 DEF Places
  <2>3. CASE b # B /\ d = B
    <3>1. c[b][k] \in D /\ k \in DOMAIN c[b] /\ t[m] = c[b][k]
      BY <1>6, <1>14, <2>3, BlockIs
    <3>2. m # i
      BY <1>9, <3>1
    <3>3. m \in (1..(N + 1)) \ {i}
      BY <1>4, <1>6, <1>14, <2>3, <3>2
    <3>4. old(m) \in DOMAIN s /\ s[old(m)] = c[b][k]
      BY <1>3, <1>11, <3>1, <3>3
    <3>. QED  BY <2>3, <3>1, <3>4 DEF Places
  <2>4. CASE b # B /\ d # B
    BY <1>6, <1>14, <2>4 DEF Places
  <2>. QED  BY <2>1, <2>2, <2>3, <2>4
<1>15. Places(L, new, E)
  BY <1>7, <1>10, <1>14 DEF Places
<1>. QED  BY <1>15 DEF With, new, t

LEMMA RemovedPlaces ==
  ASSUME NEW L, NEW c, NEW D, Places(L, c, D), NEW B \in L, NEW i \in DOMAIN c[B]
  PROVE  Places(L, Without(c, B, i), D \ {c[B][i]})
<1> DEFINE e == c[B][i]
           E == D \ {e}
           s == c[B]
           t == RemoveAt(s, i)
           new == [c EXCEPT ![B] = t]
<1>2. PICK N \in Nat : N = Len(s)
  BY BlockIs
<1>3. DOMAIN s = 1..N /\ \A k \in 1..N : s[k] \in D
  BY <1>2, BlockIs
<1>4. /\ t \in Seq(D) /\ DOMAIN t = 1..(N - 1) /\ Len(t) = N - 1
      /\ \A k \in 1..(N - 1) : t[k] = IF k < i THEN s[k] ELSE s[k + 1]
  <2>1. s \in Seq(D) /\ i \in DOMAIN s
    BY BlockIs
  <2> HIDE DEF s
  <2>2. /\ t \in Seq(D) /\ Len(t) = Len(s) - 1 /\ DOMAIN t = 1..(Len(s) - 1)
        /\ \A k \in 1..(Len(s) - 1) : t[k] = IF k < i THEN s[k] ELSE s[k + 1]
    BY <2>1, Removed DEF t
  <2>. QED  BY <1>2, <2>2
<1> HIDE DEF t
<1>5. i \in 1..N
  BY <1>3
<1>6. DOMAIN c = L /\ new[B] = t /\ \A b \in L \ {B} : new[b] = c[b]
  BY DEF Places
<1> HIDE DEF new
<1> DEFINE old(k) == IF k < i THEN k ELSE k + 1
<1>7. \A k \in 1..(N - 1) : old(k) \in 1..N /\ old(k) # i /\ t[k] = s[old(k)]
  BY <1>4, <1>5
<1>8. \A k, m \in 1..(N - 1) : old(k) = old(m) => k = m
  BY <1>5
<1>9. \A m \in (1..N) \ {i} : \E k \in 1..(N - 1) : old(k) = m
  <2>1. SUFFICES ASSUME NEW m \in (1..N) \ {i} PROVE \E k \in 1..(N - 1) : old(k) = m
    OBVIOUS
  <2>2. CASE m < i
    <3>1. m \in 1..(N - 1) /\ old(m) = m
      BY <1>5, <2>2
    <3>. QED  BY <3>1
  <2>3. CASE m > i
    <3>1. m - 1 \in 1..(N - 1) /\ old(m - 1) = m
      BY <1>5, <2>3
    <3>. QED  BY <3>1
  <2>. QED  BY <1>5, <2>2, <2>3
<1> HIDE DEF old
<1>10. \A k \in 1..(N - 1) : t[k] \in E
  <2>1. SUFFICES ASSUME NEW k \in 1..(N - 1) PROVE s[old(k)] \in D \ {e}
    BY <1>7
  <2>2. old(k) \in DOMAIN s /\ i \in DOMAIN s /\ old(k) # i
    BY <1>3, <1>7
  <2>3. s[old(k)] # s[i]
    BY <2>2 DEF Places
  <2>. QED  BY <1>3, <1>7, <2>3
<1>11. ASSUME NEW b \in L PROVE new[b] \in Seq(E)
  <2>1. CASE b = B
    <3>1. \A k \in 1..Len(t) : t[k] \in E
      BY <1>4, <1>10
    <3>. QED  BY <1>4, <1>6, <2>1, <3>1, SeqOfSmaller
  <2>2. CASE b # B
    <3>1. \A k \in 1..Len(c[b]) : c[b][k] \in E
      <4>1. SUFFICES ASSUME NEW k \in DOMAIN c[b] PROVE c[b][k] \in D /\ c[b][k] # c[B][i]
        BY BlockIs
      <4>. QED  BY <2>2, BlockIs DEF Places
    <3>. QED  BY <1>6, <2>2, <3>1, SeqOfSmaller, BlockIs
  <2>. QED  BY <2>1, <2>2
<1>12. new \in [L -> Seq(E)]
  <2>1. new = [b \in L |-> new[b]]
    BY DEF new, Places
  <2>. QED  BY <1>11, <2>1
<1>13. ASSUME NEW n \in E PROVE \E b \in L : \E k \in DOMAIN new[b] : new[b][k] = n
  <2>1. PICK b \in L : \E k \in DOMAIN c[b] : c[b][k] = n
    BY DEF Places
  <2>2. PICK k \in DOMAIN c[b] : c[b][k] = n
    BY <2>1
  <2>3. CASE b = B
    <3>1. k \in (1..N) \ {i}
      BY <1>3, <2>2, <2>3
    <3>2. PICK m \in 1..(N - 1) : old(m) = k
      BY <1>9, <3>1
    <3>. QED  BY <1>4, <1>6, <1>7, <2>2, <2>3, <3>2
  <2>4. CASE b # B
    BY <1>6, <2>2, <2>4
  <2>. QED  BY <2>3, <2>4
\* Where the instruction at a place was.
<1> DEFINE was(b, k) == IF b = B THEN old(k) ELSE k
<1>14. \A b \in L : \A k \in DOMAIN new[b] :
         was(b, k) \in DOMAIN c[b] /\ new[b][k] = c[b][was(b, k)]
  <2>1. SUFFICES ASSUME NEW b \in L, NEW k \in DOMAIN new[b]
                 PROVE  was(b, k) \in DOMAIN c[b] /\ new[b][k] = c[b][was(b, k)]
    OBVIOUS
  <2>2. CASE b = B
    BY <1>3, <1>4, <1>6, <1>7, <2>2
  <2>3. CASE b # B
    BY <1>6, <2>3
  <2>. QED  BY <2>2, <2>3
<1>15. ASSUME NEW b \in L, NEW d \in L, NEW k, NEW m, k \in DOMAIN new[b], m \in DOMAIN new[d],
              new[b][k] = new[d][m]
       PROVE  b = d /\ k = m
  <2>1. b = d /\ was(b, k) = was(d, m)
    <3>1. \A p, q \in L : \A a \in DOMAIN c[p], z \in DOMAIN c[q] :
            c[p][a] = c[q][z] => p = q /\ a = z
      BY DEF Places
    <3>2. was(b, k) \in DOMAIN c[b] /\ was(d, m) \in DOMAIN c[d] /\ c[b][was(b, k)] = c[d][was(d, m)]
      BY <1>14, <1>15
    <3> HIDE DEF was
    <3>. QED  BY <3>1, <3>2
  <2>2. CASE b = B
    BY <1>4, <1>6, <1>8, <1>15, <2>1, <2>2
  <2>3. CASE b # B
    BY <2>1, <2>3
  <2>. QED  BY <2>2, <2>3
<1>16. Places(L, new, E)
  BY <1>12, <1>13, <1>15 DEF Places
<1>. QED  BY <1>16 DEF Without, new, t

-----------------------------------------------------------------------------
(***************************************************************************)
(* The names of clones.  <<n, call>> could only be taken if an instruction *)
(* that was made from the call outlived it, or the call was made twice.    *)
(* Descends(y, c): y is c, or the clone for a call that descends from c.   *)
(***************************************************************************)
Closed(S) == \A m, d : <<m, d>> \in S => d \in S
Descends(y, c) == \A S : Closed(S) /\ y \in S => c \in S

LEMMA DescendsItself ==
  ASSUME NEW y
  PROVE  Descends(y, y)
BY DEF Descends

LEMMA DescendsFurther ==
  ASSUME NEW y, NEW c, NEW e, Descends(y, c), Descends(c, e)
  PROVE  Descends(y, e)
BY DEF Descends

LEMMA CloneDescends ==
  ASSUME NEW m, NEW d
  PROVE  Descends(<<m, d>>, d)
BY DEF Descends, Closed

LEMMA CloneDescendsBy ==
  ASSUME NEW m, NEW d, NEW e, Descends(<<m, d>>, e), e # <<m, d>>
  PROVE  Descends(d, e)
<1>1. SUFFICES ASSUME NEW S, Closed(S), d \in S PROVE e \in S
  BY DEF Descends
<1>2. Closed(S \cup {<<m, d>>})
  BY <1>1 DEF Closed
<1>3. e \in S \cup {<<m, d>>}
  BY <1>2 DEF Descends
<1>. QED  BY <1>3

LEMMA OriginalDescends ==
  ASSUME NEW y, NEW e, \A m, d : y # <<m, d>>, Descends(y, e)
  PROVE  e = y
<1>1. Closed({y})
  BY DEF Closed
<1>. QED  BY <1>1 DEF Descends

\* D: the instructions that exist; d: the call that is being inlined, if any;
\* M: the instructions that have been cloned for it.
Names(D, busy, d, M) ==
  /\ \A y \in D : \A n : ~Descends(y, <<n, y>>)
  /\ \A y, e \in D : Descends(y, e) => y = e \/ (busy /\ e = d /\ \E m \in M : y = <<m, d>>)

LEMMA NamesAtFirst ==
  ASSUME NEW D, \A m, d : <<m, d>> \notin D, NEW c, NEW M
  PROVE  Names(D, FALSE, c, M)
BY OriginalDescends DEF Names

LEMMA NamesForCall ==
  ASSUME NEW D, NEW c, NEW M, Names(D, FALSE, c, M), NEW busy \in BOOLEAN, NEW d, NEW K
  PROVE  Names(D, busy, d, K)
BY DEF Names

LEMMA NewName ==
  ASSUME NEW D, NEW d \in D, NEW M, Names(D, TRUE, d, M), NEW n, n \notin M
  PROVE  <<n, d>> \notin D
<1>1. SUFFICES ASSUME <<n, d>> \in D PROVE FALSE
  OBVIOUS
<1>2. Descends(<<n, d>>, d)
  BY CloneDescends
<1>3. <<n, d>> = d
  BY <1>1, <1>2 DEF Names
<1>. QED  BY <1>2, <1>3 DEF Names

LEMMA NamesWithClone ==
  ASSUME NEW D, NEW d \in D, NEW M, Names(D, TRUE, d, M), NEW n, n \notin M
  PROVE  Names(D \cup {<<n, d>>}, TRUE, d, M \cup {n})
<1> DEFINE c == <<n, d>>
<1>1. Descends(c, d) /\ ~Descends(d, c)
  BY CloneDescends DEF Names
<1>2. ASSUME NEW y \in D \cup {c}, NEW k PROVE ~Descends(y, <<k, y>>)
  <2>1. CASE y = c
    <3>1. SUFFICES ASSUME Descends(c, <<k, c>>) PROVE FALSE
      BY <2>1
    <3>2. CASE <<k, c>> = c
      <4>1. c = d
        BY <3>2
      <4>. QED  BY <1>1, <4>1
    <3>3. CASE <<k, c>> # c
      <4>1. Descends(d, <<k, c>>) /\ Descends(<<k, c>>, c)
        BY <3>1, <3>3, CloneDescendsBy, CloneDescends
      <4>. QED  BY <1>1, <4>1, DescendsFurther
    <3>. QED  BY <3>2, <3>3
  <2>2. CASE y \in D
    BY <2>2 DEF Names
  <2>. QED  BY <2>1, <2>2
<1>3. ASSUME NEW y \in D \cup {c}, NEW e \in D \cup {c}, Descends(y, e), y # e
      PROVE  e = d /\ \E m \in M \cup {n} : y = <<m, d>>
  <2>1. CASE y \in D /\ e \in D
    BY <1>3, <2>1 DEF Names
  <2>2. CASE y \in D /\ e = c
    <3>1. Descends(y, d)
      BY <1>1, <1>3, <2>2, DescendsFurther
    <3>2. CASE y = d
      BY <1>1, <1>3, <2>2, <3>2
    <3>3. CASE y # d
      <4>1. PICK m \in M : y = <<m, d>>
        BY <2>2, <3>1, <3>3 DEF Names
      <4>2. Descends(d, c)
        BY <1>3, <2>2, <4>1, CloneDescendsBy
      <4>. QED  BY <1>1, <4>2
    <3>. QED  BY <3>2, <3>3
  <2>3. CASE y = c /\ e \in D
    <3>1. Descends(d, e)
      BY <1>3, <2>3, CloneDescendsBy
    <3>2. e = d
      <4>1. SUFFICES ASSUME d # e PROVE FALSE
        OBVIOUS
      <4>. QED  BY <2>3, <3>1, <4>1 DEF Names
    <3>. QED  BY <2>3, <3>2
  <2>. QED  BY <1>3, <2>1, <2>2, <2>3
<1>. QED  BY <1>2, <1>3 DEF Names

LEMMA NamesWithoutCall ==
  ASSUME NEW D, NEW d, NEW M, Names(D, TRUE, d, M), NEW c, NEW K
  PROVE  Names(D \ {d}, FALSE, c, K)
BY DEF Names

-----------------------------------------------------------------------------
(***************************************************************************)
(* Use-lists.                                                              *)
(***************************************************************************)
IsSeq(s) == s = [k \in 1..Len(s) |-> s[k]] /\ Len(s) \in Nat

LEMMA IsSeqOf ==
  ASSUME NEW s, IsSeq(s)
  PROVE  s \in Seq(Range(s)) /\ DOMAIN s = 1..Len(s) /\ Len(s) \in Nat
<1>1. DOMAIN s = 1..Len(s) /\ Len(s) \in Nat
  BY DEF IsSeq
<1>2. \A k \in 1..Len(s) : s[k] \in Range(s)
  BY <1>1 DEF Range
<1>. QED  BY <1>1, <1>2 DEF IsSeq

LEMMA SeqIsSeq ==
  ASSUME NEW S, NEW s \in Seq(S)
  PROVE  IsSeq(s)
BY LenProperties DEF IsSeq

\* The list without w holds what it held, w apart.
LEMMA UnlinkedHolds ==
  ASSUME NEW l, IsSeq(l), NEW w
  PROVE  /\ IsSeq(Unlinked(l, w))
         /\ Range(Unlinked(l, w)) \subseteq Range(l)
         /\ Range(l) \ {w} \subseteq Range(Unlinked(l, w))
<1>1. CASE w \notin Range(l)
  BY <1>1 DEF Unlinked
<1>2. CASE w \in Range(l)
  <2> DEFINE i == Place(l, w)
  <2>1. PICK N \in Nat : N = Len(l) /\ DOMAIN l = 1..N
    BY IsSeqOf
  <2>2. i \in DOMAIN l /\ l[i] = w
    <3>1. \E j \in DOMAIN l : l[j] = w
      BY <1>2 DEF Range
    <3>. QED  BY <3>1 DEF Place
  <2> HIDE DEF i
  <2> DEFINE t == RemoveAt(l, i)
  <2>3. /\ t \in Seq(Range(l)) /\ DOMAIN t = 1..(N - 1)
        /\ \A k \in 1..(N - 1) : t[k] = IF k < i THEN l[k] ELSE l[k + 1]
    BY <2>1, <2>2, IsSeqOf, Removed
  <2>4. Unlinked(l, w) = t
    BY <1>2 DEF Unlinked, i
  <2> HIDE DEF t
  <2>5. IsSeq(t)
    BY <2>3, SeqIsSeq
  <2>6. Range(t) \subseteq Range(l)
    <3>1. SUFFICES ASSUME NEW k \in 1..(N - 1) PROVE t[k] \in Range(l)
      BY <2>3 DEF Range
    <3>2. k \in DOMAIN l /\ k + 1 \in DOMAIN l
      BY <2>1
    <3>. QED  BY <2>3, <3>2 DEF Range
  <2>7. ASSUME NEW v \in Range(l) \ {w} PROVE v \in Range(t)
    <3>1. PICK k \in DOMAIN l : l[k] = v
      BY DEF Range
    <3>2. k \in 1..N /\ i \in 1..N /\ k # i
      BY <2>1, <2>2, <3>1
    <3>3. CASE k < i
      <4>1. k \in 1..(N - 1) /\ t[k] = v
        BY <2>3, <3>1, <3>2, <3>3
      <4>. QED  BY <2>3, <4>1 DEF Range
    <3>4. CASE k > i
      <4>1. k - 1 \in 1..(N - 1) /\ ~(k - 1 < i) /\ (k - 1) + 1 = k
        BY <3>2, <3>4
      <4>2. t[k - 1] = v
        BY <2>3, <3>1, <4>1
      <4>. QED  BY <2>3, <4>1, <4>2 DEF Range
    <3>. QED  BY <3>2, <3>3, <3>4
  <2>. QED  BY <2>4, <2>5, <2>6, <2>7
<1>. QED  BY <1>1, <1>2

LEMMA FrontOfList ==
  ASSUME NEW l, IsSeq(l), NEW w
  PROVE  IsSeq(<<w>> \o l) /\ Range(<<w>> \o l) = {w} \cup Range(l)
<1>1. l \in Seq(Range(l) \cup {w}) /\ <<w>> \in Seq(Range(l) \cup {w})
  <2>1. Range(l) \subseteq Range(l) \cup {w}
    OBVIOUS
  <2>. QED  BY <2>1, IsSeqOf, SeqMonotonic
<1>2. PICK N \in Nat : N = Len(l) /\ DOMAIN l = 1..N
  BY IsSeqOf
<1>3. Len(<<w>>) = 1 /\ <<w>>[1] = w
  OBVIOUS
<1> DEFINE f == <<w>>
<1> HIDE DEF f
<1>4. /\ f \o l \in Seq(Range(l) \cup {w}) /\ Len(f \o l) = Len(f) + Len(l)
      /\ \A k \in 1..(Len(f) + Len(l)) : (f \o l)[k] = IF k <= Len(f) THEN f[k] ELSE l[k - Len(f)]
  BY <1>1, ConcatProperties DEF f
<1>5. Len(f) = 1 /\ f[1] = w
  BY <1>3 DEF f
<1>6. /\ DOMAIN (f \o l) = 1..(N + 1) /\ (f \o l)[1] = w
      /\ \A k \in 2..(N + 1) : (f \o l)[k] = l[k - 1]
  <2>1. DOMAIN (f \o l) = 1..(N + 1)
    BY <1>2, <1>4, <1>5, LenProperties
  <2>2. \A k \in 1..(N + 1) : (f \o l)[k] = IF k <= 1 THEN f[k] ELSE l[k - 1]
    BY <1>2, <1>4, <1>5
  <2>. QED  BY <1>5, <2>1, <2>2
<1>7. Range(f \o l) = {w} \cup Range(l)
  <2>1. ASSUME NEW k \in 1..(N + 1) PROVE (f \o l)[k] \in {w} \cup Range(l)
    <3>1. CASE k = 1
      BY <1>6, <3>1
    <3>2. CASE k # 1
      <4>1. k \in 2..(N + 1) /\ k - 1 \in 1..N
        BY <3>2
      <4>. QED  BY <1>2, <1>6, <4>1 DEF Range
    <3>. QED  BY <3>1, <3>2
  <2>2. ASSUME NEW k \in 1..N PROVE \E j \in 1..(N + 1) : (f \o l)[j] = l[k]
    <3>1. k + 1 \in 2..(N + 1) /\ (k + 1) - 1 = k /\ k + 1 \in 1..(N + 1)
      OBVIOUS
    <3>. QED  BY <1>6, <3>1
  <2>3. w \in Range(f \o l)
    <3>1. 1 \in 1..(N + 1)
      OBVIOUS
    <3>. QED  BY <1>6, <3>1 DEF Range
  <2> DEFINE g == f \o l
  <2>4. Range(g) \subseteq {w} \cup Range(l)
    <3>1. DOMAIN g = 1..(N + 1)
      BY <1>6
    <3> HIDE DEF g
    <3>2. \A k \in 1..(N + 1) : g[k] \in {w} \cup Range(l)
      BY <2>1 DEF g
    <3>. QED  BY <3>1, <3>2 DEF Range
  <2>5. Range(l) \subseteq Range(g)
    <3>1. \A k \in DOMAIN l : \E j \in DOMAIN g : g[j] = l[k]
      BY <1>2, <1>6, <2>2
    <3> HIDE DEF g
    <3>. QED  BY <3>1 DEF Range
  <2>. QED  BY <2>3, <2>4, <2>5
<1>. QED  BY <1>4, <1>7, SeqIsSeq DEF f

\* Where Use::getNext leads.
LEMMA NextIsListed ==
  ASSUME NEW ls, IsSeq(ls.call), IsSeq(ls.ret), NEW u, u \in Range(ls.call) \cup Range(ls.ret)
  PROVE  NextUse(ls, u) = NoUse \/ NextUse(ls, u) \in Range(ls.call) \cup Range(ls.ret)
<1> DEFINE l == IF u \in Range(ls.call) THEN ls.call ELSE ls.ret
           i == Place(l, u)
<1>1. IsSeq(l) /\ u \in Range(l) /\ Range(l) \subseteq Range(ls.call) \cup Range(ls.ret)
  OBVIOUS
<1>2. NextUse(ls, u) = IF i < Len(l) THEN l[i + 1] ELSE NoUse
  BY DEF NextUse
<1> HIDE DEF l
<1>3. i \in DOMAIN l
  <2>1. \E j \in DOMAIN l : l[j] = u
    BY <1>1 DEF Range
  <2>. QED  BY <2>1 DEF Place
<1> HIDE DEF i
<1>4. i < Len(l) => i + 1 \in DOMAIN l
  <2>1. PICK N \in Nat : N = Len(l) /\ DOMAIN l = 1..N
    BY <1>1, IsSeqOf
  <2>. QED  BY <1>3, <2>1
<1>. QED  BY <1>1, <1>2, <1>4 DEF Range

-----------------------------------------------------------------------------
(***************************************************************************)
(* The invariant of the pass on every module.                              *)
(***************************************************************************)

\* The values of a module are not pairs: no clone has the name of one.
Opaque == \A p \in Programs : \A m, d : <<m, d>> \notin DOMAIN p.inst \cup Named(p)

Position == (Nat \ {0}) \X (Nat \ {0})

Before(q, p) == q[1] < p[1] \/ (q[1] = p[1] /\ q[2] < p[2])

Cloning == pc \in {"clone", "users"}

IsInstr(i) ==
  /\ i = [op |-> i.op, kind |-> i.kind, ops |-> i.ops] /\ IsSeq(i.ops)
  /\ i.kind = "call" => Len(i.ops) > 0

Locals ==
  /\ prog \in Programs
  /\ pc \in {"caller", "undefined", "search", "clone", "users", "done"}
  /\ at \in Position /\ from \in Position
  /\ RetVal # Main

CodeInPlace == Places(Labels(prog), code, DOMAIN inst) /\ IsFiniteSet(DOMAIN inst)

\* Main is not called: what is cloned is not what is being changed.
Instructions == \A n \in DOMAIN inst : IsInstr(inst[n]) /\ Main \notin Range(Ops(n))

AtCall ==
  /\ Cloning => In(Main, at) /\ InstrAt(Main, at) = call
  /\ pc = "clone" => IsDirectCall(call)

\* The instructions that have been cloned come before the next one.
Cloned ==
  /\ Cloning => \A m \in DOMAIN vmap : vmap[m] = <<m, call>>
  /\ pc = "clone" => \A m \in DOMAIN vmap : \E q \in Position :
       Before(q, from) /\ In(Callee(call), q) /\ m = InstrAt(Callee(call), q)

NamesApart == Names(DOMAIN inst, Cloning, call, DOMAIN vmap)

UseLists ==
  /\ IsSeq(lists.call) /\ IsSeq(lists.ret)
  /\ use = NoUse \/ use \in Range(lists.call) \cup Range(lists.ret)
  /\ pc # "users" => use = NoUse

Types == Locals /\ CodeInPlace /\ Instructions /\ AtCall /\ Cloned /\ NamesApart /\ UseLists

\* The sequences a module is made of.
LEMMA ProgramIs ==
  ASSUME NEW p \in Programs
  PROVE  /\ \A f \in Functions : p.layout[f] \in Seq(Labels(p)) /\ p.params[f] \in Seq(Named(p))
         /\ \A b \in Labels(p) : p.code[b] \in Seq(DOMAIN p.inst)
<1>1. IsProgram(p)
  BY ProgramAssumption
<1>2. PICK l, a, c, L, N, D : l = p.layout /\ a = p.params /\ c = p.code
                            /\ L = Labels(p) /\ N = Named(p) /\ D = DOMAIN p.inst
  OBVIOUS
<1>3. l \in [Functions -> Seq(L)] /\ a \in [Functions -> Seq(N)] /\ c \in [L -> Seq(D)]
  BY <1>1, <1>2, Zenon DEF IsProgram
<1>4. \A f \in Functions : l[f] \in Seq(L) /\ a[f] \in Seq(N)
  BY <1>3
<1>5. \A b \in L : c[b] \in Seq(D)
  BY <1>3
<1>. QED  BY <1>2, <1>4, <1>5

LEMMA LabelsOfFunction ==
  ASSUME NEW p \in Programs, NEW f \in Functions
  PROVE  /\ IsSeq(p.layout[f]) /\ DOMAIN p.layout[f] = 1..Len(p.layout[f])
         /\ \A i \in DOMAIN p.layout[f] : p.layout[f][i] \in Labels(p)
         /\ Range(p.layout[f]) \subseteq Labels(p)
<1>1. p.layout[f] \in Seq(Labels(p))
  BY ProgramIs
<1>. QED  BY <1>1, SeqIsSeq, LenProperties, ElementOfSeq DEF Range

LEMMA LabelsApart ==
  ASSUME NEW p \in Programs, NEW f \in Functions, NEW g \in Functions,
         NEW i \in DOMAIN p.layout[f], NEW j \in DOMAIN p.layout[g],
         p.layout[f][i] = p.layout[g][j]
  PROVE  f = g /\ i = j
<1>1. \A e, h \in Functions : \A m \in DOMAIN p.layout[e], n \in DOMAIN p.layout[h] :
        p.layout[e][m] = p.layout[h][n] => e = h /\ m = n
  BY ProgramAssumption DEF IsProgram
<1>. QED  BY <1>1

LEMMA PositionIs ==
  ASSUME prog \in Programs, CodeInPlace, NEW f \in Functions, NEW q \in Position, In(f, q)
  PROVE  /\ q[1] \in DOMAIN Body(f) /\ Body(f)[q[1]] \in Labels(prog)
         /\ q[2] \in DOMAIN code[Body(f)[q[1]]] /\ InstrAt(f, q) \in DOMAIN inst
<1>1. q[1] \in DOMAIN Body(f)
  BY LabelsOfFunction DEF In, Position, Body, IsSeq
<1>2. Body(f)[q[1]] \in Labels(prog)
  BY <1>1, LabelsOfFunction DEF Body
<1> DEFINE b == Body(f)[q[1]]
<1>3. DOMAIN code[b] = 1..Len(code[b]) /\ Len(code[b]) \in Nat /\ \A i \in DOMAIN code[b] : code[b][i] \in DOMAIN inst
  BY <1>2, BlockIs DEF CodeInPlace
<1>4. q[2] \in DOMAIN code[b]
  BY <1>3 DEF In, Position
<1>. QED  BY <1>1, <1>2, <1>3, <1>4 DEF InstrAt

LEMMA OnePosition ==
  ASSUME prog \in Programs, CodeInPlace, NEW f \in Functions, NEW g \in Functions,
         NEW p \in Position, NEW q \in Position, In(f, p), In(g, q), InstrAt(f, p) = InstrAt(g, q)
  PROVE  f = g /\ p = q
<1>1. Body(f)[p[1]] = Body(g)[q[1]] /\ p[2] = q[2]
  BY PositionIs, SMTT(30) DEF CodeInPlace, Places, InstrAt
<1>2. f = g /\ p[1] = q[1]
  BY <1>1, PositionIs, LabelsApart DEF Body
<1>. QED  BY <1>1, <1>2 DEF Position

LEMMA AdvanceIs ==
  ASSUME NEW f, NEW q \in Position
  PROVE  /\ Advance(f, q) \in Position
         /\ Before(q, Advance(f, q))
         /\ \A r \in Position : Before(r, q) => Before(r, Advance(f, q))
BY DEF Advance, Position, Before

\* The operands of a clone.
LEMMA CloneIs ==
  ASSUME Opaque, Types, pc = "clone", In(Callee(call), from)
  PROVE  /\ IsInstr(Clone)
         /\ Main \notin Range(Clone.ops)
         /\ call \in DOMAIN inst /\ Callee(call) \in Functions \ {Main}
         /\ InstrAt(Callee(call), from) \in DOMAIN inst
<1> DEFINE n == InstrAt(Callee(call), from)
<1>1. call \in DOMAIN inst
  BY PositionIs, MainAssumption DEF Types, Locals, AtCall, Cloning
<1>2. Callee(call) \in Functions /\ IsInstr(inst[call]) /\ Len(Ops(call)) > 0
  BY <1>1 DEF Types, AtCall, IsDirectCall, CallsFunction, Callee, Instructions, IsInstr, Ops
<1>3. Callee(call) # Main
  <2>1. DOMAIN Ops(call) = 1..Len(Ops(call)) /\ Len(Ops(call)) \in Nat
    BY <1>2, IsSeqOf DEF IsInstr, Ops
  <2>2. Callee(call) \in Range(Ops(call))
    BY <1>2, <2>1 DEF Callee, Last, Range
  <2>. QED  BY <1>1, <2>2 DEF Types, Instructions
<1>4. n \in DOMAIN inst
  BY <1>2, PositionIs DEF Types, Locals
<1> HIDE DEF n
<1>5. IsInstr(inst[n]) /\ Main \notin Range(Ops(n)) /\ Main \notin Range(Ops(call))
  BY <1>1, <1>4 DEF Types, Instructions
<1>6. PICK N \in Nat : N = Len(Ops(n)) /\ DOMAIN Ops(n) = 1..N
  BY <1>5, IsSeqOf DEF IsInstr, Ops
<1> DEFINE ops == Remap(Subst(n))
<1>7. DOMAIN Subst(n) = 1..N /\ DOMAIN ops = 1..N
  BY <1>6 DEF Subst, Remap
<1>8. \A k \in 1..N : Subst(n)[k] # Main
  <2>1. SUFFICES ASSUME NEW k \in 1..N PROVE Subst(n)[k] # Main
    OBVIOUS
  <2>2. Ops(n)[k] # Main
    BY <1>5, <1>6 DEF Range
  <2>3. \A a \in Nat \ {0} : Argument(a) # Main
    <3>1. DOMAIN Ops(call) = 1..Len(Ops(call)) /\ Len(Ops(call)) \in Nat
      BY <1>2, IsSeqOf DEF IsInstr, Ops
    <3>2. \A a \in DOMAIN Ops(call) : Ops(call)[a] # Main
      BY <1>5 DEF Range
    <3>. QED  BY <3>1, <3>2, MainAssumption DEF Argument
  <2>4. DOMAIN Params(Callee(call)) \subseteq Nat \ {0}
    <3>1. Params(Callee(call)) \in Seq(Named(prog))
      BY <1>2, ProgramIs DEF Params, Types, Locals
    <3>. QED  BY <3>1, LenProperties
  <2>. QED  BY <1>6, <2>2, <2>3, <2>4 DEF Subst
<1>9. \A k \in 1..N : ops[k] # Main
  <2>1. \A m \in DOMAIN vmap : vmap[m] # Main
    <3>1. Main \in Named(prog)
      BY MainAssumption DEF Named
    <3>. QED  BY <3>1 DEF Types, Cloned, Cloning, Opaque, Locals
  <2>. QED  BY <1>7, <1>8, <2>1 DEF Remap
<1>10. IsSeq(ops) /\ Len(ops) = N
  <2>1. ops = [k \in 1..N |-> ops[k]]
    BY <1>7 DEF Remap
  <2> HIDE DEF ops
  <2>2. ops \in Seq(Range(ops))
    BY <1>7, <2>1 DEF Range
  <2>. QED  BY <1>7, <2>2, SeqIsSeq, LenProperties
<1>11. Clone = [inst[n] EXCEPT !.ops = ops]
  BY DEF Clone, n
<1>12. /\ Clone.op = inst[n].op /\ Clone.kind = inst[n].kind /\ Clone.ops = ops
       /\ Clone = [op |-> Clone.op, kind |-> Clone.kind, ops |-> Clone.ops]
  <2>1. inst[n] = [op |-> inst[n].op, kind |-> inst[n].kind, ops |-> inst[n].ops]
    BY <1>5 DEF IsInstr
  <2> HIDE DEF ops
  <2>. QED  BY <1>11, <2>1
<1> HIDE DEF ops
<1>13. IsInstr(Clone)
  BY <1>5, <1>6, <1>10, <1>12 DEF IsInstr, Ops
<1>14. Main \notin Range(Clone.ops)
  BY <1>7, <1>9, <1>12 DEF Range
<1>. QED  BY <1>1, <1>2, <1>3, <1>4, <1>13, <1>14 DEF n

\* The module as it was written has not been changed: no instruction is a
\* clone, and inlineOnce has not started.
LEMMA TypesInit ==
  ASSUME Opaque, Init
  PROVE  Types
<1>1. /\ prog \in Programs /\ code = prog.code /\ inst = prog.inst /\ pc = "caller"
      /\ at = First /\ from = First /\ RetVal = Garbage /\ lists = NoLists /\ use = NoUse
  BY DEF Init
<1>2. /\ IsProgram(prog) /\ InOnePlace(prog) /\ NoCallOfMain(prog)
  BY <1>1, ProgramAssumption
<1>3. First \in Position
  BY DEF First, Position
<1>4. Locals
  BY <1>1, <1>3, MainAssumption DEF Locals
<1>5. CodeInPlace
  BY <1>1, <1>2 DEF CodeInPlace, Places, IsProgram, InOnePlace
<1>6. Instructions
  <2>1. SUFFICES ASSUME NEW n \in DOMAIN inst PROVE IsInstr(inst[n]) /\ Main \notin Range(Ops(n))
    BY DEF Instructions
  <2>2. inst[n] \in [op : STRING, kind : STRING, ops : Seq(DOMAIN prog.inst \cup Named(prog))]
    BY <1>1, <1>2 DEF IsProgram
  <2>3. IsSeq(inst[n].ops)
    BY <2>2, SeqIsSeq
  <2>4. inst[n].kind = "call" => Len(inst[n].ops) > 0
    <3>1. inst[n].kind = "call" => inst[n].ops # <<>>
      BY <1>1, <1>2 DEF IsProgram
    <3>. QED  BY <2>2, <3>1, EmptySeq, LenProperties
  <2>5. Main \notin Range(Ops(n))
    BY <1>1, <1>2 DEF NoCallOfMain, Ops
  <2>. QED  BY <2>2, <2>3, <2>4, <2>5 DEF IsInstr
<1>7. AtCall /\ Cloned
  BY <1>1 DEF AtCall, Cloned, Cloning
<1>8. NamesApart
  <2>1. ~Cloning /\ \A m, d : <<m, d>> \notin DOMAIN inst
    BY <1>1 DEF Cloning, Opaque
  <2>2. Names(DOMAIN inst, FALSE, call, DOMAIN vmap)
    BY <2>1, NamesAtFirst
  <2>3. Cloning = FALSE
    BY <2>1 DEF Cloning
  <2>. QED  BY <2>2, <2>3 DEF NamesApart
<1>9. UseLists
  <2>1. IsSeq(<<>>)
    BY EmptySeq, SeqIsSeq
  <2>. QED  BY <1>1, <2>1 DEF UseLists, NoLists
<1>. QED  BY <1>4, <1>5, <1>6, <1>7, <1>8, <1>9 DEF Types

\* No call is being inlined before and after the step.
LEMMA TypesSearch ==
  ASSUME Types, FindCaller \/ PassOver \/ Return
  PROVE  Types'
<1>1. /\ prog' = prog /\ code' = code /\ inst' = inst /\ call' = call /\ from' = from /\ vmap' = vmap
      /\ RetVal' = RetVal /\ lists' = lists /\ use' = use
      /\ ~Cloning /\ ~Cloning' /\ pc # "users" /\ pc' # "clone" /\ pc' # "users"
      /\ pc' \in {"caller", "undefined", "search", "clone", "users", "done"}
      /\ at' \in Position
  BY AdvanceIs DEF FindCaller, PassOver, Return, module, cloning, replacing, Cloning, Types, Locals
<1>2. Locals' /\ CodeInPlace' /\ Instructions' /\ UseLists'
  BY <1>1 DEF Types, Locals, CodeInPlace, Instructions, UseLists, Ops
<1>3. AtCall' /\ Cloned'
  BY <1>1 DEF AtCall, Cloned, Cloning
<1>4. NamesApart'
  <2>1. Cloning = FALSE /\ Cloning' = FALSE
    BY <1>1 DEF Cloning
  <2>. QED  BY <1>1, <2>1 DEF Types, NamesApart
<1>. QED  BY <1>2, <1>3, <1>4 DEF Types

LEMMA TypesFindCall ==
  ASSUME Types, FindCall
  PROVE  Types'
<1>1. /\ pc = "search" /\ pc' = "clone" /\ In(Main, at) /\ IsDirectCall(InstrAt(Main, at))
      /\ prog' = prog /\ code' = code /\ inst' = inst /\ at' = at /\ call' = InstrAt(Main, at)
      /\ from' = First /\ vmap' = NoMap /\ RetVal' = Garbage /\ lists' = lists /\ use' = use
  BY DEF FindCall, module, replacing
<1>2. First \in Position
  BY DEF First, Position
<1>3. Locals' /\ CodeInPlace' /\ Instructions' /\ UseLists'
  BY <1>1, <1>2, MainAssumption DEF Types, Locals, CodeInPlace, Instructions, UseLists, Ops
<1>4. AtCall'
  BY <1>1 DEF AtCall, In, InstrAt, Body, IsDirectCall, Callee, Ops
<1>5. Cloned'
  BY <1>1 DEF Cloned, NoMap
<1>6. NamesApart'
  <2>1. Cloning = FALSE /\ Cloning' = TRUE
    BY <1>1 DEF Cloning
  <2>2. Names(DOMAIN inst, FALSE, call, DOMAIN vmap)
    BY <2>1 DEF Types, NamesApart
  <2>3. Names(DOMAIN inst, TRUE, call', DOMAIN vmap')
    BY <2>2, NamesForCall
  <2>. QED  BY <1>1, <2>1, <2>3 DEF NamesApart
<1>. QED  BY <1>3, <1>4, <1>5, <1>6 DEF Types

LEMMA NotYetCloned ==
  ASSUME Types, pc = "clone", In(Callee(call), from), Callee(call) \in Functions
  PROVE  InstrAt(Callee(call), from) \notin DOMAIN vmap
<1>1. SUFFICES ASSUME NEW m \in DOMAIN vmap, m = InstrAt(Callee(call), from) PROVE FALSE
  OBVIOUS
<1>2. PICK q \in Position : Before(q, from) /\ In(Callee(call), q) /\ m = InstrAt(Callee(call), q)
  BY DEF Types, Cloned
<1>3. q = from
  BY <1>1, <1>2, OnePosition DEF Types, Locals
<1>. QED  BY <1>2, <1>3 DEF Before, Position

\* Where an instruction is inserted before the call.
LEMMA InsertedBeforeCall ==
  ASSUME Types, Cloning, NEW e, e \notin DOMAIN inst
  PROVE  LET B == Body(Main)[at[1]]
             new == With(code, B, at[2], e)
         IN  /\ B \in Labels(prog) /\ at[1] <= Len(Body(Main)) /\ at[2] \in DOMAIN code[B]
             /\ Places(Labels(prog), new, DOMAIN inst \cup {e})
             /\ at[2] + 1 <= Len(new[B]) /\ new[B][at[2] + 1] = call /\ new[B][at[2]] = e
             /\ \A b \in Labels(prog) : b # B => new[b] = code[b]
<1> DEFINE B == Body(Main)[at[1]]
           i == at[2]
           s == code[B]
           new == With(code, B, i, e)
<1>1. /\ B \in Labels(prog) /\ at[1] \in DOMAIN Body(Main) /\ at[1] <= Len(Body(Main)) /\ i \in DOMAIN s
      /\ s[i] = call
  BY PositionIs, MainAssumption DEF Types, Locals, AtCall, In, InstrAt
<1>2. s \in Seq(DOMAIN inst) /\ DOMAIN code = Labels(prog)
  BY <1>1, BlockIs DEF Types, CodeInPlace, Places
<1>3. PICK N \in Nat : N = Len(s) /\ DOMAIN s = 1..N
  BY <1>2, LenProperties
<1>4. new[B] = InsertAt(s, i, e)
  BY <1>1, <1>2 DEF With
<1>5. \A b \in Labels(prog) : b # B => new[b] = code[b]
  BY <1>2 DEF With
<1>7. i \in 1..(Len(s) + 1)
  BY <1>1, <1>3
<1>8. Places(Labels(prog), new, DOMAIN inst \cup {e})
  BY <1>1, <1>7, InsertedPlaces DEF Types, CodeInPlace
<1> DEFINE T == DOMAIN inst \cup {e}
<1>9. s \in Seq(T) /\ e \in T
  <2>1. DOMAIN inst \subseteq T
    OBVIOUS
  <2>. QED  BY <1>2, <2>1, SeqMonotonic
<1> HIDE DEF s
<1>11. i + 1 <= Len(InsertAt(s, i, e)) /\ InsertAt(s, i, e)[i + 1] = s[i] /\ InsertAt(s, i, e)[i] = e
  <2>1. i \in 1..(Len(s) + 1) /\ i # Len(s) + 1
    BY <1>1, <1>3
  <2>. QED  BY <1>9, <2>1, InsertedBefore
<1> HIDE DEF new
<1>10. i + 1 <= Len(new[B]) /\ new[B][i + 1] = call /\ new[B][i] = e
  BY <1>1, <1>4, <1>11
<1>. QED  BY <1>1, <1>5, <1>8, <1>10 DEF new, s

\* What the cloning of an instruction changes.
LEMMA CloneStep ==
  ASSUME Opaque, Types, CloneInstruction
  PROVE  LET n == InstrAt(Callee(call), from)
             c == <<n, call>>
             B == Body(Main)[at[1]]
             D == DOMAIN inst
         IN  /\ call \in D /\ n \in D /\ c \notin D /\ n \notin DOMAIN vmap
             /\ Names(D \cup {c}, TRUE, call, DOMAIN vmap \cup {n})
             /\ DOMAIN inst' = D \cup {c} /\ inst'[c] = Clone /\ \A m \in D : inst'[m] = inst[m]
             /\ DOMAIN vmap' = DOMAIN vmap \cup {n} /\ vmap'[n] = c
             /\ \A m \in DOMAIN vmap : vmap'[m] = vmap[m]
             /\ B \in Labels(prog) /\ at[1] <= Len(Body(Main)) /\ at[2] \in DOMAIN code[B]
             /\ code' = With(code, B, at[2], c) /\ Places(Labels(prog), code', D \cup {c})
             /\ at[2] + 1 <= Len(code'[B]) /\ code'[B][at[2] + 1] = call
             /\ \A f \in Functions \ {Main} : \A i \in DOMAIN Body(f) : code'[Body(f)[i]] = code[Body(f)[i]]
<1> DEFINE n == InstrAt(Callee(call), from)
           c == <<n, call>>
           B == Body(Main)[at[1]]
           D == DOMAIN inst
<1>1. /\ pc = "clone" /\ In(Callee(call), from)
      /\ code' = [code EXCEPT ![B] = InsertAt(@, at[2], c)]
      /\ inst' = Extend(inst, c, Clone) /\ vmap' = Extend(vmap, n, c)
  BY DEF CloneInstruction
<1>2. call \in D /\ Callee(call) \in Functions \ {Main} /\ n \in D
  BY <1>1, CloneIs
<1>3. n \notin DOMAIN vmap
  BY <1>1, <1>2, NotYetCloned
<1>4. Cloning /\ Cloning = TRUE
  BY <1>1 DEF Cloning
<1>5. Names(D, TRUE, call, DOMAIN vmap)
  BY <1>4 DEF Types, NamesApart
<1> HIDE DEF n
<1>6. c \notin D /\ Names(D \cup {c}, TRUE, call, DOMAIN vmap \cup {n})
  BY <1>2, <1>3, <1>5, NewName, NamesWithClone
<1>7. /\ DOMAIN inst' = D \cup {c} /\ inst'[c] = Clone /\ \A m \in D : inst'[m] = inst[m]
      /\ DOMAIN vmap' = DOMAIN vmap \cup {n} /\ vmap'[n] = c /\ \A m \in DOMAIN vmap : vmap'[m] = vmap[m]
  BY <1>1, <1>3, <1>6 DEF Extend
<1>8. code' = With(code, B, at[2], c)
  BY <1>1 DEF With
<1>9. /\ B \in Labels(prog) /\ at[1] <= Len(Body(Main)) /\ at[2] \in DOMAIN code[B]
      /\ Places(Labels(prog), code', D \cup {c})
      /\ at[2] + 1 <= Len(code'[B]) /\ code'[B][at[2] + 1] = call
      /\ \A f \in Functions \ {Main} : \A i \in DOMAIN Body(f) : code'[Body(f)[i]] = code[Body(f)[i]]
  <2> DEFINE new == With(code, B, at[2], c)
  <2>1. /\ B \in Labels(prog) /\ at[1] <= Len(Body(Main)) /\ at[2] \in DOMAIN code[B]
        /\ Places(Labels(prog), new, D \cup {c})
        /\ at[2] + 1 <= Len(new[B]) /\ new[B][at[2] + 1] = call
        /\ \A f \in Functions \ {Main} : \A i \in DOMAIN Body(f) : new[Body(f)[i]] = code[Body(f)[i]]
    <3>1. c \notin DOMAIN inst /\ Cloning
      BY <1>4, <1>6
    <3> HIDE DEF c
    <3>2. B \in Labels(prog) /\ at[1] <= Len(Body(Main)) /\ at[2] \in DOMAIN code[B]
      BY <3>1, InsertedBeforeCall
    <3>3. Places(Labels(prog), new, DOMAIN inst \cup {c})
      BY <3>1, InsertedBeforeCall
    <3>4. at[2] + 1 <= Len(new[B]) /\ new[B][at[2] + 1] = call
      BY <3>1, InsertedBeforeCall
    <3>5. ASSUME NEW f \in Functions \ {Main}, NEW i \in DOMAIN Body(f)
          PROVE  new[Body(f)[i]] = code[Body(f)[i]]
      <4>1. Body(f)[i] # B /\ Body(f)[i] \in Labels(prog)
        <5>1. at[1] \in DOMAIN Body(Main)
          BY <1>4, PositionIs, MainAssumption DEF Types, Locals, AtCall
        <5>. QED  BY <5>1, LabelsOfFunction, LabelsApart, MainAssumption DEF Types, Locals, Body
      <4>2. \A b \in Labels(prog) : b # B => new[b] = code[b]
        BY <3>1, InsertedBeforeCall
      <4>. QED  BY <4>1, <4>2
    <3>. QED  BY <3>2, <3>3, <3>4, <3>5
  <2>2. code' = new
    BY <1>8
  <2> HIDE DEF new
  <2>. QED  BY <2>1, <2>2
<1>. QED  BY <1>2, <1>3, <1>6, <1>7, <1>8, <1>9 DEF n

LEMMA TypesCloneInstruction ==
  ASSUME Opaque, Types, CloneInstruction
  PROVE  Types'
<1> DEFINE n == InstrAt(Callee(call), from)
           c == <<n, call>>
           B == Body(Main)[at[1]]
           D == DOMAIN inst
<1>1. /\ pc = "clone" /\ pc' = "clone" /\ In(Callee(call), from)
      /\ at' = <<at[1], at[2] + 1>> /\ from' = Advance(Callee(call), from)
      /\ prog' = prog /\ call' = call /\ RetVal' = RetVal /\ lists' = lists /\ use' = use
  BY DEF CloneInstruction, replacing
<1>2. /\ IsInstr(Clone) /\ Main \notin Range(Clone.ops)
      /\ call \in D /\ Callee(call) \in Functions \ {Main}
  BY <1>1, CloneIs
<1>4. Cloning /\ Cloning' /\ Cloning = TRUE /\ Cloning' = TRUE
  BY <1>1 DEF Cloning
<1>6. /\ Names(D \cup {c}, TRUE, call, DOMAIN vmap \cup {n})
      /\ DOMAIN inst' = D \cup {c} /\ inst'[c] = Clone /\ \A m \in D : inst'[m] = inst[m]
      /\ DOMAIN vmap' = DOMAIN vmap \cup {n} /\ vmap'[n] = c /\ \A m \in DOMAIN vmap : vmap'[m] = vmap[m]
      /\ B \in Labels(prog) /\ at[1] <= Len(Body(Main)) /\ at[2] \in DOMAIN code[B]
      /\ Places(Labels(prog), code', D \cup {c})
      /\ at[2] + 1 <= Len(code'[B]) /\ code'[B][at[2] + 1] = call
      /\ \A f \in Functions \ {Main} : \A i \in DOMAIN Body(f) : code'[Body(f)[i]] = code[Body(f)[i]]
  BY CloneStep
<1> HIDE DEF n
<1>7. /\ DOMAIN inst' = D \cup {c} /\ inst'[c] = Clone /\ \A m \in D : inst'[m] = inst[m]
      /\ DOMAIN vmap' = DOMAIN vmap \cup {n} /\ vmap'[n] = c /\ \A m \in DOMAIN vmap : vmap'[m] = vmap[m]
  BY <1>6
<1>8. /\ B \in Labels(prog) /\ at[1] <= Len(Body(Main)) /\ at[2] \in DOMAIN code[B]
      /\ Places(Labels(prog), code', D \cup {c})
      /\ at[2] + 1 <= Len(code'[B]) /\ code'[B][at[2] + 1] = call
      /\ \A f \in Functions \ {Main} : \A i \in DOMAIN Body(f) : code'[Body(f)[i]] = code[Body(f)[i]]
  BY <1>6
<1>9. Locals'
  BY <1>1, AdvanceIs DEF Types, Locals, Position
<1>10. CodeInPlace'
  <2>1. IsFiniteSet(D \cup {c})
    BY FS_AddElement DEF Types, CodeInPlace
  <2>. QED  BY <1>1, <1>7, <1>8, <2>1 DEF CodeInPlace
<1>11. Instructions'
  BY <1>2, <1>7 DEF Types, Instructions, Ops
<1>12. AtCall'
  <2>1. In(Main, at)' /\ InstrAt(Main, at)' = call'
    BY <1>1, <1>8 DEF In, InstrAt, Body
  <2>2. IsDirectCall(call)'
    BY <1>1, <1>2, <1>7 DEF Types, AtCall, IsDirectCall, Callee, Ops
  <2>. QED  BY <2>1, <2>2 DEF AtCall
<1>13. Callee(call)' = Callee(call)
  BY <1>1, <1>2, <1>7 DEF Callee, Ops
<1>14. ASSUME NEW q \in Position, In(Callee(call), q)
       PROVE  In(Callee(call), q)' /\ InstrAt(Callee(call), q)' = InstrAt(Callee(call), q)
  <2>1. q[1] \in DOMAIN Body(Callee(call))
    BY <1>2, <1>14, PositionIs DEF Types, Locals
  <2>2. Body(Callee(call))' = Body(Callee(call))
    BY <1>1, <1>13 DEF Body
  <2>3. code'[Body(Callee(call))[q[1]]] = code[Body(Callee(call))[q[1]]]
    BY <1>2, <1>8, <2>1
  <2>. QED  BY <1>13, <1>14, <2>2, <2>3 DEF In, InstrAt
<1>15. Cloned'
  <2>1. \A m \in DOMAIN vmap' : vmap'[m] = <<m, call'>>
    BY <1>1, <1>4, <1>7 DEF Types, Cloned
  <2>2. ASSUME NEW m \in DOMAIN vmap'
        PROVE  \E q \in Position :
                 Before(q, from') /\ In(Callee(call), q)' /\ m = InstrAt(Callee(call), q)'
    <3>1. PICK q \in Position :
            (q = from \/ Before(q, from)) /\ In(Callee(call), q) /\ m = InstrAt(Callee(call), q)
      <4>1. CASE m = n
        BY <1>1, <4>1 DEF n, Types, Locals
      <4>2. CASE m \in DOMAIN vmap
        BY <1>1, <4>2 DEF Types, Cloned
      <4>. QED  BY <1>7, <4>1, <4>2
    <3>2. Before(q, from')
      BY <1>1, <3>1, AdvanceIs DEF Types, Locals
    <3>. QED  BY <1>14, <3>1, <3>2
  <2>. QED  BY <2>1, <2>2 DEF Cloned
<1>16. NamesApart'
  BY <1>1, <1>4, <1>6, <1>7 DEF NamesApart
<1>17. UseLists'
  BY <1>1 DEF Types, UseLists
<1>. QED  BY <1>9, <1>10, <1>11, <1>12, <1>15, <1>16, <1>17 DEF Types

LEMMA TypesCloneTerminator ==
  ASSUME Opaque, Types, CloneTerminator
  PROVE  Types'
<1>1. /\ pc = "clone" /\ pc' = "clone" /\ In(Callee(call), from)
      /\ RetVal' = (IF Clone.ops = <<>> THEN Garbage ELSE Clone.ops[1])
      /\ prog' = prog /\ code' = code /\ inst' = inst /\ at' = at /\ call' = call
      /\ from' = Advance(Callee(call), from) /\ vmap' = vmap /\ lists' = lists /\ use' = use
  BY DEF CloneTerminator, module, replacing
<1>2. IsInstr(Clone) /\ Main \notin Range(Clone.ops)
  BY <1>1, CloneIs
<1>3. RetVal' # Main
  <2>1. CASE Clone.ops = <<>>
    BY <1>1, <2>1, MainAssumption
  <2>2. CASE Clone.ops # <<>>
    <3>1. 1 \in DOMAIN Clone.ops
      <4>1. Clone.ops \in Seq(Range(Clone.ops)) /\ DOMAIN Clone.ops = 1..Len(Clone.ops) /\ Len(Clone.ops) \in Nat
        BY <1>2, IsSeqOf DEF IsInstr
      <4>2. Len(Clone.ops) # 0
        BY <2>2, <4>1, EmptySeq
      <4>. QED  BY <4>1, <4>2
    <3>. QED  BY <1>1, <1>2, <2>2, <3>1 DEF Range
  <2>. QED  BY <2>1, <2>2
<1>4. Locals' /\ CodeInPlace' /\ Instructions' /\ UseLists'
  BY <1>1, <1>3, AdvanceIs DEF Types, Locals, CodeInPlace, Instructions, UseLists, Ops
<1>5. AtCall'
  BY <1>1 DEF Types, AtCall, Cloning, In, InstrAt, Body, IsDirectCall, Callee, Ops
<1>6. Cloned'
  <2>1. ASSUME NEW q \in Position
        PROVE  (In(Callee(call), q) <=> In(Callee(call), q)') /\ InstrAt(Callee(call), q)' = InstrAt(Callee(call), q)
    BY <1>1 DEF In, InstrAt, Body, Callee, Ops
  <2>2. \A m \in DOMAIN vmap' : vmap'[m] = <<m, call'>>
    BY <1>1 DEF Types, Cloned, Cloning
  <2>3. ASSUME NEW m \in DOMAIN vmap'
        PROVE  \E q \in Position :
                 Before(q, from') /\ In(Callee(call), q)' /\ m = InstrAt(Callee(call), q)'
    <3>1. PICK q \in Position : Before(q, from) /\ In(Callee(call), q) /\ m = InstrAt(Callee(call), q)
      BY <1>1 DEF Types, Cloned
    <3>2. Before(q, from')
      BY <1>1, <3>1, AdvanceIs DEF Types, Locals
    <3>. QED  BY <2>1, <3>1, <3>2
  <2>. QED  BY <2>2, <2>3 DEF Cloned
<1>7. NamesApart'
  <2>1. Cloning = TRUE /\ Cloning' = TRUE
    BY <1>1 DEF Cloning
  <2>. QED  BY <1>1, <2>1 DEF Types, NamesApart
<1>. QED  BY <1>4, <1>5, <1>6, <1>7 DEF Types

LEMMA UsesFinite ==
  ASSUME CodeInPlace, Instructions, NEW w
  PROVE  IsFiniteSet(Uses(w))
<1> DEFINE of(n) == {<<n, k>> : k \in {j \in DOMAIN Ops(n) : Ops(n)[j] = w}}
           S == {of(n) : n \in DOMAIN inst}
<1>1. IsFiniteSet(S)
  <2> DEFINE f == [n \in DOMAIN inst |-> of(n)]
  <2>1. f \in Surjection(DOMAIN inst, S)
    BY DEF Surjection
  <2>. QED  BY <2>1, FS_Surjection DEF CodeInPlace
<1>2. ASSUME NEW n \in DOMAIN inst PROVE IsFiniteSet(of(n))
  <2> DEFINE K == {j \in DOMAIN Ops(n) : Ops(n)[j] = w}
             f == [k \in K |-> <<n, k>>]
  <2>1. IsFiniteSet(K)
    <3>1. DOMAIN Ops(n) = 1..Len(Ops(n)) /\ Len(Ops(n)) \in Nat
      BY IsSeqOf DEF Instructions, IsInstr, Ops
    <3>2. IsFiniteSet(1..Len(Ops(n)))
      BY <3>1, FS_Interval
    <3>. QED  BY <3>1, <3>2, FS_Subset
  <2>2. f \in Surjection(K, of(n))
    BY DEF Surjection
  <2>. QED  BY <2>1, <2>2, FS_Surjection
<1>3. IsFiniteSet(UNION S)
  BY <1>1, <1>2, FS_UNION
<1>. QED  BY <1>3 DEF Uses, UsesIn, Ops

\* A use-list in one of its orders.
LEMMA OrderOf ==
  ASSUME NEW S, IsFiniteSet(S), NEW s \in SetToSeqs(S)
  PROVE  /\ s \in Seq(S) /\ Len(s) = Cardinality(S)
         /\ IsSeq(s) /\ Range(s) \subseteq S /\ (s # <<>> => s[1] \in Range(s))
<1>1. Cardinality(S) \in Nat /\ s \in [1..Cardinality(S) -> S]
  BY FS_CardinalityType DEF SetToSeqs
<1>2. PICK N \in Nat : N = Cardinality(S) /\ s \in [1..N -> S]
  BY <1>1
<1>3. s \in Seq(S) /\ Len(s) = N /\ DOMAIN s = 1..N
  BY <1>2, LenProperties
<1>4. IsSeq(s)
  BY <1>3, SeqIsSeq
<1>5. s # <<>> => 1 \in DOMAIN s
  BY <1>3, EmptySeq
<1>. QED  BY <1>2, <1>3, <1>4, <1>5 DEF Range

LEMMA TypesBeginUsers ==
  ASSUME Types, BeginUsers
  PROVE  Types'
<1>1. /\ pc = "clone" /\ pc' = "users"
      /\ prog' = prog /\ code' = code /\ inst' = inst /\ at' = at /\ call' = call /\ from' = from
      /\ vmap' = vmap /\ RetVal' = RetVal
  BY DEF BeginUsers, module, cloning
<1>2. PICK cs \in SetToSeqs(Uses(call)), rs \in SetToSeqs(Uses(RetVal)) :
        lists' = [call |-> cs, ret |-> rs] /\ use' = IF cs = <<>> THEN NoUse ELSE cs[1]
  BY DEF BeginUsers
<1>3. IsSeq(cs) /\ (cs # <<>> => cs[1] \in Range(cs)) /\ IsSeq(rs)
  BY UsesFinite, OrderOf DEF Types
<1>4. UseLists'
  BY <1>1, <1>2, <1>3 DEF UseLists
<1>5. Locals' /\ CodeInPlace' /\ Instructions'
  BY <1>1 DEF Types, Locals, CodeInPlace, Instructions, Ops
<1>6. AtCall' /\ Cloned'
  BY <1>1 DEF Types, AtCall, Cloned, Cloning, In, InstrAt, Body
<1>7. NamesApart'
  <2>1. Cloning = TRUE /\ Cloning' = TRUE
    BY <1>1 DEF Cloning
  <2>. QED  BY <1>1, <2>1 DEF Types, NamesApart
<1>. QED  BY <1>4, <1>5, <1>6, <1>7 DEF Types

\* An instruction with another operand.
LEMMA OperandReplaced ==
  ASSUME NEW i, IsInstr(i), NEW k, NEW w, w # Main, Main \notin Range(i.ops)
  PROVE  LET j == [i EXCEPT !.ops[k] = w]
         IN  /\ IsInstr(j) /\ Main \notin Range(j.ops)
             /\ j.kind = i.kind /\ j.op = i.op /\ Len(j.ops) = Len(i.ops)
             /\ j.ops = [i.ops EXCEPT ![k] = w]
<1> DEFINE s == i.ops
           t == [s EXCEPT ![k] = w]
           j == [i EXCEPT !.ops = t]
<1>1. i = [op |-> i.op, kind |-> i.kind, ops |-> i.ops]
  BY DEF IsInstr
<1>2. j = [op |-> i.op, kind |-> i.kind, ops |-> t]
  <2> HIDE DEF t
  <2>. QED  BY <1>1
<1>3. PICK N \in Nat : N = Len(s) /\ DOMAIN s = 1..N
  BY IsSeqOf DEF IsInstr
<1>4. DOMAIN t = 1..N /\ \A m \in 1..N : t[m] = IF m = k THEN w ELSE s[m]
  BY <1>3
<1>5. IsSeq(t) /\ Len(t) = N /\ Main \notin Range(t)
  <2>1. t = [m \in 1..N |-> t[m]]
    BY <1>4
  <2> HIDE DEF t
  <2>2. t \in Seq(Range(t))
    BY <1>4, <2>1 DEF Range
  <2>3. Main \notin Range(t)
    BY <1>3, <1>4 DEF Range
  <2>. QED  BY <1>4, <2>2, <2>3, SeqIsSeq, LenProperties
<1> HIDE DEF t
<1>6. j.kind = i.kind /\ j.op = i.op /\ j.ops = t /\ j = [op |-> j.op, kind |-> j.kind, ops |-> j.ops]
  BY <1>2
<1> HIDE DEF j
<1>7. IsInstr(j) /\ Main \notin Range(j.ops) /\ Len(j.ops) = Len(s)
  BY <1>3, <1>5, <1>6 DEF IsInstr
<1>8. [i EXCEPT !.ops[k] = w] = j
  BY DEF j, t
<1>. QED  BY <1>6, <1>7, <1>8 DEF t

LEMMA TypesReplaceUse ==
  ASSUME Types, ReplaceUse
  PROVE  Types'
<1> DEFINE n == use[1]
           k == OperandToReplace(n)
           w == <<n, k>>
<1>1. /\ pc = "users" /\ pc' = "users" /\ use # NoUse
      /\ inst' = [inst EXCEPT ![n].ops[k] = RetVal] /\ lists' = Linked(w) /\ use' = NextUse(lists', use)
      /\ prog' = prog /\ code' = code /\ at' = at /\ call' = call /\ from' = from
      /\ vmap' = vmap /\ RetVal' = RetVal
  BY DEF ReplaceUse, cloning
<1> HIDE DEF n, k
<1>2. DOMAIN inst' = DOMAIN inst
  BY <1>1
<1>3. \A m \in DOMAIN inst : inst'[m] = IF m = n THEN [inst[m] EXCEPT !.ops[k] = RetVal] ELSE inst[m]
  BY <1>1
<1>4. Instructions'
  <2>1. SUFFICES ASSUME NEW m \in DOMAIN inst
                 PROVE  IsInstr(inst'[m]) /\ Main \notin Range(inst'[m].ops)
    BY <1>2 DEF Instructions, Ops
  <2>2. IsInstr(inst[m]) /\ Main \notin Range(inst[m].ops) /\ RetVal # Main
    BY DEF Types, Instructions, Ops, Locals
  <2>3. CASE m = n
    <3>1. IsInstr([inst[m] EXCEPT !.ops[k] = RetVal]) /\ Main \notin Range([inst[m] EXCEPT !.ops[k] = RetVal].ops)
      BY <2>2, OperandReplaced
    <3>2. inst'[m] = [inst[m] EXCEPT !.ops[k] = RetVal]
      BY <1>3, <2>3
    <3>. QED  BY <3>1, <3>2
  <2>4. CASE m # n
    BY <1>3, <2>2, <2>4
  <2>. QED  BY <2>3, <2>4
<1>5. Locals' /\ CodeInPlace'
  BY <1>1, <1>2 DEF Types, Locals, CodeInPlace
<1>6. AtCall' /\ Cloned'
  BY <1>1 DEF Types, AtCall, Cloned, Cloning, In, InstrAt, Body
<1>7. NamesApart'
  <2>1. Cloning = TRUE /\ Cloning' = TRUE
    BY <1>1 DEF Cloning
  <2>. QED  BY <1>1, <1>2, <2>1 DEF Types, NamesApart
<1>8. UseLists'
  <2>1. IsSeq(lists.call) /\ IsSeq(lists.ret) /\ use \in Range(lists.call) \cup Range(lists.ret)
    BY <1>1 DEF Types, UseLists
  <2>2. /\ IsSeq(Unlinked(lists.call, w)) /\ Range(lists.call) \ {w} \subseteq Range(Unlinked(lists.call, w))
        /\ IsSeq(Unlinked(lists.ret, w)) /\ Range(lists.ret) \ {w} \subseteq Range(Unlinked(lists.ret, w))
    BY <2>1, UnlinkedHolds
  <2>3. lists'.call = Unlinked(lists.call, w) /\ lists'.ret = <<w>> \o Unlinked(lists.ret, w)
    BY <1>1 DEF Linked
  <2> HIDE DEF w
  <2>4. IsSeq(lists'.ret) /\ Range(lists'.ret) = {w} \cup Range(Unlinked(lists.ret, w))
    BY <2>2, <2>3, FrontOfList
  <2>5. use \in Range(lists'.call) \cup Range(lists'.ret)
    BY <2>1, <2>2, <2>3, <2>4
  <2>6. IsSeq(lists'.call) /\ IsSeq(lists'.ret)
    BY <2>2, <2>3, <2>4
  <2>7. NextUse(lists', use) = NoUse \/ NextUse(lists', use) \in Range(lists'.call) \cup Range(lists'.ret)
    BY <2>5, <2>6, NextIsListed
  <2>. QED  BY <1>1, <2>6, <2>7 DEF UseLists
<1>. QED  BY <1>4, <1>5, <1>6, <1>7, <1>8 DEF Types

LEMMA TypesEraseCall ==
  ASSUME Types, EraseCall
  PROVE  Types'
<1> DEFINE B == Body(Main)[at[1]]
<1>1. /\ pc = "users" /\ use = NoUse /\ pc' = "search"
      /\ code' = [code EXCEPT ![B] = RemoveAt(@, at[2])] /\ inst' = Erase(call)
      /\ at' = First /\ from' = First /\ vmap' = NoMap /\ RetVal' = Garbage /\ lists' = NoLists
      /\ prog' = prog /\ use' = use
  BY DEF EraseCall, Restart
<1>2. DOMAIN inst' = DOMAIN inst \ {call} /\ \A m \in DOMAIN inst \ {call} : inst'[m] = inst[m]
  BY <1>1 DEF Erase
<1>3. First \in Position
  BY DEF First, Position
<1>4. B \in Labels(prog) /\ at[2] \in DOMAIN code[B] /\ code[B][at[2]] = call
  BY <1>1, PositionIs, MainAssumption DEF Types, Locals, AtCall, Cloning, InstrAt
<1>5. CodeInPlace'
  <2> DEFINE new == Without(code, B, at[2])
  <2>1. Places(Labels(prog), new, DOMAIN inst \ {code[B][at[2]]})
    BY <1>4, RemovedPlaces DEF Types, CodeInPlace
  <2>2. IsFiniteSet(DOMAIN inst \ {call})
    BY FS_RemoveElement DEF Types, CodeInPlace
  <2>3. code' = new
    BY <1>1 DEF Without
  <2> HIDE DEF new
  <2>. QED  BY <1>1, <1>2, <1>4, <2>1, <2>2, <2>3 DEF CodeInPlace
<1>6. Locals'
  BY <1>1, <1>3, MainAssumption DEF Types, Locals
<1>7. Instructions'
  BY <1>2 DEF Types, Instructions, Ops
<1>8. AtCall' /\ Cloned'
  BY <1>1 DEF AtCall, Cloned, Cloning
<1>9. NamesApart'
  <2>1. Cloning = TRUE /\ Cloning' = FALSE
    BY <1>1 DEF Cloning
  <2>2. Names(DOMAIN inst \ {call}, FALSE, call', DOMAIN vmap')
    BY <2>1, NamesWithoutCall DEF Types, NamesApart
  <2>. QED  BY <1>2, <2>1, <2>2 DEF NamesApart
<1>10. UseLists'
  <2>1. IsSeq(<<>>)
    BY EmptySeq, SeqIsSeq
  <2>. QED  BY <1>1, <2>1 DEF UseLists, NoLists
<1>. QED  BY <1>5, <1>6, <1>7, <1>8, <1>9, <1>10 DEF Types

LEMMA TypesStutter ==
  ASSUME Types, UNCHANGED vars
  PROVE  Types'
BY DEF Types, Locals, CodeInPlace, Instructions, AtCall, Cloned, NamesApart, UseLists, vars, module,
       cloning, replacing, Cloning, In, InstrAt, Body, IsDirectCall, Callee, Ops

LEMMA TypesStep ==
  ASSUME Opaque, Types, [Next]_vars
  PROVE  Types'
<1>1. CASE FindCaller \/ PassOver \/ Return
  BY <1>1, TypesSearch
<1>2. CASE FindCall
  BY <1>2, TypesFindCall
<1>3. CASE CloneInstruction
  BY <1>3, TypesCloneInstruction
<1>4. CASE CloneTerminator
  BY <1>4, TypesCloneTerminator
<1>5. CASE BeginUsers
  BY <1>5, TypesBeginUsers
<1>6. CASE ReplaceUse
  BY <1>6, TypesReplaceUse
<1>7. CASE EraseCall
  BY <1>7, TypesEraseCall
<1>8. CASE UNCHANGED vars
  BY <1>8, TypesStutter
<1>. QED  BY <1>1, <1>2, <1>3, <1>4, <1>5, <1>6, <1>7, <1>8 DEF Next

LEMMA TypesHold == Opaque => (Spec => []Types)
<1>1. SUFFICES ASSUME Opaque PROVE Spec => []Types
  OBVIOUS
<1>2. Init => Types
  BY <1>1, TypesInit
<1>3. Types /\ [Next]_vars => Types'
  BY <1>1, TypesStep
<1>. QED  BY <1>2, <1>3, PTL DEF Spec

LEMMA TypesEnough ==
  ASSUME Types
  PROVE  TypeOK
<1>1. prog \in Programs /\ pc \in {"caller", "undefined", "search", "clone", "users", "done"}
  BY DEF Types, Locals
<1>2. ASSUME NEW b \in Labels(prog) PROVE Range(code[b]) \subseteq DOMAIN inst
  <2>1. \A i \in DOMAIN code[b] : code[b][i] \in DOMAIN inst
    BY BlockIs DEF Types, CodeInPlace
  <2>. QED  BY <2>1 DEF Range
<1>3. ASSUME NEW n \in DOMAIN inst PROVE \E b \in Labels(prog) : n \in Range(code[b])
  BY DEF Types, CodeInPlace, Places, Range
<1>4. pc \in {"clone", "users"} => InstrAt(Main, at) = call
  BY DEF Types, AtCall, Cloning
<1>5. use = NoUse \/ use \in Range(lists.call) \cup Range(lists.ret)
  BY DEF Types, UseLists
<1>. QED  BY <1>1, <1>2, <1>3, <1>4, <1>5 DEF TypeOK

\* The instructions that exist are those in the blocks; the call that is being
\* inlined stays where inlineOnce found it while instructions are inserted
\* before it; the iterator stands on a use of the call or of RetVal.
THEOREM TypeCorrect == Opaque => (Spec => []TypeOK)
BY TypesHold, TypesEnough, PTL

-----------------------------------------------------------------------------
(***************************************************************************)
(* What an instruction may name, when a block changes.                     *)
(***************************************************************************)

\* Where the instruction at <<b, k>> is after an insertion at <<B, i>>.
Later(B, i, b, k) == IF b = B /\ k >= i THEN k + 1 ELSE k

\* Where it is after the one at <<B, i>> has been deleted.
Earlier(B, i, b, k) == IF b = B /\ k > i THEN k - 1 ELSE k

LEMMA InsertedAt ==
  ASSUME NEW L, NEW c, NEW D, Places(L, c, D), NEW B \in L, NEW i \in 1..(Len(c[B]) + 1), NEW e
  PROVE  LET new == With(c, B, i, e)
         IN  /\ i \in DOMAIN new[B] /\ new[B][i] = e
             /\ \A b \in L : \A k \in DOMAIN c[b] :
                  Later(B, i, b, k) \in DOMAIN new[b] /\ new[b][Later(B, i, b, k)] = c[b][k]
             /\ \A b \in L : \A j \in DOMAIN new[b] :
                  (b = B /\ j = i) \/ \E k \in DOMAIN c[b] : j = Later(B, i, b, k) /\ new[b][j] = c[b][k]
<1> DEFINE s == c[B]
           E == D \cup {e}
           t == InsertAt(s, i, e)
           new == [c EXCEPT ![B] = t]
<1>1. s \in Seq(E) /\ e \in E
  <2>1. D \subseteq E
    OBVIOUS
  <2>. QED  BY <2>1, BlockIs, SeqMonotonic
<1>2. PICK N \in Nat : N = Len(s) /\ DOMAIN s = 1..N
  BY BlockIs
<1>3. /\ t \in Seq(E) /\ DOMAIN t = 1..(N + 1)
      /\ \A k \in 1..(N + 1) : t[k] = IF k < i THEN s[k] ELSE IF k = i THEN e ELSE s[k - 1]
  <2>1. i \in 1..(Len(s) + 1)
    OBVIOUS
  <2> HIDE DEF s, E
  <2>2. t \in Seq(E) /\ DOMAIN t = 1..(Len(s) + 1)
    BY <1>1, <2>1, Inserted
  <2>3. \A k \in 1..(Len(s) + 1) : t[k] = IF k < i THEN s[k] ELSE IF k = i THEN e ELSE s[k - 1]
    BY <1>1, <2>1, Inserted
  <2>. QED  BY <1>2, <2>2, <2>3
<1> HIDE DEF t
<1>4. i \in 1..(N + 1)
  BY <1>2
<1>5. new[B] = t /\ \A b \in L \ {B} : new[b] = c[b]
  BY DEF Places
<1> HIDE DEF new
<1>6. i \in DOMAIN new[B] /\ new[B][i] = e
  BY <1>3, <1>4, <1>5
<1>7. ASSUME NEW b \in L, NEW k \in DOMAIN c[b]
      PROVE  Later(B, i, b, k) \in DOMAIN new[b] /\ new[b][Later(B, i, b, k)] = c[b][k]
  <2>1. CASE b # B
    BY <1>5, <2>1 DEF Later
  <2>2. CASE b = B /\ k < i
    BY <1>2, <1>3, <1>4, <1>5, <2>2 DEF Later
  <2>3. CASE b = B /\ k >= i
    <3>1. k \in 1..N /\ Later(B, i, b, k) = k + 1
      BY <1>2, <2>3 DEF Later
    <3>2. k + 1 \in 1..(N + 1) /\ ~(k + 1 < i) /\ k + 1 # i /\ (k + 1) - 1 = k
      BY <1>4, <2>3, <3>1
    <3>3. t[k + 1] = s[k]
      BY <1>3, <3>2
    <3>. QED  BY <1>3, <1>5, <2>3, <3>1, <3>2, <3>3
  <2>4. k < i \/ k >= i \/ b # B
    BY <1>2, <1>4
  <2>. QED  BY <2>1, <2>2, <2>3, <2>4
<1>8. ASSUME NEW b \in L, NEW j \in DOMAIN new[b], ~(b = B /\ j = i)
      PROVE  \E k \in DOMAIN c[b] : j = Later(B, i, b, k) /\ new[b][j] = c[b][k]
  <2>1. CASE b # B
    BY <1>5, <2>1 DEF Later
  <2>2. CASE b = B /\ j < i
    <3>1. j \in 1..N /\ j = Later(B, i, b, j) /\ t[j] = s[j]
      BY <1>3, <1>4, <1>5, <2>2 DEF Later
    <3>. QED  BY <1>2, <1>5, <2>2, <3>1
  <2>3. CASE b = B /\ j > i
    <3>1. j \in 1..(N + 1)
      BY <1>3, <1>5, <2>3
    <3>2. j - 1 \in 1..N /\ j - 1 >= i /\ (j - 1) + 1 = j /\ ~(j < i) /\ j # i
      BY <1>4, <2>3, <3>1
    <3>3. t[j] = s[j - 1] /\ j = Later(B, i, b, j - 1)
      BY <1>3, <2>3, <3>1, <3>2 DEF Later
    <3>. QED  BY <1>2, <1>5, <2>3, <3>2, <3>3
  <2>4. j < i \/ j > i \/ b # B
    BY <1>3, <1>4, <1>5, <1>8
  <2>. QED  BY <2>1, <2>2, <2>3, <2>4
<1>. QED  BY <1>6, <1>7, <1>8 DEF With, new, t

LEMMA RemovedFrom ==
  ASSUME NEW L, NEW c, NEW D, Places(L, c, D), NEW B \in L, NEW i \in DOMAIN c[B]
  PROVE  LET new == Without(c, B, i)
         IN  /\ \A b \in L : \A k \in DOMAIN c[b] : ~(b = B /\ k = i) =>
                  Earlier(B, i, b, k) \in DOMAIN new[b] /\ new[b][Earlier(B, i, b, k)] = c[b][k]
             /\ \A b \in L : \A j \in DOMAIN new[b] : \E k \in DOMAIN c[b] :
                  ~(b = B /\ k = i) /\ j = Earlier(B, i, b, k) /\ new[b][j] = c[b][k]
<1> DEFINE s == c[B]
           t == RemoveAt(s, i)
           new == [c EXCEPT ![B] = t]
<1>1. s \in Seq(D) /\ i \in DOMAIN s
  BY BlockIs
<1>2. PICK N \in Nat : N = Len(s) /\ DOMAIN s = 1..N
  BY BlockIs
<1>3. DOMAIN t = 1..(N - 1) /\ \A k \in 1..(N - 1) : t[k] = IF k < i THEN s[k] ELSE s[k + 1]
  <2> HIDE DEF s
  <2>2. /\ DOMAIN t = 1..(Len(s) - 1)
        /\ \A k \in 1..(Len(s) - 1) : t[k] = IF k < i THEN s[k] ELSE s[k + 1]
    BY <1>1, Removed DEF t
  <2>. QED  BY <1>2, <2>2
<1> HIDE DEF t
<1>4. i \in 1..N
  BY <1>2
<1>5. new[B] = t /\ \A b \in L \ {B} : new[b] = c[b]
  BY DEF Places
<1> HIDE DEF new
<1>6. ASSUME NEW b \in L, NEW k \in DOMAIN c[b], ~(b = B /\ k = i)
      PROVE  Earlier(B, i, b, k) \in DOMAIN new[b] /\ new[b][Earlier(B, i, b, k)] = c[b][k]
  <2>1. CASE b # B
    BY <1>5, <2>1 DEF Earlier
  <2>2. CASE b = B /\ k < i
    <3>1. k \in 1..(N - 1) /\ Earlier(B, i, b, k) = k
      BY <1>2, <1>4, <2>2 DEF Earlier
    <3>. QED  BY <1>3, <1>5, <2>2, <3>1
  <2>3. CASE b = B /\ k > i
    <3>1. k \in 1..N
      BY <1>2, <2>3
    <3>2. k - 1 \in 1..(N - 1) /\ ~(k - 1 < i) /\ (k - 1) + 1 = k /\ Earlier(B, i, b, k) = k - 1
      BY <1>4, <2>3, <3>1 DEF Earlier
    <3>3. t[k - 1] = s[k]
      BY <1>3, <3>2
    <3>. QED  BY <1>3, <1>5, <2>3, <3>2, <3>3
  <2>4. k < i \/ k > i \/ b # B
    BY <1>2, <1>4, <1>6
  <2>. QED  BY <2>1, <2>2, <2>3, <2>4
<1>7. ASSUME NEW b \in L, NEW j \in DOMAIN new[b]
      PROVE  \E k \in DOMAIN c[b] : ~(b = B /\ k = i) /\ j = Earlier(B, i, b, k) /\ new[b][j] = c[b][k]
  <2>1. CASE b # B
    BY <1>5, <2>1 DEF Earlier
  <2>2. CASE b = B /\ j < i
    <3>1. j \in 1..N /\ j # i /\ j = Earlier(B, i, b, j) /\ t[j] = s[j]
      BY <1>3, <1>4, <1>5, <2>2 DEF Earlier
    <3>. QED  BY <1>2, <1>5, <2>2, <3>1
  <2>3. CASE b = B /\ j >= i
    <3>1. j \in 1..(N - 1)
      BY <1>3, <1>5, <2>3
    <3>2. j + 1 \in 1..N /\ j + 1 > i /\ (j + 1) - 1 = j /\ ~(j < i) /\ j + 1 # i
      BY <1>4, <2>3, <3>1
    <3>3. t[j] = s[j + 1] /\ j = Earlier(B, i, b, j + 1)
      BY <1>3, <2>3, <3>1, <3>2 DEF Earlier
    <3>. QED  BY <1>2, <1>5, <2>3, <3>2, <3>3
  <2>4. j < i \/ j >= i \/ b # B
    BY <1>3, <1>4, <1>5
  <2>. QED  BY <2>1, <2>2, <2>3, <2>4
<1>. QED  BY <1>6, <1>7 DEF Without, new, t

LEMMA EntryLabel ==
  ASSUME NEW p \in Programs, NEW b \in Range(p.layout[Main])
  PROVE  p.layout[Main][1] \in Labels(p) /\ b \in Labels(p)
<1>1. PICK k \in DOMAIN p.layout[Main] : p.layout[Main][k] = b
  BY DEF Range
<1>2. 1 \in DOMAIN p.layout[Main]
  BY <1>1, LabelsOfFunction, MainAssumption DEF IsSeq
<1>. QED  BY <1>1, <1>2, LabelsOfFunction, MainAssumption

LEMMA InScopeInserted ==
  ASSUME NEW p \in Programs, NEW c, NEW D, Places(Labels(p), c, D),
         NEW B \in Labels(p), NEW i \in 1..(Len(c[B]) + 1), NEW e,
         NEW b \in Range(p.layout[Main]), NEW v
  PROVE  LET new == With(c, B, i, e)
         IN  /\ \A k \in DOMAIN c[b] : InScope(p, c, v, b, k) => InScope(p, new, v, b, Later(B, i, b, k))
             /\ b = B /\ InScope(p, c, v, b, i) => InScope(p, new, v, b, i)
<1> DEFINE new == With(c, B, i, e)
           b0 == p.layout[Main][1]
<1>1. \A d \in Labels(p) : \A k \in DOMAIN c[d] :
        Later(B, i, d, k) \in DOMAIN new[d] /\ new[d][Later(B, i, d, k)] = c[d][k]
  BY InsertedAt
<1> HIDE DEF new, b0
<1>2. b \in Labels(p) /\ b0 \in Labels(p)
  BY EntryLabel DEF b0
<1>3. PICK N \in Nat : N = Len(c[b]) /\ DOMAIN c[b] = 1..N
  BY <1>2, BlockIs
<1>4. v \in Range(c[b0]) => v \in Range(new[b0])
  BY <1>1, <1>2 DEF Range
<1>5. i \in Nat
  <2>1. Len(c[B]) \in Nat
    BY BlockIs
  <2>. QED  BY <2>1
<1>6. ASSUME NEW k \in DOMAIN c[b], InScope(p, c, v, b, k)
      PROVE  InScope(p, new, v, b, Later(B, i, b, k))
  <2>1. CASE \E j \in 1..(k - 1) : c[b][j] = v
    <3>1. PICK j \in 1..(k - 1) : c[b][j] = v
      BY <2>1
    <3>2. j \in DOMAIN c[b]
      BY <1>3, <3>1
    <3>3. Later(B, i, b, j) \in 1..(Later(B, i, b, k) - 1)
      BY <1>3, <1>5, <3>1 DEF Later
    <3>4. new[b][Later(B, i, b, j)] = v
      BY <1>1, <1>2, <3>1, <3>2
    <3>. QED  BY <3>3, <3>4 DEF InScope
  <2>2. CASE b # b0 /\ v \in Range(c[b0])
    BY <1>4, <2>2 DEF InScope, b0
  <2>. QED  BY <1>6, <2>1, <2>2 DEF InScope, b0
<1>7. ASSUME b = B, InScope(p, c, v, b, i)
      PROVE  InScope(p, new, v, b, i)
  <2>1. CASE \E j \in 1..(i - 1) : c[b][j] = v
    <3>1. PICK j \in 1..(i - 1) : c[b][j] = v
      BY <2>1
    <3>2. j \in DOMAIN c[b] /\ Later(B, i, b, j) = j
      BY <1>3, <1>5, <1>7, <3>1 DEF Later
    <3>3. new[b][j] = v
      BY <1>1, <1>2, <3>1, <3>2
    <3>. QED  BY <3>1, <3>3 DEF InScope
  <2>2. CASE b # b0 /\ v \in Range(c[b0])
    BY <1>4, <2>2 DEF InScope, b0
  <2>. QED  BY <1>7, <2>1, <2>2 DEF InScope, b0
<1>. QED  BY <1>6, <1>7 DEF new

\* A clone whose operands are in scope where it is inserted.
LEMMA ScopedInserted ==
  ASSUME NEW p \in Programs, NEW c, NEW D, Places(Labels(p), c, D), NEW insts, Scoped(p, c, insts),
         NEW B \in Labels(p), NEW i \in 1..(Len(c[B]) + 1), NEW e, NEW more,
         \A n \in D : more[n] = insts[n],
         \A k \in DOMAIN more[e].ops : InScope(p, c, more[e].ops[k], B, i)
  PROVE  Scoped(p, With(c, B, i, e), more)
<1> DEFINE new == With(c, B, i, e)
<1>1. /\ new[B][i] = e
      /\ \A b \in Labels(p) : \A j \in DOMAIN new[b] :
           (b = B /\ j = i) \/ \E m \in DOMAIN c[b] : j = Later(B, i, b, m) /\ new[b][j] = c[b][m]
  BY InsertedAt
<1>2. \A b \in Range(p.layout[Main]) : \A v :
        /\ \A m \in DOMAIN c[b] : InScope(p, c, v, b, m) => InScope(p, new, v, b, Later(B, i, b, m))
        /\ b = B /\ InScope(p, c, v, b, i) => InScope(p, new, v, b, i)
  BY InScopeInserted
<1> HIDE DEF new
<1>3. SUFFICES ASSUME NEW b \in Range(p.layout[Main]), NEW j \in DOMAIN new[b],
                      NEW k \in DOMAIN more[new[b][j]].ops
               PROVE  InScope(p, new, more[new[b][j]].ops[k], b, j)
  BY DEF Scoped, new
<1>4. b \in Labels(p)
  BY EntryLabel
<1>5. CASE b = B /\ j = i
  BY <1>1, <1>2, <1>5
<1>6. CASE \E m \in DOMAIN c[b] : j = Later(B, i, b, m) /\ new[b][j] = c[b][m]
  <2>1. PICK m \in DOMAIN c[b] : j = Later(B, i, b, m) /\ new[b][j] = c[b][m]
    BY <1>6
  <2>2. c[b][m] \in D
    BY <1>4, BlockIs
  <2>3. InScope(p, c, insts[c[b][m]].ops[k], b, m)
    BY <2>1, <2>2 DEF Scoped
  <2>. QED  BY <1>2, <2>1, <2>2, <2>3
<1>. QED  BY <1>1, <1>4, <1>5, <1>6

\* A call that nothing uses is deleted.
LEMMA ScopedRemoved ==
  ASSUME NEW p \in Programs, NEW c, NEW D, Places(Labels(p), c, D), NEW insts, Scoped(p, c, insts),
         NEW B \in Labels(p), NEW i \in DOMAIN c[B], NEW less,
         \A n \in D \ {c[B][i]} : less[n] = insts[n],
         \A n \in D : \A k \in DOMAIN insts[n].ops : insts[n].ops[k] # c[B][i]
  PROVE  Scoped(p, Without(c, B, i), less)
<1> DEFINE new == Without(c, B, i)
           b0 == p.layout[Main][1]
           e == c[B][i]
<1>3. /\ \A d \in Labels(p) : \A m \in DOMAIN c[d] : ~(d = B /\ m = i) =>
           Earlier(B, i, d, m) \in DOMAIN new[d] /\ new[d][Earlier(B, i, d, m)] = c[d][m]
      /\ \A d \in Labels(p) : \A j \in DOMAIN new[d] : \E m \in DOMAIN c[d] :
           ~(d = B /\ m = i) /\ j = Earlier(B, i, d, m) /\ new[d][j] = c[d][m]
  BY RemovedFrom
<1> HIDE DEF new
<1>1. SUFFICES ASSUME NEW b \in Range(p.layout[Main]), NEW j \in DOMAIN new[b],
                      NEW k \in DOMAIN less[new[b][j]].ops
               PROVE  InScope(p, new, less[new[b][j]].ops[k], b, j)
  BY DEF Scoped, new
<1>2. b \in Labels(p) /\ b0 \in Labels(p)
  BY EntryLabel
<1> HIDE DEF b0
<1>5. PICK m \in DOMAIN c[b] : ~(b = B /\ m = i) /\ j = Earlier(B, i, b, m) /\ new[b][j] = c[b][m]
  BY <1>2, <1>3
<1> DEFINE n == c[b][m]
           v == insts[n].ops[k]
<1>6. n \in D /\ n # e
  BY <1>2, <1>5, BlockIs DEF Places
<1>7. less[new[b][j]].ops = insts[n].ops
  BY <1>5, <1>6
<1>8. v # e /\ InScope(p, c, v, b, m)
  BY <1>1, <1>6, <1>7 DEF Scoped
<1> HIDE DEF v, n, e
<1>9. PICK N \in Nat : N = Len(c[b]) /\ DOMAIN c[b] = 1..N
  BY <1>2, BlockIs
<1>10. i \in Nat
  BY BlockIs
<1>11. InScope(p, new, v, b, j)
  <2>1. CASE \E h \in 1..(m - 1) : c[b][h] = v
    <3>1. PICK h \in 1..(m - 1) : c[b][h] = v
      BY <2>1
    <3>2. h \in DOMAIN c[b] /\ ~(b = B /\ h = i)
      BY <1>8, <1>9, <3>1 DEF e
    <3>3. Earlier(B, i, b, h) \in DOMAIN new[b] /\ new[b][Earlier(B, i, b, h)] = v
      BY <1>2, <1>3, <3>1, <3>2
    <3>4. Earlier(B, i, b, h) \in 1..(j - 1)
      <4>1. h \in Nat /\ m \in Nat /\ h >= 1 /\ h < m
        BY <1>9, <3>1
      <4>2. CASE b # B
        BY <1>5, <4>1, <4>2 DEF Earlier
      <4>3. CASE b = B
        <5>1. h # i /\ m # i
          BY <1>5, <3>2, <4>3
        <5>2. j = (IF m > i THEN m - 1 ELSE m) /\ Earlier(B, i, b, h) = (IF h > i THEN h - 1 ELSE h)
          BY <1>5, <4>3 DEF Earlier
        <5>3. CASE h > i
          <6>1. m > i /\ j = m - 1 /\ Earlier(B, i, b, h) = h - 1 /\ h - 1 >= 1
            BY <1>10, <4>1, <5>2, <5>3, BlockIs
          <6>. QED  BY <1>10, <4>1, <6>1
        <5>4. CASE h < i
          <6>1. Earlier(B, i, b, h) = h /\ j >= h + 1
            BY <1>10, <4>1, <5>1, <5>2, <5>4
          <6>2. j \in Nat
            BY <1>10, <4>1, <5>2
          <6>. QED  BY <4>1, <6>1, <6>2
        <5>. QED  BY <1>10, <4>1, <5>1, <5>3, <5>4
      <4>. QED  BY <4>2, <4>3
    <3>. QED  BY <3>3, <3>4 DEF InScope
  <2>2. CASE b # b0 /\ v \in Range(c[b0])
    <3>1. PICK h \in DOMAIN c[b0] : c[b0][h] = v
      BY <2>2 DEF Range
    <3>2. ~(b0 = B /\ h = i)
      BY <1>8, <3>1 DEF e
    <3>3. v \in Range(new[b0])
      BY <1>2, <1>3, <3>1, <3>2 DEF Range
    <3>. QED  BY <2>2, <3>3 DEF InScope, b0
  <2>. QED  BY <1>8, <2>1, <2>2 DEF InScope, b0
<1>. QED  BY <1>7, <1>11 DEF v

\* What is in scope at a call is in scope where the call is.
LEMMA InScopeTransitive ==
  ASSUME NEW p \in Programs, NEW c, NEW D, Places(Labels(p), c, D), D \cap Named(p) = {},
         NEW B \in Range(p.layout[Main]), NEW i \in DOMAIN c[B],
         NEW b \in Range(p.layout[Main]), NEW k \in DOMAIN c[b], InScope(p, c, c[B][i], b, k),
         NEW v, \E j \in 1..(i - 1) : c[B][j] = v
  PROVE  InScope(p, c, v, b, k)
<1> DEFINE b0 == p.layout[Main][1]
           e == c[B][i]
<1>1. B \in Labels(p) /\ b \in Labels(p) /\ b0 \in Labels(p)
  BY EntryLabel
<1>2. e \in D
  BY <1>1, BlockIs
<1>3. PICK j \in 1..(i - 1) : c[B][j] = v
  OBVIOUS
<1>4. DOMAIN c[b] = 1..Len(c[b]) /\ Len(c[b]) \in Nat /\ DOMAIN c[B] = 1..Len(c[B]) /\ Len(c[B]) \in Nat
  BY <1>1, BlockIs
<1>5. CASE \E h \in 1..(k - 1) : c[b][h] = e
  <2>1. PICK h \in 1..(k - 1) : c[b][h] = e
    BY <1>5
  <2>2. h \in DOMAIN c[b]
    BY <1>4, <2>1
  <2>3. b = B /\ h = i
    BY <1>1, <2>1, <2>2 DEF Places
  <2>4. j \in 1..(k - 1)
    <3>1. i \in 1..(k - 1) /\ j \in 1..(i - 1)
      BY <1>3, <2>1, <2>3
    <3>. QED  BY <1>4, <3>1
  <2>5. \E m \in 1..(k - 1) : c[b][m] = v
    BY <1>3, <2>3, <2>4
  <2>. QED  BY <2>5, Zenon DEF InScope
<1>6. CASE b # b0 /\ e \in Range(c[b0])
  <2>1. B = b0
    BY <1>1, <1>6, SMTT(30) DEF Range, Places
  <2>2. j \in DOMAIN c[B]
    BY <1>3, <1>4
  <2>. QED  BY <1>3, <1>6, <2>1, <2>2 DEF InScope, Range
<1>7. CASE e \in Range(p.params[Main]) \cup p.consts \cup Range(p.layout[Main]) \cup Functions
  <2>1. Range(p.params[Main]) \cup p.consts \cup Range(p.layout[Main]) \cup Functions \subseteq Named(p)
    BY LabelsOfFunction, MainAssumption DEF Named
  <2>. QED  BY <1>2, <1>7, <2>1
<1>. QED  BY <1>5, <1>6, <1>7 DEF InScope

-----------------------------------------------------------------------------
(***************************************************************************)
(* The invariant on modules that are inlinable: what the instructions of   *)
(* main name, when a call is used, and what the clones are clones of.      *)
(***************************************************************************)
OnlyInlinable == \A p \in Programs : Inlinable(p)

CalleeCode(p) == UNION {Range(p.code[b]) : b \in UNION {Range(p.layout[f]) : f \in Functions \ {Main}}}

\* Where the call stands: the block and the index in it.
Block == Body(Main)[at[1]]

CalleesKept ==
  \A f \in Functions \ {Main} : \A b \in Range(Body(f)) :
    code[b] = prog.code[b] /\ \A i \in DOMAIN code[b] : inst[code[b][i]] = prog.inst[code[b][i]]

FunctionsLast ==
  \A n \in DOMAIN inst : \A k \in DOMAIN Ops(n) :
    Ops(n)[k] \in Functions => inst[n].kind = "call" /\ k = Len(Ops(n))

GoodCalls ==
  \A n \in DOMAIN inst : IsDirectCall(n) =>
    /\ Len(Ops(n)) = Len(Params(Callee(n))) + 1
    /\ \A u, w \in Uses(n) : u = w
    /\ Uses(n) # {} => Returns(prog, Callee(n))

Known == /\ DOMAIN inst \cap Named(prog) = {} /\ CalleesKept /\ OperandsInScope
         /\ FunctionsLast /\ GoodCalls

\* inlineOnce takes the first call: no instruction before it is one, so none
\* of its arguments is.
Searched ==
  pc \in {"caller", "search"} =>
    \A q \in Position : In(Main, q) /\ Before(q, at) => ~IsDirectCall(InstrAt(Main, q))

ArgIs(v) ==
  /\ \A m : v # <<m, call>>
  /\ v \notin CalleeCode(prog)
  /\ v \in Named(prog) \/ (v \in DOMAIN inst /\ ~IsDirectCall(v))

Arguments == pc = "clone" => \A k \in DOMAIN Ops(call) : ArgIs(Ops(call)[k])

\* A clone stands before the call, and is a direct call only if what was
\* cloned is one, of the same function.
IsCopy(i, o) == CallsFunction(i) => CallsFunction(o) /\ Len(i.ops) = Len(o.ops) /\ Last(i.ops) = Last(o.ops)

IsBeforeCall(v) == \E j \in 1..(at[2] - 1) : code[Block][j] = v

Copies ==
  pc = "clone" => \A m \in DOMAIN vmap :
    /\ m \in CalleeCode(prog) /\ ~Terminates(prog.inst[m])
    /\ IsBeforeCall(<<m, call>>) /\ IsCopy(inst[<<m, call>>], prog.inst[m])

\* Only the clones of an instruction's users use its clone; the instructions V
\* have been cloned for the call d.
UsedByClones(p, insts, V, d) ==
  \A n \in DOMAIN insts : \A k \in DOMAIN insts[n].ops : \A m \in V :
    insts[n].ops[k] = <<m, d>> =>
      \E u \in V : n = <<u, d>> /\ k \in DOMAIN p.inst[u].ops /\ p.inst[u].ops[k] = m

CopiesUsed == pc = "clone" => UsedByClones(prog, inst, DOMAIN vmap, call)

Passed ==
  pc = "clone" => \A q \in Position : In(Callee(call), q) /\ Before(q, from) =>
    InstrAt(Callee(call), q) \in DOMAIN vmap \/ Terminates(prog.inst[InstrAt(Callee(call), q)])

\* The clone of the returned value.
Returned ==
  LET f == Callee(call)
  IN  pc = "clone" /\ Returns(prog, f) =>
        IF from[1] <= Len(Body(f)) THEN In(f, from)
        ELSE Result(prog, f) \in DOMAIN vmap /\ RetVal = <<Result(prog, f), call>>

\* The loop over the users has at most one to look at.
Users ==
  pc = "users" =>
    \/ use = NoUse /\ Uses(call) = {}
    \/ /\ use # NoUse /\ Uses(call) = {use} /\ lists = [call |-> <<use>>, ret |-> <<>>]
       /\ Uses(RetVal) = {} /\ RetVal \in DOMAIN inst /\ IsBeforeCall(RetVal)
       /\ IsDirectCall(RetVal) => Returns(prog, Callee(RetVal))

Knows ==
  /\ Known /\ Searched /\ Arguments /\ Copies /\ CopiesUsed /\ Passed /\ Returned /\ Users

LEMMA CalleeCodeIs ==
  ASSUME prog \in Programs, CalleesKept, NEW m \in CalleeCode(prog)
  PROVE  /\ inst[m] = prog.inst[m]
         /\ \E f \in Functions \ {Main} : \E j \in DOMAIN Body(f) : \E i \in DOMAIN code[Body(f)[j]] :
              code[Body(f)[j]] = prog.code[Body(f)[j]] /\ m = code[Body(f)[j]][i]
<1>1. PICK f \in Functions \ {Main} : \E b \in Range(prog.layout[f]) : m \in Range(prog.code[b])
  BY DEF CalleeCode
<1>2. PICK b \in Range(prog.layout[f]) : m \in Range(prog.code[b])
  BY <1>1
<1>3. PICK j \in DOMAIN Body(f) : Body(f)[j] = b
  BY <1>2 DEF Range, Body
<1>4. code[b] = prog.code[b] /\ \A i \in DOMAIN code[b] : inst[code[b][i]] = prog.inst[code[b][i]]
  BY <1>2 DEF CalleesKept, Body
<1>5. PICK i \in DOMAIN code[b] : code[b][i] = m
  BY <1>2, <1>4 DEF Range
<1>6. inst[m] = prog.inst[m]
  BY <1>4, <1>5
<1>. QED  BY <1>3, <1>4, <1>5, <1>6

LEMMA CalleeCodeExists ==
  ASSUME NEW p \in Programs, NEW m \in CalleeCode(p)
  PROVE  m \in DOMAIN p.inst /\ m \notin Named(p)
<1>1. PICK f \in Functions \ {Main} : \E b \in Range(p.layout[f]) : m \in Range(p.code[b])
  BY DEF CalleeCode
<1>2. PICK b \in Range(p.layout[f]) : m \in Range(p.code[b])
  BY <1>1
<1>3. b \in Labels(p)
  BY LabelsOfFunction
<1>4. p.code[b] \in Seq(DOMAIN p.inst)
  BY <1>3, ProgramIs
<1>5. m \in DOMAIN p.inst
  BY <1>2, <1>4, ElementOfSeq, LenProperties DEF Range
<1>6. DOMAIN p.inst \cap Named(p) = {}
  BY ProgramAssumption DEF IsProgram
<1>. QED  BY <1>5, <1>6

LEMMA CalleeAt ==
  ASSUME prog \in Programs, CodeInPlace, CalleesKept,
         NEW f \in Functions \ {Main}, NEW q \in Position, In(f, q)
  PROVE  /\ InstrAt(f, q) \in CalleeCode(prog)
         /\ inst[InstrAt(f, q)] = prog.inst[InstrAt(f, q)]
         /\ q[1] \in DOMAIN prog.layout[f] /\ q[2] \in DOMAIN prog.code[prog.layout[f][q[1]]]
         /\ InstrAt(f, q) = prog.code[prog.layout[f][q[1]]][q[2]]
<1>1. q[1] \in DOMAIN Body(f) /\ q[2] \in DOMAIN code[Body(f)[q[1]]]
  BY PositionIs
<1>2. Body(f)[q[1]] \in Range(Body(f))
  BY <1>1 DEF Range
<1>3. code[Body(f)[q[1]]] = prog.code[Body(f)[q[1]]]
  BY <1>2 DEF CalleesKept
<1>4. /\ q[1] \in DOMAIN prog.layout[f] /\ q[2] \in DOMAIN prog.code[prog.layout[f][q[1]]]
      /\ InstrAt(f, q) = prog.code[prog.layout[f][q[1]]][q[2]]
  BY <1>1, <1>3 DEF InstrAt, Body
<1>5. InstrAt(f, q) \in CalleeCode(prog)
  <2>1. InstrAt(f, q) \in Range(prog.code[Body(f)[q[1]]])
    BY <1>4 DEF Range, Body
  <2>. QED  BY <1>2, <2>1 DEF CalleeCode, Body
<1>. QED  BY <1>4, <1>5, CalleeCodeIs

LEMMA MainNotCallee ==
  ASSUME prog \in Programs, CodeInPlace, CalleesKept,
         NEW b \in Range(Body(Main)), NEW i \in DOMAIN code[b]
  PROVE  code[b][i] \notin CalleeCode(prog)
<1>1. SUFFICES ASSUME code[b][i] \in CalleeCode(prog) PROVE FALSE
  OBVIOUS
<1>2. PICK f \in Functions \ {Main} : \E j \in DOMAIN Body(f) : \E h \in DOMAIN code[Body(f)[j]] :
        code[b][i] = code[Body(f)[j]][h]
  BY <1>1, CalleeCodeIs
<1>3. PICK j \in DOMAIN Body(f) : \E h \in DOMAIN code[Body(f)[j]] : code[b][i] = code[Body(f)[j]][h]
  BY <1>2
<1>4. Body(f)[j] \in Labels(prog) /\ b \in Labels(prog)
  BY LabelsOfFunction, MainAssumption DEF Body
<1>5. b = Body(f)[j]
  BY <1>3, <1>4 DEF CodeInPlace, Places
<1>6. PICK k \in DOMAIN Body(Main) : Body(Main)[k] = b
  BY DEF Range
<1>. QED  BY <1>5, <1>6, LabelsApart, MainAssumption DEF Body

LEMMA MainAt ==
  ASSUME prog \in Programs, CodeInPlace, CalleesKept, NEW q \in Position, In(Main, q)
  PROVE  InstrAt(Main, q) \notin CalleeCode(prog)
<1>1. Body(Main)[q[1]] \in Range(Body(Main)) /\ q[2] \in DOMAIN code[Body(Main)[q[1]]]
  BY PositionIs, MainAssumption DEF Range
<1>. QED  BY <1>1, MainNotCallee DEF InstrAt

\* Where an instruction is: in main, or in a callee as it was.
LEMMA MainOrCallee ==
  ASSUME prog \in Programs, CodeInPlace, CalleesKept, NEW n \in DOMAIN inst
  PROVE  \/ n \in CalleeCode(prog)
         \/ \E b \in Range(Body(Main)) : \E i \in DOMAIN code[b] : n = code[b][i]
<1>1. PICK b \in Labels(prog) : \E i \in DOMAIN code[b] : code[b][i] = n
  BY DEF CodeInPlace, Places
<1>2. PICK f \in Functions : b \in Range(prog.layout[f])
  BY DEF Labels
<1>3. CASE f = Main
  BY <1>1, <1>2, <1>3 DEF Body
<1>4. CASE f # Main
  <2>1. code[b] = prog.code[b]
    BY <1>2, <1>4 DEF CalleesKept, Body
  <2>2. n \in Range(prog.code[b])
    BY <1>1, <2>1 DEF Range
  <2>. QED  BY <1>2, <1>4, <2>2 DEF CalleeCode
<1>. QED  BY <1>3, <1>4

LEMMA CalleeOperand ==
  ASSUME NEW p \in Programs, Inlinable(p), NEW m \in CalleeCode(p), NEW k \in DOMAIN p.inst[m].ops
  PROVE  p.inst[m].ops[k] \in CalleeCode(p) \cup Named(p)
<1> DEFINE v == p.inst[m].ops[k]
           ok == CalleeCode(p) \cup Named(p)
<1>1. PICK f \in Functions \ {Main} : \E b \in Range(p.layout[f]) : m \in Range(p.code[b])
  BY DEF CalleeCode
<1>2. PICK j \in DOMAIN p.layout[f] : m \in Range(p.code[p.layout[f][j]])
  BY <1>1 DEF Range
<1>3. PICK i \in DOMAIN p.code[p.layout[f][j]] : m = p.code[p.layout[f][j]][i]
  BY <1>2 DEF Range
<1>4. InCallee(p, f, v, j, i) \/ v \in Range(p.layout[f])
  BY <1>3 DEF Inlinable, CalleesInOrder
<1>5. Range(p.layout[f]) \cup Range(p.params[f]) \cup p.consts \cup Functions \subseteq ok
  BY LabelsOfFunction DEF Named
<1>6. ASSUME NEW b \in 1..j, NEW h \in DOMAIN p.code[p.layout[f][b]]
      PROVE  p.code[p.layout[f][b]][h] \in ok
  <2>1. DOMAIN p.layout[f] = 1..Len(p.layout[f]) /\ Len(p.layout[f]) \in Nat
    BY LabelsOfFunction DEF IsSeq
  <2>2. b \in DOMAIN p.layout[f]
    BY <2>1
  <2>3. p.layout[f][b] \in Range(p.layout[f]) /\ p.code[p.layout[f][b]][h] \in Range(p.code[p.layout[f][b]])
    BY <2>2 DEF Range
  <2>. QED  BY <2>3 DEF CalleeCode
<1> HIDE DEF v, ok
<1>7. v \in ok
  BY <1>4, <1>5, <1>6 DEF InCallee
<1>. QED  BY <1>7 DEF v, ok

LEMMA OperandsKnown ==
  ASSUME OnlyInlinable, Types, Known, NEW n \in DOMAIN inst, NEW k \in DOMAIN Ops(n)
  PROVE  Ops(n)[k] \in DOMAIN inst \cup Named(prog)
<1>1. prog \in Programs /\ CodeInPlace /\ CalleesKept /\ Inlinable(prog)
  BY DEF Types, Locals, Known, OnlyInlinable
<1>2. CASE n \in CalleeCode(prog)
  <2>1. Ops(n)[k] \in CalleeCode(prog) \cup Named(prog)
    BY <1>1, <1>2, CalleeCodeIs, CalleeOperand DEF Ops
  <2>2. ASSUME NEW m \in CalleeCode(prog) PROVE m \in DOMAIN inst
    <3>1. PICK f \in Functions \ {Main} : \E j \in DOMAIN Body(f) : \E i \in DOMAIN code[Body(f)[j]] :
            m = code[Body(f)[j]][i]
      BY <1>1, CalleeCodeIs
    <3>2. \A j \in DOMAIN Body(f) : Body(f)[j] \in Labels(prog)
      BY <1>1, LabelsOfFunction DEF Body
    <3>. QED  BY <1>1, <3>1, <3>2, BlockIs DEF CodeInPlace
  <2>. QED  BY <2>1, <2>2
<1>3. CASE \E b \in Range(Body(Main)) : \E i \in DOMAIN code[b] : n = code[b][i]
  <2>1. PICK b \in Range(Body(Main)) : \E i \in DOMAIN code[b] : n = code[b][i]
    BY <1>3
  <2>2. PICK i \in DOMAIN code[b] : n = code[b][i]
    BY <2>1
  <2>3. InScope(prog, code, Ops(n)[k], b, i)
    BY <2>2 DEF Known, OperandsInScope, Scoped, Ops, Body
  <2>4. b \in Labels(prog) /\ prog.layout[Main][1] \in Labels(prog)
    BY <1>1, EntryLabel DEF Body
  <2>5. \A d \in Labels(prog) : DOMAIN code[d] = 1..Len(code[d]) /\ \A h \in DOMAIN code[d] : code[d][h] \in DOMAIN inst
    BY <1>1, BlockIs DEF CodeInPlace
  <2>6. 1..(i - 1) \subseteq DOMAIN code[b]
    <3>1. DOMAIN code[b] = 1..Len(code[b]) /\ Len(code[b]) \in Nat
      BY <1>1, <2>4, BlockIs DEF CodeInPlace
    <3>. QED  BY <3>1
  <2>7. Range(prog.params[Main]) \cup prog.consts \cup Range(prog.layout[Main]) \cup Functions \subseteq Named(prog)
    BY <1>1, LabelsOfFunction, MainAssumption DEF Named
  <2>8. Range(code[prog.layout[Main][1]]) \subseteq DOMAIN inst
    BY <2>4, <2>5 DEF Range
  <2>. QED  BY <2>3, <2>4, <2>5, <2>6, <2>7, <2>8 DEF InScope
<1>. QED  BY <1>1, <1>2, <1>3, MainOrCallee

LEMMA UsesInIs ==
  ASSUME NEW insts, NEW w, NEW u
  PROVE  u \in UsesIn(insts, w) <=>
           \E n \in DOMAIN insts : \E k \in DOMAIN insts[n].ops : insts[n].ops[k] = w /\ u = <<n, k>>
BY DEF UsesIn

LEMMA DirectCallIs ==
  ASSUME Types, NEW n \in DOMAIN inst, IsDirectCall(n)
  PROVE  Callee(n) \in Functions \ {Main}
<1>1. IsInstr(inst[n]) /\ Main \notin Range(Ops(n))
  BY DEF Types, Instructions
<1>2. inst[n].kind = "call" /\ Callee(n) \in Functions
  BY DEF IsDirectCall, CallsFunction, Callee, Ops
<1>3. Len(Ops(n)) \in DOMAIN Ops(n)
  BY <1>1, <1>2, IsSeqOf DEF IsInstr, Ops
<1>. QED  BY <1>1, <1>2, <1>3 DEF Callee, Last, Range

\* The call that is being inlined.
LEMMA CallIs ==
  ASSUME Types, Cloning
  PROVE  /\ call \in DOMAIN inst /\ IsInstr(inst[call])
         /\ DOMAIN Ops(call) = 1..Len(Ops(call)) /\ Len(Ops(call)) \in Nat
         /\ at[1] \in DOMAIN Body(Main) /\ Block \in Range(Body(Main)) /\ Block \in Labels(prog)
         /\ at[2] \in DOMAIN code[Block] /\ code[Block][at[2]] = call
         /\ pc = "clone" => Callee(call) \in Functions \ {Main}
<1>1. In(Main, at) /\ InstrAt(Main, at) = call /\ prog \in Programs /\ CodeInPlace /\ at \in Position
  BY DEF Types, Locals, AtCall
<1>2. /\ at[1] \in DOMAIN Body(Main) /\ Block \in Labels(prog) /\ at[2] \in DOMAIN code[Block]
      /\ call \in DOMAIN inst
  BY <1>1, PositionIs, MainAssumption DEF Block
<1>3. Block \in Range(Body(Main)) /\ code[Block][at[2]] = call
  BY <1>1, <1>2 DEF Block, Range, InstrAt
<1>4. IsInstr(inst[call]) /\ Main \notin Range(Ops(call))
  BY <1>2 DEF Types, Instructions
<1>5. DOMAIN Ops(call) = 1..Len(Ops(call)) /\ Len(Ops(call)) \in Nat
  BY <1>4, IsSeqOf DEF IsInstr, Ops
<1>6. pc = "clone" => Callee(call) \in Functions \ {Main}
  BY <1>2, DirectCallIs DEF Types, AtCall
<1>. QED  BY <1>2, <1>3, <1>4, <1>5, <1>6

\* What precedes the next position.
LEMMA AdvanceBefore ==
  ASSUME prog \in Programs, CodeInPlace, NEW f \in Functions, NEW p \in Position, NEW q \in Position,
         In(f, p), In(f, q), Before(q, Advance(f, p))
  PROVE  q = p \/ Before(q, p)
<1>1. Len(code[Body(f)[p[1]]]) \in Nat
  BY PositionIs, BlockIs DEF CodeInPlace
<1>2. q = <<q[1], q[2]>> /\ p = <<p[1], p[2]>> /\ q[1] \in Nat /\ q[2] \in Nat \ {0} /\ p[1] \in Nat /\ p[2] \in Nat
  BY DEF Position
<1>3. CASE p[2] < Len(code[Body(f)[p[1]]])
  <2>1. q[1] < p[1] \/ (q[1] = p[1] /\ q[2] < p[2] + 1)
    BY <1>3 DEF Advance, Before
  <2>2. q[1] < p[1] \/ (q[1] = p[1] /\ q[2] < p[2]) \/ (q[1] = p[1] /\ q[2] = p[2])
    BY <1>2, <2>1
  <2>. QED  BY <1>2, <2>2 DEF Before
<1>4. CASE ~(p[2] < Len(code[Body(f)[p[1]]]))
  <2>1. q[1] < p[1] + 1 \/ (q[1] = p[1] + 1 /\ q[2] < 1)
    BY <1>4 DEF Advance, Before
  <2>2. q[1] < p[1] \/ q[1] = p[1]
    BY <1>2, <2>1
  <2>3. q[1] = p[1] => q[2] <= p[2]
    BY <1>1, <1>2, <1>4 DEF In
  <2>4. q[1] < p[1] \/ (q[1] = p[1] /\ q[2] < p[2]) \/ (q[1] = p[1] /\ q[2] = p[2])
    BY <1>2, <2>2, <2>3
  <2>. QED  BY <1>2, <2>4 DEF Before
<1>. QED  BY <1>3, <1>4

LEMMA NothingBefore ==
  ASSUME NEW q \in Position
  PROVE  ~Before(q, First)
BY DEF Position, Before, First

LEMMA KnowsInit ==
  ASSUME OnlyInlinable, Init
  PROVE  Knows
<1>1. /\ prog \in Programs /\ code = prog.code /\ inst = prog.inst /\ pc = "caller" /\ at = First
  BY DEF Init
<1>2. IsProgram(prog) /\ Scoped(prog, prog.code, prog.inst) /\ Inlinable(prog)
  BY <1>1, ProgramAssumption DEF OnlyInlinable
<1>3. DOMAIN inst \cap Named(prog) = {} /\ CalleesKept /\ OperandsInScope
  BY <1>1, <1>2 DEF IsProgram, CalleesKept, OperandsInScope
<1>4. FunctionsLast
  BY <1>1, <1>2 DEF FunctionsLast, Inlinable, FunctionsCalled, Ops
<1>5. GoodCalls
  <2>1. SUFFICES ASSUME NEW n \in DOMAIN inst, IsDirectCall(n)
                 PROVE  /\ Len(Ops(n)) = Len(Params(Callee(n))) + 1
                        /\ \A u, w \in Uses(n) : u = w
                        /\ Uses(n) # {} => Returns(prog, Callee(n))
    BY DEF GoodCalls
  <2>2. CallsFunction(prog.inst[n]) /\ n \in DOMAIN prog.inst
    BY <1>1, <2>1 DEF IsDirectCall
  <2>3. Len(Ops(n)) = Len(Params(Callee(n))) + 1
    BY <1>1, <1>2, <2>2 DEF Inlinable, FunctionsCalled, Ops, Params, Callee
  <2>4. /\ \A u, w \in UsesIn(prog.inst, n) : u = w
        /\ UsesIn(prog.inst, n) # {} => Returns(prog, Last(prog.inst[n].ops))
    BY <1>2, <2>2 DEF Inlinable, UsedOnce
  <2>. QED  BY <1>1, <2>3, <2>4 DEF Uses, Callee, Ops
<1>6. Searched
  BY <1>1, NothingBefore DEF Searched
<1>7. Arguments /\ Copies /\ CopiesUsed /\ Passed /\ Returned /\ Users
  BY <1>1 DEF Arguments, Copies, CopiesUsed, Passed, Returned, Users
<1>. QED  BY <1>3, <1>4, <1>5, <1>6, <1>7 DEF Knows, Known

\* The steps that leave the module alone.
LEMMA KnownKept ==
  ASSUME Known, prog' = prog, code' = code, inst' = inst
  PROVE  Known'
BY DEF Known, CalleesKept, OperandsInScope, FunctionsLast, GoodCalls, Ops, Uses, Params, Callee,
       IsDirectCall, Body

LEMMA KnowsSearch ==
  ASSUME Types, Knows, FindCaller \/ PassOver \/ Return
  PROVE  Knows'
<1>1. /\ prog' = prog /\ code' = code /\ inst' = inst /\ pc' # "clone" /\ pc' # "users"
  BY DEF FindCaller, PassOver, Return, module
<1>2. Known'
  BY <1>1, KnownKept DEF Knows
<1>3. Arguments' /\ Copies' /\ CopiesUsed' /\ Passed' /\ Returned' /\ Users'
  BY <1>1 DEF Arguments, Copies, CopiesUsed, Passed, Returned, Users
<1>4. \A q : (In(Main, q) <=> In(Main, q)') /\ InstrAt(Main, q)' = InstrAt(Main, q)
  BY <1>1 DEF In, InstrAt, Body
<1>5. \A n : IsDirectCall(n)' <=> IsDirectCall(n)
  BY <1>1 DEF IsDirectCall
<1>6. Searched'
  <2>1. CASE FindCaller \/ Return
    <3>1. at' = at /\ (pc' \in {"caller", "search"} => pc \in {"caller", "search"})
      BY <2>1 DEF FindCaller, Return
    <3>. QED  BY <1>4, <1>5, <3>1 DEF Knows, Searched
  <2>2. CASE PassOver
    <3>1. pc = "search" /\ In(Main, at) /\ ~IsDirectCall(InstrAt(Main, at)) /\ at' = Advance(Main, at)
      BY <2>2 DEF PassOver
    <3>2. ASSUME NEW q \in Position, In(Main, q), Before(q, at') PROVE ~IsDirectCall(InstrAt(Main, q))
      <4>1. q = at \/ Before(q, at)
        BY <3>1, <3>2, AdvanceBefore, MainAssumption DEF Types, Locals
      <4>. QED  BY <3>1, <3>2, <4>1 DEF Knows, Searched
    <3>. QED  BY <1>4, <1>5, <3>2 DEF Searched
  <2>. QED  BY <2>1, <2>2
<1>. QED  BY <1>2, <1>3, <1>6 DEF Knows

\* What the call that inlineOnce finds passes.
LEMMA ArgumentIs ==
  ASSUME Opaque, Types, Knows, pc = "search", In(Main, at), IsDirectCall(InstrAt(Main, at)),
         NEW k \in DOMAIN Ops(InstrAt(Main, at))
  PROVE  LET v == Ops(InstrAt(Main, at))[k]
         IN  /\ \A m : v # <<m, InstrAt(Main, at)>>
             /\ v \notin CalleeCode(prog)
             /\ v \in Named(prog) \/ (v \in DOMAIN inst /\ ~IsDirectCall(v))
<1> DEFINE c == InstrAt(Main, at)
           v == Ops(c)[k]
           b0 == Body(Main)[1]
<1>1. prog \in Programs /\ CodeInPlace /\ CalleesKept /\ at \in Position
  BY DEF Types, Locals, Knows, Known
<1>2. /\ at[1] \in DOMAIN Body(Main) /\ Block \in Labels(prog) /\ at[2] \in DOMAIN code[Block]
      /\ c \in DOMAIN inst /\ c = code[Block][at[2]]
  BY <1>1, PositionIs, MainAssumption DEF Block, InstrAt
<1>3. InScope(prog, code, v, Block, at[2])
  <2>1. Block \in Range(prog.layout[Main])
    BY <1>2 DEF Range, Block, Body
  <2>. QED  BY <1>2, <2>1 DEF Knows, Known, OperandsInScope, Scoped, Ops
\* An instruction of main before the call.
<1>4. ASSUME NEW q \in Position, In(Main, q), Before(q, at), v = InstrAt(Main, q)
      PROVE  v \in DOMAIN inst /\ ~IsDirectCall(v) /\ v \notin CalleeCode(prog) /\ \A m : v # <<m, c>>
  <2>1. v \in DOMAIN inst
    BY <1>1, <1>4, PositionIs, MainAssumption
  <2>2. ~IsDirectCall(v)
    BY <1>4 DEF Knows, Searched
  <2>3. v \notin CalleeCode(prog)
    BY <1>1, <1>4, MainAt
  <2> HIDE DEF v, c
  <2>4. ASSUME NEW m, v = <<m, c>> PROVE FALSE
    <3>1. Descends(v, c) /\ v # c
      BY <2>2, <2>4, CloneDescends DEF c
    <3>2. Cloning = FALSE
      BY DEF Cloning
    <3>3. Names(DOMAIN inst, FALSE, call, DOMAIN vmap)
      BY <3>2 DEF Types, NamesApart
    <3>. QED  BY <1>2, <2>1, <3>1, <3>3 DEF Names
  <2>. QED  BY <2>1, <2>2, <2>3, <2>4
<1>5. ASSUME v \in Named(prog)
      PROVE  v \notin CalleeCode(prog) /\ \A m : v # <<m, c>>
  BY <1>1, <1>5, CalleeCodeExists DEF Opaque
<1> HIDE DEF v, c
<1> DEFINE Goal == /\ \A m : v # <<m, c>>
                   /\ v \notin CalleeCode(prog)
                   /\ v \in Named(prog) \/ (v \in DOMAIN inst /\ ~IsDirectCall(v))
<1>0. SUFFICES Goal
  BY DEF v, c
<1>6. CASE \E j \in 1..(at[2] - 1) : code[Block][j] = v
  <2>1. PICK j \in 1..(at[2] - 1) : code[Block][j] = v
    BY <1>6
  <2>2. Len(code[Block]) \in Nat /\ DOMAIN code[Block] = 1..Len(code[Block])
    BY <1>1, <1>2, BlockIs DEF CodeInPlace
  <2>3. at[1] \in Nat \ {0} /\ at[2] \in Nat \ {0}
    BY <1>1 DEF Position
  <2> DEFINE q == <<at[1], j>>
  <2>4. q \in Position /\ Before(q, at)
    BY <2>3 DEF Position, Before
  <2>5. In(Main, q) /\ v = InstrAt(Main, q)
    <3>1. j <= Len(code[Block])
      BY <1>2, <2>2
    <3>2. at[1] <= Len(Body(Main))
      BY DEF In
    <3>. QED  BY <2>1, <3>1, <3>2 DEF In, InstrAt, Block
  <2> HIDE DEF q
  <2>. QED  BY <1>4, <2>4, <2>5
<1>7. CASE Block # prog.layout[Main][1] /\ v \in Range(code[prog.layout[Main][1]])
  <2>1. PICK j \in DOMAIN code[b0] : code[b0][j] = v
    BY <1>7 DEF Range, Body
  <2>2. DOMAIN Body(Main) = 1..Len(Body(Main)) /\ Len(Body(Main)) \in Nat
    BY <1>1, LabelsOfFunction, MainAssumption DEF Body, IsSeq
  <2>3. 1 \in DOMAIN Body(Main) /\ at[1] # 1 /\ at[1] \in Nat /\ at[1] > 1
    BY <1>2, <1>7, <2>2 DEF Block, Body
  <2>4. Len(code[b0]) \in Nat /\ DOMAIN code[b0] = 1..Len(code[b0])
    BY <1>1, <2>3, BlockIs, LabelsOfFunction, MainAssumption DEF CodeInPlace, Body
  <2> DEFINE q == <<1, j>>
  <2>5. q \in Position /\ Before(q, at)
    BY <2>3, <2>4 DEF Position, Before
  <2>6. In(Main, q) /\ v = InstrAt(Main, q)
    BY <2>1, <2>2, <2>3, <2>4 DEF In, InstrAt
  <2> HIDE DEF q
  <2>. QED  BY <1>4, <2>5, <2>6
<1>8. CASE v \in Range(prog.params[Main]) \cup prog.consts \cup Range(prog.layout[Main]) \cup Functions
  <2>1. Range(prog.params[Main]) \cup prog.consts \cup Range(prog.layout[Main]) \cup Functions \subseteq Named(prog)
    BY <1>1, LabelsOfFunction, MainAssumption DEF Named
  <2>. QED  BY <1>5, <1>8, <2>1
<1>. QED  BY <1>3, <1>6, <1>7, <1>8 DEF InScope

\* A function that returns begins with an instruction.
LEMMA ReturnsAt ==
  ASSUME prog \in Programs, CalleesKept, NEW f \in Functions \ {Main}, Returns(prog, f),
         NEW j \in DOMAIN Body(f)
  PROVE  In(f, <<j, 1>>)
<1>1. DOMAIN Body(f) = 1..Len(Body(f)) /\ Len(Body(f)) \in Nat /\ Body(f)[j] \in Range(Body(f))
  BY LabelsOfFunction DEF Body, IsSeq, Range
<1>2. code[Body(f)[j]] = prog.code[Body(f)[j]] /\ prog.code[Body(f)[j]] # <<>>
  BY <1>1 DEF CalleesKept, Returns, Body
<1>3. Body(f)[j] \in Labels(prog)
  BY LabelsOfFunction DEF Body
<1>4. prog.code[Body(f)[j]] \in Seq(DOMAIN prog.inst)
  BY <1>3, ProgramIs
<1>5. Len(code[Body(f)[j]]) >= 1
  BY <1>2, <1>4, EmptySeq, LenProperties
<1>. QED  BY <1>1, <1>5 DEF In

LEMMA KnowsFindCall ==
  ASSUME Opaque, Types, Knows, FindCall, Types'
  PROVE  Knows'
<1> DEFINE c == InstrAt(Main, at)
<1>1. /\ pc = "search" /\ pc' = "clone" /\ In(Main, at) /\ IsDirectCall(c)
      /\ prog' = prog /\ code' = code /\ inst' = inst /\ at' = at /\ call' = c
      /\ from' = First /\ vmap' = NoMap
  BY DEF FindCall, module, replacing
<1>2. Known'
  BY <1>1, KnownKept DEF Knows
<1>3. Searched' /\ Copies' /\ CopiesUsed' /\ Users'
  BY <1>1 DEF Searched, Copies, CopiesUsed, UsedByClones, Users, NoMap
<1>4. Passed'
  BY <1>1, NothingBefore DEF Passed
<1>5. Arguments'
  <2>1. \A k \in DOMAIN Ops(c) :
          /\ \A m : Ops(c)[k] # <<m, c>>
          /\ Ops(c)[k] \notin CalleeCode(prog)
          /\ Ops(c)[k] \in Named(prog) \/ (Ops(c)[k] \in DOMAIN inst /\ ~IsDirectCall(Ops(c)[k]))
    BY <1>1, ArgumentIs
  <2>2. Ops(call)' = Ops(c)
    BY <1>1 DEF Ops
  <2> HIDE DEF c
  <2>. QED  BY <1>1, <2>1, <2>2 DEF Arguments, ArgIs, IsDirectCall
<1>6. Returned'
  <2>1. Callee(call)' = Callee(c)
    BY <1>1 DEF Callee, Ops
  <2>2. PICK f \in Functions \ {Main} : f = Callee(c)
    <3>1. c \in DOMAIN inst
      BY <1>1, PositionIs, MainAssumption DEF Types, Locals
    <3>. QED  BY <1>1, <3>1, DirectCallIs
  <2> HIDE DEF c
  <2>3. ASSUME Returns(prog, f) PROVE Len(Body(f)) >= 1 /\ In(f, First)
    <3>1. prog \in Programs /\ CalleesKept
      BY DEF Types, Locals, Knows, Known
    <3>2. IsSeq(Body(f)) /\ Body(f) # <<>> /\ DOMAIN Body(f) = 1..Len(Body(f))
      BY <2>2, <2>3, <3>1, LabelsOfFunction DEF Returns, Body
    <3>3. Body(f) \in Seq(Labels(prog))
      <4>1. IsProgram(prog)
        BY <3>1, ProgramAssumption
      <4>. QED  BY <4>1 DEF IsProgram, Body
    <3>4. Len(Body(f)) >= 1
      BY <3>2, <3>3, EmptySeq DEF IsSeq
    <3>5. 1 \in DOMAIN Body(f)
      BY <3>2, <3>4 DEF IsSeq
    <3>. QED  BY <2>2, <2>3, <3>1, <3>4, <3>5, ReturnsAt DEF First
  <2>4. (In(f, First) <=> In(f, First)') /\ Body(f)' = Body(f)
    BY <1>1 DEF In, Body, First
  <2>5. First[1] = 1
    BY DEF First
  <2>6. Callee(call)' = f
    BY <2>1, <2>2
  <2>. QED  BY <1>1, <2>3, <2>4, <2>5, <2>6 DEF Returned
<1>. QED  BY <1>2, <1>3, <1>4, <1>5, <1>6 DEF Knows

\* The operand v of a clone, where the instruction has o.
Renamed(v, o) ==
  \/ o \in DOMAIN vmap /\ v = <<o, call>>
  \/ o \in Functions /\ v = o
  \/ o \notin Functions /\ v = o /\ o \in prog.consts
  \/ o \in Named(prog) \ Functions /\ \E a \in 1..(Len(Ops(call)) - 1) : v = Ops(call)[a]

LEMMA ClonedIs ==
  ASSUME OnlyInlinable, Types, Knows, pc = "clone", In(Callee(call), from)
  PROVE  LET n == InstrAt(Callee(call), from)
         IN  /\ n \in CalleeCode(prog) /\ n \in DOMAIN prog.inst /\ n \notin Named(prog)
             /\ inst[n] = prog.inst[n] /\ n \in DOMAIN inst
             /\ Clone.kind = prog.inst[n].kind
             /\ DOMAIN Clone.ops = DOMAIN prog.inst[n].ops /\ Len(Clone.ops) = Len(prog.inst[n].ops)
             /\ DOMAIN prog.inst[n].ops = 1..Len(prog.inst[n].ops) /\ Len(prog.inst[n].ops) \in Nat
<1> DEFINE f == Callee(call)
           n == InstrAt(f, from)
<1>1. prog \in Programs /\ CodeInPlace /\ CalleesKept /\ from \in Position /\ f \in Functions \ {Main}
  BY CallIs DEF Types, Locals, Knows, Known, Cloning
<1>2. n \in CalleeCode(prog) /\ inst[n] = prog.inst[n]
  BY <1>1, CalleeAt
<1>3. n \in DOMAIN prog.inst /\ n \notin Named(prog)
  BY <1>1, <1>2, CalleeCodeExists
<1>4. n \in DOMAIN inst
  BY <1>1, PositionIs
<1> DEFINE ops == Remap(Subst(n))
<1>5. Clone = [inst[n] EXCEPT !.ops = ops]
  BY DEF Clone
<1> HIDE DEF n
<1>6. inst[n] = [op |-> inst[n].op, kind |-> inst[n].kind, ops |-> inst[n].ops] /\ IsSeq(inst[n].ops)
  BY <1>4 DEF Types, Instructions, IsInstr
<1>7. DOMAIN ops = DOMAIN inst[n].ops /\ ops = [k \in DOMAIN inst[n].ops |-> ops[k]]
  BY DEF Remap, Subst, Ops
<1> HIDE DEF ops
<1>8. Clone.kind = inst[n].kind /\ Clone.ops = ops
  BY <1>5, <1>6
<1>9. PICK N \in Nat : N = Len(inst[n].ops) /\ DOMAIN inst[n].ops = 1..N
  BY <1>6, IsSeqOf
<1>10. ops \in Seq(Range(ops))
  BY <1>7, <1>9 DEF Range
<1>11. Len(ops) = N
  BY <1>7, <1>9, <1>10, LenProperties
<1>. QED  BY <1>2, <1>3, <1>4, <1>7, <1>8, <1>9, <1>11 DEF n

\* Where the operand of an instruction of the callee is found.
LEMMA OperandInVmap ==
  ASSUME OnlyInlinable, Types, Knows, pc = "clone", In(Callee(call), from),
         NEW b \in 1..from[1], NEW m \in DOMAIN prog.code[prog.layout[Callee(call)][b]],
         b < from[1] \/ m < from[2],
         ~Terminates(prog.inst[prog.code[prog.layout[Callee(call)][b]][m]])
  PROVE  prog.code[prog.layout[Callee(call)][b]][m] \in DOMAIN vmap
<1> DEFINE f == Callee(call)
           q == <<b, m>>
<1>1. prog \in Programs /\ CodeInPlace /\ CalleesKept /\ from \in Position /\ f \in Functions \ {Main}
  BY CallIs DEF Types, Locals, Knows, Known, Cloning
<1> HIDE DEF f
<1>2. from[1] \in DOMAIN Body(f) /\ DOMAIN Body(f) = 1..Len(Body(f)) /\ Len(Body(f)) \in Nat
  BY <1>1, PositionIs, LabelsOfFunction DEF Body, IsSeq, f
<1>3. b \in DOMAIN Body(f) /\ b \in Nat \ {0} /\ from[1] \in Nat /\ from[2] \in Nat
  BY <1>1, <1>2 DEF Position
<1>4. Body(f)[b] \in Range(Body(f)) /\ Body(f)[b] \in Labels(prog)
  BY <1>1, <1>3, LabelsOfFunction DEF Range, Body
<1>5. code[Body(f)[b]] = prog.code[Body(f)[b]]
  BY <1>1, <1>4 DEF CalleesKept
<1>6. m \in DOMAIN code[Body(f)[b]] /\ DOMAIN code[Body(f)[b]] = 1..Len(code[Body(f)[b]])
      /\ Len(code[Body(f)[b]]) \in Nat
  BY <1>1, <1>4, <1>5, BlockIs, SMTT(30) DEF CodeInPlace, Body, f
<1>7. q \in Position /\ In(f, q) /\ InstrAt(f, q) = prog.code[prog.layout[f][b]][m]
  <2>1. q[1] = b /\ q[2] = m
    OBVIOUS
  <2>2. b <= Len(Body(f)) /\ m <= Len(code[Body(f)[b]]) /\ m \in Nat \ {0}
    BY <1>2, <1>3, <1>6
  <2>3. q \in Position
    BY <1>3, <2>2 DEF Position
  <2>4. code[Body(f)[b]][m] = prog.code[prog.layout[f][b]][m]
    BY <1>5 DEF Body
  <2> HIDE DEF q
  <2>. QED  BY <2>1, <2>2, <2>3, <2>4 DEF In, InstrAt
<1>8. Before(q, from)
  BY <1>3 DEF Before
<1> HIDE DEF q
<1>9. InstrAt(f, q) \in DOMAIN vmap \/ Terminates(prog.inst[InstrAt(f, q)])
  BY <1>7, <1>8 DEF Knows, Passed, f
<1>. QED  BY <1>7, <1>9 DEF f

LEMMA VmapInCallee ==
  ASSUME Types, Knows, pc = "clone"
  PROVE  DOMAIN vmap \subseteq CalleeCode(prog) \ Named(prog)
<1>1. prog \in Programs /\ DOMAIN vmap \subseteq CalleeCode(prog)
  BY DEF Types, Locals, Knows, Copies
<1>. QED  BY <1>1, CalleeCodeExists

LEMMA CloneOperand ==
  ASSUME OnlyInlinable, Types, Knows, pc = "clone", In(Callee(call), from),
         NEW k \in DOMAIN Clone.ops
  PROVE  LET n == InstrAt(Callee(call), from)
             o == prog.inst[n].ops[k]
         IN  \/ Renamed(Clone.ops[k], o)
             \/ Terminates(prog.inst[n]) /\ o \in Named(prog)
<1> DEFINE f == Callee(call)
           n == InstrAt(f, from)
           o == prog.inst[n].ops[k]
           ps == prog.params[f]
<1>1. prog \in Programs /\ CodeInPlace /\ CalleesKept /\ from \in Position /\ f \in Functions \ {Main}
  BY CallIs DEF Types, Locals, Knows, Known, Cloning
<1>2. /\ k \in DOMAIN prog.inst[n].ops /\ inst[n] = prog.inst[n] /\ n \in DOMAIN inst
  BY ClonedIs
<1>3. InCallee(prog, f, o, from[1], from[2]) \/ (Terminates(prog.inst[n]) /\ o \in Range(prog.layout[f]))
  <2>1. /\ from[1] \in DOMAIN prog.layout[f] /\ from[2] \in DOMAIN prog.code[prog.layout[f][from[1]]]
        /\ n = prog.code[prog.layout[f][from[1]]][from[2]]
    BY <1>1, CalleeAt
  <2>2. CalleesInOrder(prog)
    BY <1>1 DEF OnlyInlinable, Inlinable
  <2> HIDE DEF f, n
  <2>. QED  BY <1>1, <1>2, <2>1, <2>2 DEF CalleesInOrder
<1>4. Range(prog.layout[f]) \subseteq Named(prog) /\ prog.consts \subseteq Named(prog) /\ Functions \subseteq Named(prog)
      /\ Range(ps) \subseteq Named(prog)
  BY <1>1, LabelsOfFunction DEF Named
<1> DEFINE sub == Subst(n)
           param == \E a \in DOMAIN ps : ps[a] = o
<1>5. Clone.ops = Remap(sub)
  <2>1. Clone = [inst[n] EXCEPT !.ops = Remap(sub)]
    BY DEF Clone
  <2> HIDE DEF sub, n
  <2>2. inst[n] = [op |-> inst[n].op, kind |-> inst[n].kind, ops |-> inst[n].ops]
    BY <1>2 DEF Types, Instructions, IsInstr
  <2>. QED  BY <2>1, <2>2
<1>6. k \in DOMAIN Ops(n) /\ Ops(n)[k] = o
  BY <1>2 DEF Ops
<1>7. /\ DOMAIN sub = DOMAIN Ops(n)
      /\ param => \E a \in DOMAIN ps : sub[k] = Argument(a)
      /\ ~param => sub[k] = o
  <2> HIDE DEF n, o
  <2>1. sub[k] = IF param THEN Argument(CHOOSE a \in DOMAIN ps : ps[a] = o) ELSE o
    BY <1>6 DEF Subst, Params
  <2>2. param => (CHOOSE a \in DOMAIN ps : ps[a] = o) \in DOMAIN ps
    OBVIOUS
  <2>3. DOMAIN sub = DOMAIN Ops(n)
    BY DEF Subst
  <2> HIDE DEF sub
  <2>. QED  BY <2>1, <2>2, <2>3
<1> HIDE DEF sub, n, o
<1>8. Clone.ops[k] = IF sub[k] \in DOMAIN vmap THEN vmap[sub[k]] ELSE sub[k]
  BY <1>5, <1>6, <1>7 DEF Remap
<1>9. DOMAIN vmap \subseteq CalleeCode(prog) \ Named(prog)
  BY VmapInCallee
<1>10. CASE param
  <2>1. PICK a \in DOMAIN ps : sub[k] = Argument(a)
    BY <1>7, <1>10
  <2>2. Len(Ops(call)) = Len(ps) + 1
    BY CallIs DEF Types, AtCall, Knows, Known, GoodCalls, Params, Cloning
  <2>3. Len(ps) \in Nat /\ DOMAIN ps = 1..Len(ps)
    <3>1. IsProgram(prog)
      BY <1>1, ProgramAssumption
    <3>2. ps \in Seq(Named(prog))
      BY <1>1, <3>1 DEF IsProgram
    <3>. QED  BY <3>2, LenProperties
  <2>4. a \in 1..(Len(Ops(call)) - 1) /\ a < Len(Ops(call)) /\ a \in DOMAIN Ops(call)
    BY <2>2, <2>3, CallIs DEF Cloning
  <2>5. sub[k] = Ops(call)[a]
    BY <2>1, <2>4 DEF Argument
  <2>6. sub[k] \notin DOMAIN vmap
    BY <1>9, <2>4, <2>5 DEF Knows, Arguments, ArgIs
  <2>7. o \in Named(prog) \ Functions
    <3>1. Range(ps) \cap Functions = {}
      BY <1>1 DEF OnlyInlinable, Inlinable, FunctionsCalled
    <3>2. o \in Range(ps)
      BY <1>10 DEF Range
    <3>. QED  BY <1>4, <3>1, <3>2
  <2>8. Clone.ops[k] = Ops(call)[a]
    BY <1>8, <2>5, <2>6
  <2>. QED  BY <2>4, <2>7, <2>8 DEF Renamed, n, o
<1>11. CASE ~param
  <2>1. sub[k] = o /\ o \notin Range(ps)
    BY <1>7, <1>11 DEF Range
  <2>2. o \in Named(prog) => Clone.ops[k] = o
    BY <1>8, <1>9, <2>1
  <2>3. CASE o \in Functions
    BY <1>4, <2>2, <2>3 DEF Renamed, n, o
  <2>4. CASE o \in prog.consts \ Functions
    BY <1>4, <2>2, <2>4 DEF Renamed, n, o
  <2>5. CASE Terminates(prog.inst[n]) /\ o \in Range(prog.layout[f])
    BY <1>4, <2>5 DEF n, o
  <2>6. CASE \E b \in 1..from[1] : \E m \in DOMAIN prog.code[prog.layout[f][b]] :
          (b < from[1] \/ m < from[2]) /\ prog.code[prog.layout[f][b]][m] = o /\ ~Terminates(prog.inst[o])
    <3>1. o \in DOMAIN vmap
      BY <2>6, OperandInVmap
    <3>2. vmap[o] = <<o, call>>
      BY <3>1 DEF Types, Cloned, Cloning
    <3>. QED  BY <1>8, <2>1, <3>1, <3>2 DEF Renamed, n, o
  <2>. QED  BY <1>3, <2>1, <2>3, <2>4, <2>5, <2>6 DEF InCallee
<1>. QED  BY <1>10, <1>11

\* What the clone of an instruction that is not a terminator names is in
\* scope before the call; it names a function only where the instruction does.
LEMMA CloneNames ==
  ASSUME Opaque, OnlyInlinable, Types, Knows, pc = "clone", In(Callee(call), from),
         ~Terminates(prog.inst[InstrAt(Callee(call), from)]), NEW k \in DOMAIN Clone.ops
  PROVE  LET o == prog.inst[InstrAt(Callee(call), from)].ops[k]
             v == Clone.ops[k]
         IN  /\ InScope(prog, code, v, Block, at[2])
             /\ v \in Functions => o = v
             /\ v \in Named(prog) \/ (v \in DOMAIN inst /\ ~IsDirectCall(v)) \/ (o \in DOMAIN vmap /\ v = <<o, call>>)
             /\ \A m : v = <<m, call>> => m = o /\ o \in DOMAIN vmap
<1> DEFINE o == prog.inst[InstrAt(Callee(call), from)].ops[k]
           v == Clone.ops[k]
<1>1. Renamed(v, o)
  BY CloneOperand
<1> HIDE DEF v, o
<1>2. prog \in Programs
  BY DEF Types, Locals
<1>3. Functions \subseteq Named(prog) /\ prog.consts \subseteq Named(prog)
  BY DEF Named
<1>4. \A m, d : <<m, d>> \notin Named(prog)
  BY <1>2 DEF Opaque
<1> DEFINE Goal == /\ InScope(prog, code, v, Block, at[2])
                   /\ v \in Functions => o = v
                   /\ v \in Named(prog) \/ (v \in DOMAIN inst /\ ~IsDirectCall(v)) \/ (o \in DOMAIN vmap /\ v = <<o, call>>)
                   /\ \A m : v = <<m, call>> => m = o /\ o \in DOMAIN vmap
<1>5. SUFFICES Goal
  BY DEF v, o
<1>6. CASE o \in DOMAIN vmap /\ v = <<o, call>>
  <2>1. IsBeforeCall(v)
    BY <1>6 DEF Knows, Copies
  <2>2. v \notin Functions
    BY <1>3, <1>4, <1>6
  <2>. QED  BY <1>6, <2>1, <2>2 DEF IsBeforeCall, InScope
<1>7. CASE v = o /\ (o \in Functions \/ o \in prog.consts)
  BY <1>3, <1>4, <1>7 DEF InScope
<1>8. CASE \E a \in 1..(Len(Ops(call)) - 1) : v = Ops(call)[a]
  <2>1. PICK a \in 1..(Len(Ops(call)) - 1) : v = Ops(call)[a]
    BY <1>8
  <2>2. /\ call \in DOMAIN inst /\ DOMAIN Ops(call) = 1..Len(Ops(call)) /\ Len(Ops(call)) \in Nat
        /\ Block \in Range(Body(Main)) /\ at[2] \in DOMAIN code[Block] /\ code[Block][at[2]] = call
    BY CallIs DEF Cloning
  <2>3. a \in DOMAIN Ops(call) /\ a # Len(Ops(call))
    BY <2>1, <2>2
  <2>4. InScope(prog, code, v, Block, at[2])
    BY <2>1, <2>2, <2>3 DEF Knows, Known, OperandsInScope, Scoped, Ops, Body
  <2>5. v \notin Functions
    BY <2>1, <2>2, <2>3 DEF Knows, Known, FunctionsLast
  <2>6. ArgIs(v)
    BY <2>1, <2>3 DEF Knows, Arguments
  <2>. QED  BY <2>4, <2>5, <2>6 DEF ArgIs
<1>. QED  BY <1>1, <1>6, <1>7, <1>8 DEF Renamed

LEMMA CloneIsCopy ==
  ASSUME Opaque, OnlyInlinable, Types, Knows, pc = "clone", In(Callee(call), from),
         ~Terminates(prog.inst[InstrAt(Callee(call), from)])
  PROVE  IsCopy(Clone, prog.inst[InstrAt(Callee(call), from)])
<1> DEFINE i == prog.inst[InstrAt(Callee(call), from)]
<1>1. /\ Clone.kind = i.kind /\ DOMAIN Clone.ops = DOMAIN i.ops /\ Len(Clone.ops) = Len(i.ops)
      /\ DOMAIN i.ops = 1..Len(i.ops) /\ Len(i.ops) \in Nat /\ i = inst[InstrAt(Callee(call), from)]
      /\ InstrAt(Callee(call), from) \in DOMAIN inst
  BY ClonedIs
<1>2. i.kind = "call" => Len(i.ops) > 0
  BY <1>1 DEF Types, Instructions, IsInstr
<1>3. \A k \in DOMAIN Clone.ops : Clone.ops[k] \in Functions => i.ops[k] = Clone.ops[k]
  BY CloneNames
<1> HIDE DEF i
<1>4. IsCopy(Clone, i)
  BY <1>1, <1>2, <1>3 DEF IsCopy, CallsFunction, Last
<1>. QED  BY <1>4 DEF i

LEMMA CopiesClone ==
  ASSUME Opaque, OnlyInlinable, Types, Knows, CloneInstruction
  PROVE  Copies'
<1>0. PICK n : n = InstrAt(Callee(call), from)
  OBVIOUS
<1> DEFINE c == <<n, call>>
           D == DOMAIN inst
<1>1. /\ pc = "clone" /\ In(Callee(call), from) /\ ~IsTerminator(n)
      /\ at' = <<at[1], at[2] + 1>> /\ prog' = prog /\ call' = call
  BY <1>0 DEF CloneInstruction
<1>2. /\ n \in D /\ inst'[c] = Clone /\ \A m \in D : inst'[m] = inst[m]
      /\ DOMAIN vmap' = DOMAIN vmap \cup {n} /\ at[2] \in DOMAIN code[Block] /\ Block \in Labels(prog)
      /\ code' = With(code, Block, at[2], c)
  BY <1>0, CloneStep DEF Block
<1>3. n \in CalleeCode(prog) /\ inst[n] = prog.inst[n] /\ ~Terminates(prog.inst[n])
  BY <1>0, <1>1, ClonedIs DEF IsTerminator
<1>4. IsCopy(Clone, prog.inst[n])
  BY <1>0, <1>1, <1>3, CloneIsCopy
<1>5. Places(Labels(prog), code, D) /\ DOMAIN code[Block] = 1..Len(code[Block]) /\ Len(code[Block]) \in Nat
      /\ \A j \in DOMAIN code[Block] : code[Block][j] \in D
  BY <1>2, BlockIs DEF Types, CodeInPlace
<1>6. /\ code'[Block][at[2]] = c
      /\ \A j \in DOMAIN code[Block] : code'[Block][Later(Block, at[2], Block, j)] = code[Block][j]
  BY <1>2, <1>5, InsertedAt
<1>7. Block' = Block
  BY <1>1 DEF Block, Body
<1>8. at'[2] = at[2] + 1 /\ at[2] \in Nat \ {0}
  BY <1>1 DEF Types, Locals, Position
<1>9. ASSUME NEW m \in DOMAIN vmap
      PROVE  <<m, call>> \in D /\ IsBeforeCall(<<m, call>>)'
  <2>1. PICK j \in 1..(at[2] - 1) : code[Block][j] = <<m, call>>
    BY <1>1 DEF Knows, Copies, IsBeforeCall
  <2>2. j \in DOMAIN code[Block] /\ Later(Block, at[2], Block, j) = j /\ j \in 1..at[2]
    BY <1>2, <1>5, <1>8, <2>1 DEF Later
  <2>3. j \in 1..(at'[2] - 1)
    BY <1>8, <2>2
  <2>. QED  BY <1>1, <1>5, <1>6, <1>7, <2>1, <2>2, <2>3 DEF IsBeforeCall
<1>10. IsBeforeCall(<<n, call>>)'
  <2>1. at[2] \in 1..(at'[2] - 1)
    BY <1>8
  <2>. QED  BY <1>1, <1>6, <1>7, <2>1 DEF IsBeforeCall
<1>11. SUFFICES ASSUME NEW m \in DOMAIN vmap'
                PROVE  /\ m \in CalleeCode(prog) /\ ~Terminates(prog.inst[m])
                       /\ IsBeforeCall(<<m, call>>)' /\ IsCopy(inst'[<<m, call>>], prog.inst[m])
  BY <1>1 DEF Copies
<1>12. CASE m = n
  BY <1>2, <1>3, <1>4, <1>10, <1>12
<1>13. CASE m \in DOMAIN vmap
  BY <1>1, <1>2, <1>9, <1>13 DEF Knows, Copies
<1>. QED  BY <1>2, <1>12, <1>13

LEMMA CopiesUsedClone ==
  ASSUME Opaque, OnlyInlinable, Types, Knows, CloneInstruction
  PROVE  CopiesUsed'
<1> DEFINE n == InstrAt(Callee(call), from)
           c == <<n, call>>
           D == DOMAIN inst
<1>1. /\ pc = "clone" /\ In(Callee(call), from) /\ ~IsTerminator(n) /\ prog' = prog /\ call' = call
  BY DEF CloneInstruction
<1>2. /\ c \notin D /\ DOMAIN inst' = D \cup {c} /\ inst'[c] = Clone /\ \A m \in D : inst'[m] = inst[m]
      /\ DOMAIN vmap' = DOMAIN vmap \cup {n}
  BY CloneStep
<1>3. ~Terminates(prog.inst[n]) /\ DOMAIN Clone.ops = DOMAIN prog.inst[n].ops
  BY <1>1, ClonedIs DEF IsTerminator
<1>4. \A k \in DOMAIN Clone.ops : \A m :
        Clone.ops[k] = <<m, call>> => m \in DOMAIN vmap /\ k \in DOMAIN prog.inst[n].ops /\ prog.inst[n].ops[k] = m
  BY <1>1, <1>3, CloneNames
<1>5. \A x, d : <<x, d>> \notin Named(prog)
  BY DEF Opaque, Types, Locals
<1>6. \A x \in D : \A k \in DOMAIN Ops(x) : Ops(x)[k] \in D \cup Named(prog)
  BY OperandsKnown DEF Knows
<1> HIDE DEF n
<1>7. SUFFICES ASSUME NEW x \in D \cup {c}, NEW k \in DOMAIN inst'[x].ops, NEW m \in DOMAIN vmap',
                      inst'[x].ops[k] = <<m, call>>
               PROVE  \E u \in DOMAIN vmap' :
                        x = <<u, call>> /\ k \in DOMAIN prog.inst[u].ops /\ prog.inst[u].ops[k] = m
  BY <1>1, <1>2 DEF CopiesUsed, UsedByClones
<1>8. CASE x = c
  BY <1>2, <1>4, <1>7, <1>8
<1>9. CASE x \in D
  <2>1. inst'[x] = inst[x] /\ k \in DOMAIN Ops(x) /\ Ops(x)[k] = <<m, call>>
    BY <1>2, <1>7, <1>9 DEF Ops
  <2>2. m # n
    BY <1>2, <1>5, <1>6, <1>9, <2>1
  <2>. QED  BY <1>1, <1>2, <1>9, <2>1, <2>2 DEF Knows, CopiesUsed, UsedByClones, Ops
<1>. QED  BY <1>8, <1>9

\* The callees are as they were when only main's code changes.
LEMMA CalleesKeptStill ==
  ASSUME prog \in Programs, CodeInPlace, CalleesKept, prog' = prog,
         \A f \in Functions \ {Main} : \A i \in DOMAIN Body(f) : code'[Body(f)[i]] = code[Body(f)[i]],
         \A m \in CalleeCode(prog) : inst'[m] = inst[m]
  PROVE  CalleesKept'
<1>1. SUFFICES ASSUME NEW f \in Functions \ {Main}, NEW b \in Range(Body(f))
               PROVE  code'[b] = prog.code[b] /\ \A i \in DOMAIN code'[b] : inst'[code'[b][i]] = prog.inst[code'[b][i]]
  BY DEF CalleesKept, Body
<1>2. code'[b] = code[b]
  BY <1>1 DEF Range
<1>3. code[b] = prog.code[b] /\ \A i \in DOMAIN code[b] : inst[code[b][i]] = prog.inst[code[b][i]]
  BY <1>1 DEF CalleesKept
<1>4. \A i \in DOMAIN code[b] : code[b][i] \in CalleeCode(prog)
  BY <1>1, <1>3 DEF CalleeCode, Range, Body
<1>. QED  BY <1>2, <1>3, <1>4

LEMMA CalleeCodeIn ==
  ASSUME prog \in Programs, CodeInPlace, CalleesKept
  PROVE  CalleeCode(prog) \subseteq DOMAIN inst
<1>1. SUFFICES ASSUME NEW m \in CalleeCode(prog) PROVE m \in DOMAIN inst
  OBVIOUS
<1>2. PICK f \in Functions \ {Main} : \E j \in DOMAIN Body(f) : \E i \in DOMAIN code[Body(f)[j]] :
        m = code[Body(f)[j]][i]
  BY CalleeCodeIs
<1>3. \A j \in DOMAIN Body(f) : Body(f)[j] \in Labels(prog)
  BY LabelsOfFunction DEF Body
<1>. QED  BY <1>2, <1>3, BlockIs DEF CodeInPlace

\* The calls among the clones have the uses that were cloned.
LEMMA GoodCopy ==
  ASSUME OnlyInlinable, NEW p \in Programs, NEW insts, NEW V, V \subseteq DOMAIN p.inst, NEW d,
         NEW m \in V, NEW i, IsCopy(i, p.inst[m]), CallsFunction(i), UsedByClones(p, insts, V, d)
  PROVE  /\ Len(i.ops) = Len(p.params[Last(i.ops)]) + 1
         /\ \A u, w \in UsesIn(insts, <<m, d>>) : u = w
         /\ UsesIn(insts, <<m, d>>) # {} => Returns(p, Last(i.ops))
<1>1. m \in DOMAIN p.inst /\ CallsFunction(p.inst[m]) /\ Last(i.ops) = Last(p.inst[m].ops)
      /\ Len(i.ops) = Len(p.inst[m].ops)
  BY DEF IsCopy
<1>2. Len(i.ops) = Len(p.params[Last(i.ops)]) + 1
  BY <1>1 DEF OnlyInlinable, Inlinable, FunctionsCalled
<1>3. /\ \A u, w \in UsesIn(p.inst, m) : u = w
      /\ UsesIn(p.inst, m) # {} => Returns(p, Last(i.ops))
  BY <1>1 DEF OnlyInlinable, Inlinable, UsedOnce
<1>4. ASSUME NEW u \in UsesIn(insts, <<m, d>>)
      PROVE  \E x, k : u = <<<<x, d>>, k>> /\ <<x, k>> \in UsesIn(p.inst, m)
  <2>1. PICK n \in DOMAIN insts : \E k \in DOMAIN insts[n].ops : insts[n].ops[k] = <<m, d>> /\ u = <<n, k>>
    BY <1>4, UsesInIs
  <2>2. PICK k \in DOMAIN insts[n].ops : insts[n].ops[k] = <<m, d>> /\ u = <<n, k>>
    BY <2>1
  <2>3. PICK x \in V : n = <<x, d>> /\ k \in DOMAIN p.inst[x].ops /\ p.inst[x].ops[k] = m
    BY <2>2 DEF UsedByClones
  <2>4. <<x, k>> \in UsesIn(p.inst, m)
    BY <2>3, UsesInIs
  <2>. QED  BY <2>2, <2>3, <2>4
<1>5. ASSUME NEW u \in UsesIn(insts, <<m, d>>), NEW w \in UsesIn(insts, <<m, d>>) PROVE u = w
  <2>1. PICK x, k : u = <<<<x, d>>, k>> /\ <<x, k>> \in UsesIn(p.inst, m)
    BY <1>4
  <2>2. PICK y, h : w = <<<<y, d>>, h>> /\ <<y, h>> \in UsesIn(p.inst, m)
    BY <1>4
  <2>3. <<x, k>> = <<y, h>>
    BY <1>3, <2>1, <2>2
  <2>4. x = y /\ k = h
    BY <2>3
  <2>. QED  BY <2>1, <2>2, <2>4
<1>6. UsesIn(insts, <<m, d>>) # {} => UsesIn(p.inst, m) # {}
  BY <1>4
<1>. QED  BY <1>2, <1>3, <1>5, <1>6

LEMMA KnownClone ==
  ASSUME Opaque, OnlyInlinable, Types, Knows, CloneInstruction
  PROVE  Known'
<1> DEFINE n == InstrAt(Callee(call), from)
           c == <<n, call>>
           D == DOMAIN inst
<1>1. /\ pc = "clone" /\ pc' = "clone" /\ In(Callee(call), from) /\ ~IsTerminator(n)
      /\ prog' = prog /\ call' = call
  BY DEF CloneInstruction
<1>2. /\ call \in D /\ c \notin D
      /\ DOMAIN inst' = D \cup {c} /\ inst'[c] = Clone /\ \A m \in D : inst'[m] = inst[m]
      /\ at[2] \in DOMAIN code[Block] /\ Block \in Labels(prog)
      /\ code' = With(code, Block, at[2], c)
      /\ \A f \in Functions \ {Main} : \A i \in DOMAIN Body(f) : code'[Body(f)[i]] = code[Body(f)[i]]
  BY CloneStep DEF Block
<1>3. /\ ~Terminates(prog.inst[n]) /\ n \in D /\ inst[n] = prog.inst[n]
      /\ DOMAIN Clone.ops = DOMAIN Ops(n) /\ Len(Clone.ops) = Len(Ops(n)) /\ Clone.kind = inst[n].kind
  BY <1>1, ClonedIs DEF IsTerminator, Ops
<1>4. \A k \in DOMAIN Clone.ops :
        /\ InScope(prog, code, Clone.ops[k], Block, at[2])
        /\ Clone.ops[k] \in Functions => Ops(n)[k] = Clone.ops[k]
        /\ \/ Clone.ops[k] \in Named(prog) \/ (Clone.ops[k] \in DOMAIN inst /\ ~IsDirectCall(Clone.ops[k]))
           \/ \E m \in DOMAIN vmap : Clone.ops[k] = <<m, call>>
  BY <1>1, <1>3, CloneNames DEF Ops
<1>5. prog \in Programs /\ CodeInPlace /\ CalleesKept /\ CalleeCode(prog) \subseteq D
  BY CalleeCodeIn DEF Types, Locals, Knows, Known
<1>6. Copies' /\ CopiesUsed'
  BY CopiesClone, CopiesUsedClone
<1> HIDE DEF n
<1>7. (DOMAIN inst \cap Named(prog) = {})'
  BY <1>1, <1>2, <1>5 DEF Opaque, Knows, Known
<1>8. CalleesKept'
  BY <1>1, <1>2, <1>5, CalleesKeptStill
<1>9. OperandsInScope'
  <2>1. at[2] \in 1..(Len(code[Block]) + 1)
    BY <1>2, <1>5, BlockIs DEF CodeInPlace
  <2>2. Scoped(prog, code, inst) /\ Places(Labels(prog), code, D)
    BY <1>5 DEF Knows, Known, OperandsInScope, CodeInPlace
  <2>3. \A k \in DOMAIN inst'[c].ops : InScope(prog, code, inst'[c].ops[k], Block, at[2])
    BY <1>2, <1>4
  <2> HIDE DEF c
  <2>4. Scoped(prog, With(code, Block, at[2], c), inst')
    BY <1>2, <1>5, <2>1, <2>2, <2>3, ScopedInserted
  <2>. QED  BY <1>1, <1>2, <2>4 DEF OperandsInScope
<1>10. FunctionsLast'
  <2>1. SUFFICES ASSUME NEW m \in D \cup {c}, NEW k \in DOMAIN inst'[m].ops, inst'[m].ops[k] \in Functions
                 PROVE  inst'[m].kind = "call" /\ k = Len(inst'[m].ops)
    BY <1>2 DEF FunctionsLast, Ops
  <2>2. CASE m = c
    <3>1. k \in DOMAIN Ops(n) /\ Ops(n)[k] \in Functions
      BY <1>2, <1>3, <1>4, <2>1, <2>2
    <3>. QED  BY <1>2, <1>3, <2>2, <3>1 DEF Knows, Known, FunctionsLast
  <2>3. CASE m \in D
    BY <1>2, <2>1, <2>3 DEF Knows, Known, FunctionsLast, Ops
  <2>. QED  BY <2>1, <2>2, <2>3
<1>11. GoodCalls'
  <2>1. SUFFICES ASSUME NEW m \in DOMAIN inst', CallsFunction(inst'[m])
                 PROVE  LET f == Last(inst'[m].ops)
                        IN  /\ Len(inst'[m].ops) = Len(prog.params[f]) + 1
                            /\ \A u, w \in UsesIn(inst', m) : u = w
                            /\ UsesIn(inst', m) # {} => Returns(prog, f)
    BY <1>1 DEF GoodCalls, IsDirectCall, Ops, Params, Callee, Uses
  <2>2. CASE \E x \in DOMAIN vmap' : m = <<x, call>>
    <3>1. PICK x \in DOMAIN vmap' : m = <<x, call>>
      BY <2>2
    <3>2. DOMAIN vmap' \subseteq DOMAIN prog.inst
      BY <1>1, <1>5, <1>6, CalleeCodeExists DEF Copies
    <3>3. IsCopy(inst'[m], prog.inst[x])
      BY <1>1, <1>6, <3>1 DEF Copies
    <3>4. UsedByClones(prog, inst', DOMAIN vmap', call)
      BY <1>1, <1>6 DEF CopiesUsed
    <3>5. PICK V, i, insts, p, d : V = DOMAIN vmap' /\ i = inst'[m] /\ insts = inst' /\ p = prog /\ d = call
      OBVIOUS
    <3>6. p \in Programs /\ x \in V /\ V \subseteq DOMAIN p.inst /\ IsCopy(i, p.inst[x]) /\ CallsFunction(i)
      BY <1>5, <2>1, <3>1, <3>2, <3>3, <3>5
    <3>7. UsedByClones(p, insts, V, d)
      BY <3>4, <3>5
    <3>8. /\ Len(i.ops) = Len(p.params[Last(i.ops)]) + 1
          /\ \A u, w \in UsesIn(insts, <<x, d>>) : u = w
          /\ UsesIn(insts, <<x, d>>) # {} => Returns(p, Last(i.ops))
      BY <3>6, <3>7, GoodCopy
    <3>. QED  BY <3>1, <3>5, <3>8
  <2>3. CASE ~(\E x \in DOMAIN vmap' : m = <<x, call>>)
    <3>1. m \in D /\ inst'[m] = inst[m] /\ IsDirectCall(m)
      BY <1>2, <2>1, <2>3, CloneStep DEF IsDirectCall, n
    <3>2. \A k \in DOMAIN Clone.ops : Clone.ops[k] # m
      BY <1>4, <2>3, <3>1, CloneStep DEF Knows, Known
    <3>3. UsesIn(inst', m) \subseteq Uses(m)
      <4>1. SUFFICES ASSUME NEW x \in D \cup {c}, NEW k \in DOMAIN inst'[x].ops, inst'[x].ops[k] = m
                     PROVE  <<x, k>> \in UsesIn(inst, m)
        BY <1>2, UsesInIs DEF Uses
      <4>2. x \in D /\ inst'[x] = inst[x]
        BY <1>2, <3>2, <4>1
      <4>. QED  BY <4>1, <4>2, UsesInIs
    <3>. QED  BY <3>1, <3>3 DEF Knows, Known, GoodCalls, Ops, Params, Callee
  <2>. QED  BY <2>2, <2>3
<1>. QED  BY <1>7, <1>8, <1>9, <1>10, <1>11 DEF Known

\* A callee whose code does not change.
LEMMA CalleeStill ==
  ASSUME Types, NEW f \in Functions \ {Main}, prog' = prog, NEW q \in Position,
         \A i \in DOMAIN Body(f) : code'[Body(f)[i]] = code[Body(f)[i]]
  PROVE  /\ Body(f)' = Body(f) /\ (In(f, q)' <=> In(f, q))
         /\ In(f, q) => InstrAt(f, q)' = InstrAt(f, q)
<1>1. DOMAIN Body(f) = 1..Len(Body(f)) /\ Len(Body(f)) \in Nat
  BY LabelsOfFunction DEF Types, Locals, Body, IsSeq
<1>2. q[1] \in Nat \ {0}
  BY DEF Position
<1>3. Body(f)' = Body(f)
  BY DEF Body
<1>4. q[1] <= Len(Body(f)) => code'[Body(f)[q[1]]] = code[Body(f)[q[1]]]
  BY <1>1, <1>2
<1>. QED  BY <1>3, <1>4 DEF In, InstrAt

\* A function that returns is left after its last instruction.
LEMMA NextIn ==
  ASSUME prog \in Programs, CodeInPlace, CalleesKept, NEW f \in Functions \ {Main}, Returns(prog, f),
         NEW q \in Position, In(f, q)
  PROVE  IF Advance(f, q)[1] <= Len(Body(f)) THEN In(f, Advance(f, q))
         ELSE InstrAt(f, q) = EndOf(prog, f)
<1>1. /\ q[1] \in DOMAIN Body(f) /\ Body(f)[q[1]] \in Labels(prog) /\ q[2] \in DOMAIN code[Body(f)[q[1]]]
      /\ DOMAIN Body(f) = 1..Len(Body(f)) /\ Len(Body(f)) \in Nat
  BY PositionIs, LabelsOfFunction DEF Body, IsSeq
<1> DEFINE b == Body(f)[q[1]]
<1>2. DOMAIN code[b] = 1..Len(code[b]) /\ Len(code[b]) \in Nat
  BY <1>1, BlockIs DEF CodeInPlace
<1> HIDE DEF b
<1>3. Advance(f, q) = IF q[2] < Len(code[b]) THEN <<q[1], q[2] + 1>> ELSE <<q[1] + 1, 1>>
  BY DEF Advance, b
<1>4. q[1] \in Nat \ {0} /\ q[2] \in Nat \ {0} /\ q[1] <= Len(Body(f)) /\ q[2] <= Len(code[b])
  BY <1>1, <1>2 DEF b
<1>5. CASE q[2] < Len(code[b])
  <2>1. <<q[1], q[2] + 1>>[1] = q[1] /\ <<q[1], q[2] + 1>>[2] = q[2] + 1
    OBVIOUS
  <2>2. q[2] + 1 <= Len(code[b])
    BY <1>2, <1>4, <1>5
  <2>3. In(f, <<q[1], q[2] + 1>>)
    BY <1>4, <2>1, <2>2 DEF In, b
  <2>. QED  BY <1>3, <1>4, <1>5, <2>1, <2>3
<1>6. CASE ~(q[2] < Len(code[b]))
  <2>1. Advance(f, q) = <<q[1] + 1, 1>> /\ q[2] = Len(code[b])
    BY <1>2, <1>3, <1>4, <1>6
  <2>2. CASE q[1] + 1 <= Len(Body(f))
    <3>1. q[1] + 1 \in DOMAIN Body(f)
      BY <1>1, <1>4, <2>2
    <3>2. In(f, <<q[1] + 1, 1>>)
      BY <3>1, ReturnsAt
    <3>. QED  BY <2>1, <2>2, <3>2
  <2>3. CASE ~(q[1] + 1 <= Len(Body(f)))
    <3>1. q[1] = Len(Body(f))
      BY <1>1, <1>4, <2>3
    <3>2. b = Last(prog.layout[f]) /\ b \in Range(Body(f))
      BY <1>1, <3>1 DEF Last, b, Body, Range
    <3>3. code[b] = prog.code[b]
      BY <3>2 DEF CalleesKept
    <3>4. InstrAt(f, q) = Last(prog.code[b])
      BY <2>1, <3>3 DEF InstrAt, Last, b
    <3>. QED  BY <2>1, <2>3, <3>2, <3>4 DEF EndOf
  <2>. QED  BY <2>2, <2>3
<1>. QED  BY <1>5, <1>6

\* One step of the loop over the callee, whatever it does to the instruction.
LEMMA PassedStep ==
  ASSUME Types, Knows, pc = "clone", In(Callee(call), from), prog' = prog, call' = call,
         Callee(call)' = Callee(call), from' = Advance(Callee(call), from),
         \A f \in Functions \ {Main} : \A i \in DOMAIN Body(f) : code'[Body(f)[i]] = code[Body(f)[i]],
         DOMAIN vmap \subseteq DOMAIN vmap',
         \/ InstrAt(Callee(call), from) \in DOMAIN vmap'
         \/ Terminates(prog.inst[InstrAt(Callee(call), from)])
  PROVE  Passed'
<1>1. prog \in Programs /\ CodeInPlace /\ from \in Position
  BY DEF Types, Locals
<1>2. PICK f \in Functions \ {Main} : f = Callee(call)
  BY CallIs DEF Cloning
<1>3. \A q \in Position : In(f, q) /\ Before(q, from) =>
        InstrAt(f, q) \in DOMAIN vmap \/ Terminates(prog.inst[InstrAt(f, q)])
  BY <1>2 DEF Knows, Passed
<1>4. SUFFICES ASSUME NEW q \in Position, In(f, q)', Before(q, from')
               PROVE  InstrAt(f, q)' \in DOMAIN vmap' \/ Terminates(prog.inst[InstrAt(f, q)'])
  BY <1>2 DEF Passed
<1>5. In(f, q) /\ InstrAt(f, q)' = InstrAt(f, q)
  BY <1>4, CalleeStill
<1>6. q = from \/ Before(q, from)
  BY <1>1, <1>2, <1>4, <1>5, AdvanceBefore
<1>. QED  BY <1>2, <1>3, <1>5, <1>6

LEMMA ReturnedStep ==
  ASSUME Types, Knows, pc = "clone", In(Callee(call), from), prog' = prog, call' = call,
         Callee(call)' = Callee(call), from' = Advance(Callee(call), from),
         \A f \in Functions \ {Main} : \A i \in DOMAIN Body(f) : code'[Body(f)[i]] = code[Body(f)[i]],
         LET f == Callee(call)
         IN  Returns(prog, f) /\ InstrAt(f, from) = EndOf(prog, f) =>
               Result(prog, f) \in DOMAIN vmap' /\ RetVal' = <<Result(prog, f), call>>
  PROVE  Returned'
<1>1. prog \in Programs /\ CodeInPlace /\ CalleesKept /\ from \in Position
  BY DEF Types, Locals, Knows, Known
<1>2. PICK f \in Functions \ {Main} : f = Callee(call)
  BY CallIs DEF Cloning
<1>3. PICK next \in Position : next = Advance(f, from)
  BY <1>1, AdvanceIs
<1>4. Returns(prog, f) =>
        IF next[1] <= Len(Body(f)) THEN In(f, next) ELSE InstrAt(f, from) = EndOf(prog, f)
  BY <1>1, <1>2, <1>3, NextIn
<1>5. Body(f)' = Body(f) /\ (In(f, next)' <=> In(f, next))
  BY CalleeStill
<1>6. Returns(prog, f) =>
        IF next[1] <= Len(Body(f)') THEN In(f, next)'
        ELSE Result(prog, f) \in DOMAIN vmap' /\ RetVal' = <<Result(prog, f), call>>
  BY <1>2, <1>4, <1>5
<1>7. from' = next /\ Callee(call)' = f
  BY <1>2, <1>3
<1>. QED  BY <1>6, <1>7 DEF Returned

LEMMA KnowsCloneInstruction ==
  ASSUME Opaque, OnlyInlinable, Types, Knows, CloneInstruction
  PROVE  Knows'
<1> DEFINE n == InstrAt(Callee(call), from)
           c == <<n, call>>
           D == DOMAIN inst
<1>1. /\ pc = "clone" /\ pc' = "clone" /\ In(Callee(call), from) /\ ~IsTerminator(n)
      /\ prog' = prog /\ call' = call /\ from' = Advance(Callee(call), from)
  BY DEF CloneInstruction
<1>2. /\ call \in D /\ c \notin D /\ DOMAIN inst' = D \cup {c} /\ \A m \in D : inst'[m] = inst[m]
      /\ DOMAIN vmap' = DOMAIN vmap \cup {n}
      /\ \A f \in Functions \ {Main} : \A i \in DOMAIN Body(f) : code'[Body(f)[i]] = code[Body(f)[i]]
  BY CloneStep
<1>3. Known' /\ Copies' /\ CopiesUsed'
  BY KnownClone, CopiesClone, CopiesUsedClone
<1>4. Callee(call)' = Callee(call) /\ Ops(call)' = Ops(call)
  BY <1>1, <1>2 DEF Callee, Ops
<1>5. Searched' /\ Users'
  BY <1>1 DEF Searched, Users
<1>6. Passed'
  BY <1>1, <1>2, <1>4, PassedStep
<1>7. Returned'
  <2>1. ASSUME Returns(prog, Callee(call)), n = EndOf(prog, Callee(call)) PROVE FALSE
    BY <1>1, <2>1, ClonedIs DEF IsTerminator, Returns, Terminates
  <2>. QED  BY <1>1, <1>2, <1>4, <2>1, ReturnedStep
<1>8. Arguments'
  <2>1. SUFFICES ASSUME NEW k \in DOMAIN Ops(call) PROVE ArgIs(Ops(call)[k])'
    BY <1>1, <1>4 DEF Arguments
  <2>2. PICK v : v = Ops(call)[k]
    OBVIOUS
  <2>3. ArgIs(v)
    BY <1>1, <2>2 DEF Knows, Arguments
  <2>4. ArgIs(v)'
    BY <1>1, <1>2, <2>3 DEF ArgIs, IsDirectCall
  <2>5. (Ops(call)[k])' = v
    BY <1>4, <2>2
  <2>. QED  BY <2>4, <2>5 DEF ArgIs
<1>. QED  BY <1>3, <1>5, <1>6, <1>7, <1>8 DEF Knows

LEMMA KnowsCloneTerminator ==
  ASSUME Opaque, OnlyInlinable, Types, Knows, CloneTerminator
  PROVE  Knows'
<1> DEFINE f == Callee(call)
           n == InstrAt(f, from)
<1>1. /\ pc = "clone" /\ pc' = "clone" /\ In(f, from) /\ IsTerminator(n)
      /\ RetVal' = (IF Clone.ops = <<>> THEN Garbage ELSE Clone.ops[1])
      /\ prog' = prog /\ code' = code /\ inst' = inst /\ at' = at /\ call' = call
      /\ from' = Advance(f, from) /\ vmap' = vmap
  BY DEF CloneTerminator, module
<1>2. Known'
  BY <1>1, KnownKept DEF Knows
<1>3. Callee(call)' = Callee(call) /\ Ops(call)' = Ops(call)
  BY <1>1 DEF Callee, Ops
<1>4. Searched' /\ Users'
  BY <1>1 DEF Searched, Users
<1>5. Arguments' /\ Copies' /\ CopiesUsed'
  BY <1>1, <1>3 DEF Knows, Arguments, ArgIs, IsDirectCall, Copies, CopiesUsed, IsBeforeCall, Block, Body
<1>6. n \in DOMAIN inst /\ inst[n] = prog.inst[n] /\ n \in DOMAIN prog.inst
      /\ DOMAIN Clone.ops = DOMAIN prog.inst[n].ops /\ Len(Clone.ops) = Len(prog.inst[n].ops)
      /\ DOMAIN prog.inst[n].ops = 1..Len(prog.inst[n].ops) /\ Len(prog.inst[n].ops) \in Nat
  BY <1>1, ClonedIs
<1>7. Passed'
  BY <1>1, <1>3, <1>6, PassedStep DEF IsTerminator
<1>8. ASSUME Returns(prog, f), n = EndOf(prog, f)
      PROVE  Result(prog, f) \in DOMAIN vmap /\ RetVal' = <<Result(prog, f), call>>
  <2>1. prog.inst[n].ops # <<>> /\ Result(prog, f) = prog.inst[n].ops[1] /\ Result(prog, f) \in DOMAIN prog.inst
    BY <1>8 DEF Returns, Result
  <2>2. Len(prog.inst[n].ops) # 0
    <3>1. IsProgram(prog)
      BY ProgramAssumption DEF Types, Locals
    <3>2. prog.inst[n].ops \in Seq(DOMAIN prog.inst \cup Named(prog))
      BY <1>6, <3>1 DEF IsProgram
    <3>. QED  BY <2>1, <3>2, EmptySeq
  <2>3. 1 \in DOMAIN Clone.ops
    BY <1>6, <2>2
  <2>4. Clone.ops # <<>>
    BY <1>6, <2>2
  <2>5. prog.inst[n].ops[1] \notin Named(prog)
    <3>1. IsProgram(prog)
      BY ProgramAssumption DEF Types, Locals
    <3>. QED  BY <2>1, <3>1 DEF IsProgram
  <2>6. Functions \cup prog.consts \subseteq Named(prog)
    BY DEF Named
  <2>7. Renamed(Clone.ops[1], prog.inst[n].ops[1])
    BY <1>1, <2>3, <2>5, CloneOperand
  <2>8. prog.inst[n].ops[1] \in DOMAIN vmap /\ Clone.ops[1] = <<prog.inst[n].ops[1], call>>
    BY <2>5, <2>6, <2>7 DEF Renamed
  <2>. QED  BY <1>1, <2>1, <2>4, <2>8
<1>9. Returned'
  BY <1>1, <1>3, <1>8, ReturnedStep
<1>. QED  BY <1>2, <1>4, <1>5, <1>7, <1>9 DEF Knows

LEMMA OrderOfNone ==
  ASSUME NEW s \in SetToSeqs({})
  PROVE  s = <<>>
<1>1. IsFiniteSet({}) /\ Cardinality({}) = 0
  BY FS_EmptySet
<1>2. s \in Seq({}) /\ Len(s) = 0
  BY <1>1, OrderOf
<1>. QED  BY <1>2, EmptySeq

LEMMA OrderOfOne ==
  ASSUME NEW u, NEW s \in SetToSeqs({u})
  PROVE  s = <<u>>
<1>1. IsFiniteSet({u}) /\ Cardinality({u}) = 1
  BY FS_Singleton
<1>2. s \in Seq({u}) /\ Len(s) = 1
  BY <1>1, OrderOf
<1>3. s[1] = u
  BY <1>2, ElementOfSeq
<1>. QED  BY <1>2, <1>3

\* A sequence of one element.
LEMMA OneElement ==
  ASSUME NEW u
  PROVE  /\ Len(<<u>>) = 1 /\ Range(<<u>>) = {u} /\ Place(<<u>>, u) = 1
         /\ Unlinked(<<u>>, u) = <<>> /\ Unlinked(<<>>, u) = <<>> /\ <<u>> \o <<>> = <<u>>
<1> DEFINE s == <<u>>
<1>1. s \in Seq({u}) /\ Len(s) = 1 /\ DOMAIN s = 1..1 /\ s[1] = u
  OBVIOUS
<1>2. <<u>> \o <<>> = <<u>>
  OBVIOUS
<1> HIDE DEF s
<1>3. Range(s) = {u}
  BY <1>1 DEF Range
<1>4. Place(s, u) = 1
  <2>1. \E j \in DOMAIN s : s[j] = u
    BY <1>1
  <2>. QED  BY <1>1, <2>1 DEF Place
<1>5. Unlinked(s, u) = <<>>
  <2>1. Unlinked(s, u) = RemoveAt(s, 1)
    BY <1>3, <1>4 DEF Unlinked
  <2>2. RemoveAt(s, 1) \in Seq({u}) /\ Len(RemoveAt(s, 1)) = 0
    BY <1>1, Removed
  <2>. QED  BY <2>1, <2>2, EmptySeq
<1>6. Unlinked(<<>>, u) = <<>>
  <2>1. Range(<<>>) = {}
    BY DEF Range
  <2>. QED  BY <2>1 DEF Unlinked
<1>. QED  BY <1>1, <1>2, <1>3, <1>4, <1>5, <1>6 DEF s

LEMMA NextOfOne ==
  ASSUME NEW ls, NEW u, ls.call = <<>>, ls.ret = <<u>>
  PROVE  NextUse(ls, u) = NoUse
<1>1. u \notin Range(ls.call)
  BY DEF Range
<1>2. Place(ls.ret, u) = 1 /\ Len(ls.ret) = 1
  BY OneElement
<1>. QED  BY <1>1, <1>2 DEF NextUse

\* The clone of the returned value: nothing uses it yet.
LEMMA ReturnedIs ==
  ASSUME OnlyInlinable, Types, Knows, pc = "clone", ~In(Callee(call), from), Returns(prog, Callee(call))
  PROVE  /\ Uses(RetVal) = {} /\ RetVal \in DOMAIN inst /\ IsBeforeCall(RetVal)
         /\ IsDirectCall(RetVal) => Returns(prog, Callee(RetVal))
<1> DEFINE f == Callee(call)
           r == Result(prog, f)
<1>1. prog \in Programs /\ CodeInPlace /\ Inlinable(prog) /\ DOMAIN vmap \subseteq DOMAIN prog.inst
  <2>1. prog \in Programs /\ DOMAIN vmap \subseteq CalleeCode(prog)
    BY DEF Types, Locals, Knows, Copies
  <2>. QED  BY <2>1, CalleeCodeExists DEF Types, OnlyInlinable
<1>2. r \in DOMAIN vmap /\ RetVal = <<r, call>>
  BY DEF Knows, Returned
<1>3. UsesIn(prog.inst, r) = {<<EndOf(prog, f), 1>>} /\ Terminates(prog.inst[EndOf(prog, f)])
  BY DEF Returns, Terminates
<1> HIDE DEF r, f
<1>4. IsBeforeCall(RetVal) /\ IsCopy(inst[RetVal], prog.inst[r])
  BY <1>2 DEF Knows, Copies
<1>5. RetVal \in DOMAIN inst
  <2>1. PICK j \in 1..(at[2] - 1) : code[Block][j] = RetVal
    BY <1>4 DEF IsBeforeCall
  <2>2. Block \in Labels(prog) /\ at[2] \in DOMAIN code[Block]
    BY CallIs DEF Cloning
  <2>3. DOMAIN code[Block] = 1..Len(code[Block]) /\ Len(code[Block]) \in Nat
        /\ \A i \in DOMAIN code[Block] : code[Block][i] \in DOMAIN inst
    BY <1>1, <2>2, BlockIs DEF CodeInPlace
  <2>4. j \in DOMAIN code[Block]
    BY <2>2, <2>3
  <2>. QED  BY <2>1, <2>3, <2>4
<1>6. ASSUME IsDirectCall(RetVal) PROVE Returns(prog, Callee(RetVal))
  <2>1. CallsFunction(prog.inst[r]) /\ Callee(RetVal) = Last(prog.inst[r].ops)
    BY <1>4, <1>6 DEF IsDirectCall, IsCopy, Callee, Ops
  <2>. QED  BY <1>1, <1>2, <1>3, <2>1 DEF Inlinable, UsedOnce
<1>7. ASSUME NEW u \in Uses(RetVal) PROVE FALSE
  <2>1. PICK n \in DOMAIN inst : \E k \in DOMAIN inst[n].ops : inst[n].ops[k] = RetVal /\ u = <<n, k>>
    BY <1>7, UsesInIs DEF Uses
  <2>2. PICK k \in DOMAIN inst[n].ops : inst[n].ops[k] = <<r, call>>
    BY <1>2, <2>1
  <2>3. PICK x \in DOMAIN vmap : k \in DOMAIN prog.inst[x].ops /\ prog.inst[x].ops[k] = r
    BY <1>2, <2>2 DEF Knows, CopiesUsed, UsedByClones
  <2>4. <<x, k>> \in UsesIn(prog.inst, r)
    BY <1>1, <2>3, UsesInIs
  <2>5. <<x, k>> = <<EndOf(prog, f), 1>>
    BY <1>3, <2>4
  <2>6. x = EndOf(prog, f)
    BY <2>5
  <2>. QED  BY <1>3, <2>3, <2>6 DEF Knows, Copies
<1>. QED  BY <1>4, <1>5, <1>6, <1>7

LEMMA KnowsBeginUsers ==
  ASSUME OnlyInlinable, Types, Knows, BeginUsers
  PROVE  Knows'
<1>1. /\ pc = "clone" /\ pc' = "users" /\ ~In(Callee(call), from)
      /\ prog' = prog /\ code' = code /\ inst' = inst /\ at' = at /\ call' = call
      /\ RetVal' = RetVal
  BY DEF BeginUsers, module, cloning
<1>2. PICK cs \in SetToSeqs(Uses(call)), rs \in SetToSeqs(Uses(RetVal)) :
        lists' = [call |-> cs, ret |-> rs] /\ use' = IF cs = <<>> THEN NoUse ELSE cs[1]
  BY DEF BeginUsers
<1>3. Known'
  BY <1>1, KnownKept DEF Knows
<1>4. Searched' /\ Arguments' /\ Copies' /\ CopiesUsed' /\ Passed' /\ Returned'
  BY <1>1 DEF Searched, Arguments, Copies, CopiesUsed, Passed, Returned
<1>5. \A v : Uses(v)' = Uses(v)
  BY <1>1 DEF Uses
<1>6. CASE Uses(call) = {}
  <2>1. use' = NoUse
    BY <1>2, <1>6, OrderOfNone
  <2>2. Uses(call)' = {}
    BY <1>1, <1>6 DEF Uses
  <2>. QED  BY <1>3, <1>4, <2>1, <2>2 DEF Knows, Users
<1>7. CASE Uses(call) # {}
  <2>1. /\ \A u, w \in Uses(call) : u = w
        /\ Returns(prog, Callee(call))
    BY <1>1, <1>7, CallIs DEF Knows, Known, GoodCalls, Types, AtCall, Cloning
  <2>2. PICK u : Uses(call) = {u}
    BY <1>7, <2>1
  <2>3. u # NoUse
    <3>1. PICK n \in DOMAIN inst : \E k \in DOMAIN inst[n].ops : u = <<n, k>>
      BY <2>2, UsesInIs DEF Uses
    <3>2. PICK k \in DOMAIN inst[n].ops : u = <<n, k>>
      BY <3>1
    <3>3. Len(<<n, k>>) = 2 /\ Len(NoUse) = 0
      BY DEF NoUse
    <3>. QED  BY <3>2, <3>3
  <2>4. /\ Uses(RetVal) = {} /\ RetVal \in DOMAIN inst /\ IsBeforeCall(RetVal)
        /\ IsDirectCall(RetVal) => Returns(prog, Callee(RetVal))
    BY <1>1, <2>1, ReturnedIs
  <2>5. cs = <<u>> /\ rs = <<>>
    BY <1>2, <2>2, <2>4, OrderOfNone, OrderOfOne
  <2>6. <<u>> # <<>> /\ <<u>>[1] = u
    OBVIOUS
  <2>7. use' = u /\ lists' = [call |-> <<u>>, ret |-> <<>>]
    BY <1>2, <2>5, <2>6
  <2>8. /\ Uses(call)' = {u} /\ Uses(RetVal)' = {} /\ RetVal' \in DOMAIN inst' /\ IsBeforeCall(RetVal)'
        /\ IsDirectCall(RetVal)' => Returns(prog', Callee(RetVal)')
    BY <1>1, <2>2, <2>4 DEF Uses, IsBeforeCall, Block, Body, IsDirectCall, Callee, Ops
  <2>9. Users'
    BY <2>3, <2>7, <2>8 DEF Users
  <2>. QED  BY <1>3, <1>4, <2>9 DEF Knows
<1>. QED  BY <1>6, <1>7

\* The step replaces the one use of the call.
LEMMA ReplaceStep ==
  ASSUME Types, Knows, ReplaceUse
  PROVE  \E n \in DOMAIN inst : \E k \in DOMAIN Ops(n) :
           /\ Ops(n)[k] = call /\ use = <<n, k>> /\ use' = NoUse
           /\ DOMAIN inst' = DOMAIN inst
           /\ \A m \in DOMAIN inst : m # n => inst'[m] = inst[m]
           /\ inst'[n].kind = inst[n].kind /\ Len(inst'[n].ops) = Len(Ops(n))
           /\ inst'[n].ops = [Ops(n) EXCEPT ![k] = RetVal]
<1>1. /\ pc = "users" /\ use # NoUse
      /\ inst' = [inst EXCEPT ![use[1]].ops[OperandToReplace(use[1])] = RetVal]
      /\ lists' = Linked(<<use[1], OperandToReplace(use[1])>>) /\ use' = NextUse(lists', use)
  BY DEF ReplaceUse
<1>2. Uses(call) = {use} /\ lists = [call |-> <<use>>, ret |-> <<>>]
  BY <1>1 DEF Knows, Users
<1>3. PICK n \in DOMAIN inst : \E k \in DOMAIN inst[n].ops : inst[n].ops[k] = call /\ use = <<n, k>>
  BY <1>2, UsesInIs DEF Uses
<1>4. PICK k \in DOMAIN inst[n].ops : inst[n].ops[k] = call /\ use = <<n, k>>
  BY <1>3
<1>5. \A j \in DOMAIN Ops(n) : Ops(n)[j] = call => j = k
  <2>1. SUFFICES ASSUME NEW j \in DOMAIN Ops(n), Ops(n)[j] = call PROVE j = k
    OBVIOUS
  <2>2. <<n, j>> \in Uses(call)
    BY <2>1, UsesInIs DEF Uses, Ops
  <2>3. <<n, j>> = <<n, k>>
    BY <1>2, <1>4, <2>2
  <2>. QED  BY <2>3
<1>6. IsInstr(inst[n]) /\ Main \notin Range(inst[n].ops) /\ RetVal # Main
  BY DEF Types, Instructions, Ops, Locals
<1>7. OperandToReplace(n) = k
  <2>1. {j \in DOMAIN Ops(n) : Ops(n)[j] = call} = {k}
    BY <1>4, <1>5 DEF Ops
  <2>2. k \in Nat
    BY <1>4, <1>6, IsSeqOf DEF IsInstr
  <2>3. Min({k}) = k
    BY <2>2 DEF Min
  <2>. QED  BY <2>1, <2>3 DEF OperandToReplace
<1>8. use[1] = n /\ <<n, k>> = use
  BY <1>4
<1>9. use' = NoUse
  <2>1. lists' = [call |-> <<>>, ret |-> <<use>>]
    <3>1. lists.call = <<use>> /\ lists.ret = <<>>
      BY <1>2
    <3>. QED  BY <1>1, <1>7, <1>8, <3>1, OneElement DEF Linked
  <2>2. lists'.call = <<>> /\ lists'.ret = <<use>>
    BY <2>1
  <2>3. PICK ls, u : ls = lists' /\ u = use
    OBVIOUS
  <2>4. NextUse(ls, u) = NoUse
    BY <2>2, <2>3, NextOfOne
  <2>. QED  BY <1>1, <2>3, <2>4
<1>10. inst' = [inst EXCEPT ![n].ops[k] = RetVal]
  BY <1>1, <1>7, <1>8
<1>11. DOMAIN inst' = DOMAIN inst /\ inst'[n] = [inst[n] EXCEPT !.ops[k] = RetVal]
       /\ \A m \in DOMAIN inst : m # n => inst'[m] = inst[m]
  BY <1>10
<1>12. /\ inst'[n].kind = inst[n].kind /\ Len(inst'[n].ops) = Len(inst[n].ops)
       /\ inst'[n].ops = [inst[n].ops EXCEPT ![k] = RetVal]
  BY <1>6, <1>11, OperandReplaced
<1>. QED  BY <1>4, <1>8, <1>9, <1>11, <1>12 DEF Ops

LEMMA KnowsReplaceUse ==
  ASSUME OnlyInlinable, Types, Knows, ReplaceUse
  PROVE  Knows'
<1> DEFINE D == DOMAIN inst
<1>1. pc = "users" /\ pc' = "users" /\ use # NoUse /\ prog' = prog /\ code' = code /\ at' = at /\ call' = call
      /\ RetVal' = RetVal
  BY DEF ReplaceUse, cloning
<1>2. PICK n \in D : \E k \in DOMAIN Ops(n) :
        /\ Ops(n)[k] = call /\ use = <<n, k>> /\ use' = NoUse
        /\ DOMAIN inst' = D /\ \A m \in D : m # n => inst'[m] = inst[m]
        /\ inst'[n].kind = inst[n].kind /\ Len(inst'[n].ops) = Len(Ops(n))
        /\ inst'[n].ops = [Ops(n) EXCEPT ![k] = RetVal]
  BY ReplaceStep
<1>3. PICK k \in DOMAIN Ops(n) :
        /\ Ops(n)[k] = call /\ use = <<n, k>> /\ use' = NoUse
        /\ DOMAIN inst' = D /\ \A m \in D : m # n => inst'[m] = inst[m]
        /\ inst'[n].kind = inst[n].kind /\ Len(inst'[n].ops) = Len(Ops(n))
        /\ inst'[n].ops = [Ops(n) EXCEPT ![k] = RetVal]
  BY <1>2
\* Every operand but one is as it was.
<1>4. /\ \A m \in D : DOMAIN inst'[m].ops = DOMAIN Ops(m) /\ inst'[m].kind = inst[m].kind
                       /\ Len(inst'[m].ops) = Len(Ops(m))
      /\ \A m \in D : \A j \in DOMAIN Ops(m) : ~(m = n /\ j = k) => inst'[m].ops[j] = Ops(m)[j]
      /\ inst'[n].ops[k] = RetVal
  BY <1>3 DEF Ops
<1>5. /\ Uses(call) = {<<n, k>>} /\ Uses(RetVal) = {} /\ RetVal \in D /\ IsBeforeCall(RetVal)
      /\ IsDirectCall(RetVal) => Returns(prog, Callee(RetVal))
  BY <1>1, <1>3 DEF Knows, Users
<1>6. /\ call \in D /\ Block \in Labels(prog) /\ Block \in Range(prog.layout[Main])
      /\ at[2] \in DOMAIN code[Block] /\ code[Block][at[2]] = call
  BY <1>1, CallIs DEF Cloning, Body
<1>7. prog \in Programs /\ CodeInPlace /\ CalleesKept /\ Inlinable(prog) /\ D \cap Named(prog) = {}
  BY DEF Types, Locals, Knows, Known, OnlyInlinable
<1>8. Functions \subseteq Named(prog)
  BY DEF Named
<1>9. RetVal # call
  <2>1. PICK j \in 1..(at[2] - 1) : code[Block][j] = RetVal
    BY <1>5 DEF IsBeforeCall
  <2>2. DOMAIN code[Block] = 1..Len(code[Block]) /\ Len(code[Block]) \in Nat
    BY <1>6, <1>7, BlockIs DEF CodeInPlace
  <2>3. j \in DOMAIN code[Block] /\ j # at[2]
    BY <1>6, <2>2
  <2>. QED  BY <1>6, <1>7, <2>1, <2>3 DEF CodeInPlace, Places
<1>10. CalleesKept'
  <2>1. n \notin CalleeCode(prog)
    <3>1. SUFFICES ASSUME n \in CalleeCode(prog) PROVE FALSE
      OBVIOUS
    <3>2. call \in CalleeCode(prog) \cup Named(prog)
      BY <1>3, <1>7, <3>1, CalleeCodeIs, CalleeOperand DEF Ops
    <3>3. call \notin CalleeCode(prog)
      BY <1>6, <1>7, MainNotCallee DEF Body
    <3>. QED  BY <1>6, <1>7, <3>2, <3>3
  <2>2. CalleeCode(prog) \subseteq D
    BY <1>7, CalleeCodeIn
  <2>3. \A m \in CalleeCode(prog) : inst'[m] = inst[m]
    BY <1>3, <2>1, <2>2
  <2>. QED  BY <1>1, <1>7, <2>3, CalleesKeptStill
<1>11. OperandsInScope'
  <2>1. SUFFICES ASSUME NEW b \in Range(prog.layout[Main]), NEW i \in DOMAIN code[b],
                        NEW j \in DOMAIN inst'[code[b][i]].ops
                 PROVE  InScope(prog, code, inst'[code[b][i]].ops[j], b, i)
    BY <1>1 DEF OperandsInScope, Scoped
  <2>2. code[b][i] \in D
    BY <1>7, EntryLabel, BlockIs DEF CodeInPlace
  <2>3. PICK m \in D : m = code[b][i]
    BY <2>2
  <2>4. j \in DOMAIN Ops(m) /\ InScope(prog, code, Ops(m)[j], b, i)
    BY <1>4, <2>1, <2>3 DEF Knows, Known, OperandsInScope, Scoped, Ops
  <2>5. CASE m = n /\ j = k
    <3>1. InScope(prog, code, code[Block][at[2]], b, i)
      BY <1>3, <1>6, <2>4, <2>5
    <3>2. \E h \in 1..(at[2] - 1) : code[Block][h] = RetVal
      BY <1>5 DEF IsBeforeCall
    <3>3. Places(Labels(prog), code, D)
      BY <1>7 DEF CodeInPlace
    <3>4. InScope(prog, code, RetVal, b, i)
      BY <1>6, <1>7, <3>1, <3>2, <3>3, InScopeTransitive
    <3>. QED  BY <1>4, <2>3, <2>5, <3>4
  <2>6. CASE ~(m = n /\ j = k)
    BY <1>4, <2>3, <2>4, <2>6
  <2>. QED  BY <2>5, <2>6
<1>12. FunctionsLast'
  <2>1. SUFFICES ASSUME NEW m \in D, NEW j \in DOMAIN Ops(m), inst'[m].ops[j] \in Functions
                 PROVE  inst'[m].kind = "call" /\ j = Len(inst'[m].ops)
    BY <1>3, <1>4 DEF FunctionsLast, Ops
  <2>2. ~(m = n /\ j = k)
    BY <1>4, <1>5, <1>7, <1>8, <2>1
  <2>. QED  BY <1>4, <2>1, <2>2 DEF Knows, Known, FunctionsLast
\* The uses of the call are now uses of RetVal.
<1>13. ASSUME NEW v, v # RetVal PROVE UsesIn(inst', v) \subseteq Uses(v) \ {<<n, k>>}
  <2>1. SUFFICES ASSUME NEW m \in D, NEW j \in DOMAIN inst'[m].ops, inst'[m].ops[j] = v
                 PROVE  <<m, j>> \in Uses(v) \ {<<n, k>>}
    BY <1>3, UsesInIs
  <2>2. ~(m = n /\ j = k) /\ j \in DOMAIN Ops(m)
    BY <1>4, <1>13, <2>1
  <2>3. Ops(m)[j] = v
    BY <1>4, <2>1, <2>2
  <2>. QED  BY <2>2, <2>3, UsesInIs DEF Uses, Ops
<1>14. UsesIn(inst', RetVal) \subseteq {<<n, k>>}
  <2>1. SUFFICES ASSUME NEW m \in D, NEW j \in DOMAIN inst'[m].ops, inst'[m].ops[j] = RetVal, ~(m = n /\ j = k)
                 PROVE  FALSE
    BY <1>3, UsesInIs
  <2>2. j \in DOMAIN Ops(m) /\ Ops(m)[j] = RetVal
    BY <1>4, <2>1
  <2>3. <<m, j>> \in Uses(RetVal)
    BY <2>2, UsesInIs DEF Uses, Ops
  <2>. QED  BY <1>5, <2>3
<1>15. GoodCalls'
  <2>1. SUFFICES ASSUME NEW m \in D, CallsFunction(inst'[m])
                 PROVE  LET f == Last(inst'[m].ops)
                        IN  /\ Len(inst'[m].ops) = Len(prog.params[f]) + 1
                            /\ \A u, w \in UsesIn(inst', m) : u = w
                            /\ UsesIn(inst', m) # {} => Returns(prog, f)
    BY <1>1, <1>3 DEF GoodCalls, IsDirectCall, Ops, Params, Callee, Uses
  <2>2. IsInstr(inst[m]) /\ inst[m].kind = "call"
    BY <1>4, <2>1 DEF Types, Instructions, CallsFunction
  <2>3. Len(Ops(m)) \in DOMAIN Ops(m)
    BY <2>2, IsSeqOf DEF IsInstr, Ops
  <2>4. Last(inst'[m].ops) = Last(Ops(m))
    <3>1. inst'[m].ops[Len(Ops(m))] \in Functions
      BY <1>4, <2>1 DEF CallsFunction, Last
    <3>2. ~(m = n /\ Len(Ops(m)) = k)
      BY <1>4, <1>5, <1>7, <1>8, <3>1
    <3>. QED  BY <1>4, <2>3, <3>2 DEF Last
  <2>5. IsDirectCall(m)
    BY <2>1, <2>2, <2>4 DEF IsDirectCall, CallsFunction, Ops
  <2>6. /\ Len(Ops(m)) = Len(prog.params[Last(Ops(m))]) + 1
        /\ \A u, w \in Uses(m) : u = w
        /\ Uses(m) # {} => Returns(prog, Last(Ops(m)))
    BY <2>5 DEF Knows, Known, GoodCalls, Params, Callee
  <2>7. CASE m = RetVal
    BY <1>4, <1>5, <1>14, <2>4, <2>5, <2>6, <2>7 DEF Callee
  <2>8. CASE m # RetVal
    BY <1>4, <1>13, <2>4, <2>6, <2>8
  <2>. QED  BY <2>7, <2>8
<1>16. Known'
  BY <1>1, <1>3, <1>7, <1>10, <1>11, <1>12, <1>15 DEF Known
<1>17. Users'
  <2>1. UsesIn(inst', call) = {}
    BY <1>5, <1>9, <1>13
  <2>. QED  BY <1>1, <1>3, <2>1 DEF Users, Uses
<1>18. Searched' /\ Arguments' /\ Copies' /\ CopiesUsed' /\ Passed' /\ Returned'
  BY <1>1 DEF Searched, Arguments, Copies, CopiesUsed, Passed, Returned
<1>. QED  BY <1>16, <1>17, <1>18 DEF Knows

LEMMA KnowsEraseCall ==
  ASSUME OnlyInlinable, Types, Knows, EraseCall
  PROVE  Knows'
<1> DEFINE D == DOMAIN inst
<1>1. /\ pc = "users" /\ use = NoUse /\ pc' = "search" /\ at' = First /\ prog' = prog
      /\ code' = Without(code, Block, at[2]) /\ inst' = Erase(call)
  BY DEF EraseCall, Restart, Without, Block
<1>2. DOMAIN inst' = D \ {call} /\ \A m \in D \ {call} : inst'[m] = inst[m]
  BY <1>1 DEF Erase
<1>3. /\ call \in D /\ Block \in Labels(prog) /\ Block \in Range(Body(Main)) /\ at[1] \in DOMAIN Body(Main)
      /\ at[2] \in DOMAIN code[Block] /\ code[Block][at[2]] = call
  BY <1>1, CallIs DEF Cloning
<1>4. prog \in Programs /\ CodeInPlace /\ CalleesKept /\ D \cap Named(prog) = {}
  BY DEF Types, Locals, Knows, Known
<1>5. Uses(call) = {}
  BY <1>1 DEF Knows, Users
<1>6. CalleesKept'
  <2>1. call \notin CalleeCode(prog)
    BY <1>3, <1>4, MainNotCallee
  <2>2. CalleeCode(prog) \subseteq D
    BY <1>4, CalleeCodeIn
  <2>3. \A m \in CalleeCode(prog) : inst'[m] = inst[m]
    BY <1>2, <2>1, <2>2
  <2>4. ASSUME NEW f \in Functions \ {Main}, NEW i \in DOMAIN Body(f)
        PROVE  code'[Body(f)[i]] = code[Body(f)[i]]
    <3>1. Body(f)[i] # Block /\ Body(f)[i] \in Labels(prog)
      BY <1>3, <1>4, LabelsOfFunction, LabelsApart, MainAssumption DEF Block, Body
    <3>2. DOMAIN code = Labels(prog)
      BY <1>4 DEF CodeInPlace, Places
    <3>. QED  BY <1>1, <3>1, <3>2 DEF Without
  <2>. QED  BY <1>1, <1>4, <2>3, <2>4, CalleesKeptStill
<1>7. \A m \in D : \A k \in DOMAIN Ops(m) : Ops(m)[k] # call
  <2>1. SUFFICES ASSUME NEW m \in D, NEW k \in DOMAIN Ops(m), Ops(m)[k] = call
                 PROVE  FALSE
    OBVIOUS
  <2>2. <<m, k>> \in UsesIn(inst, call)
    BY <2>1, UsesInIs DEF Ops
  <2>. QED  BY <1>5, <2>2 DEF Uses
<1>8. OperandsInScope'
  <2>1. Scoped(prog, code, inst) /\ Places(Labels(prog), code, D)
    BY <1>4 DEF Knows, Known, OperandsInScope, CodeInPlace
  <2>2. \A m \in D \ {code[Block][at[2]]} : inst'[m] = inst[m]
    BY <1>2, <1>3
  <2>3. \A m \in D : \A k \in DOMAIN inst[m].ops : inst[m].ops[k] # code[Block][at[2]]
    BY <1>3, <1>7 DEF Ops
  <2>4. Scoped(prog, Without(code, Block, at[2]), inst')
    BY <1>3, <1>4, <2>1, <2>2, <2>3, ScopedRemoved
  <2>. QED  BY <1>1, <2>4 DEF OperandsInScope
<1>9. FunctionsLast'
  BY <1>2 DEF Knows, Known, FunctionsLast, Ops
<1>10. ASSUME NEW v PROVE UsesIn(inst', v) \subseteq Uses(v)
  <2>1. SUFFICES ASSUME NEW m \in D \ {call}, NEW k \in DOMAIN inst'[m].ops, inst'[m].ops[k] = v
                 PROVE  <<m, k>> \in UsesIn(inst, v)
    BY <1>2, UsesInIs DEF Uses
  <2>. QED  BY <1>2, <2>1, UsesInIs
<1>11. GoodCalls'
  <2>1. SUFFICES ASSUME NEW m \in D \ {call}, CallsFunction(inst[m])
                 PROVE  /\ Len(Ops(m)) = Len(Params(Callee(m))) + 1
                        /\ \A u, w \in UsesIn(inst', m) : u = w
                        /\ UsesIn(inst', m) # {} => Returns(prog, Callee(m))
    BY <1>1, <1>2 DEF GoodCalls, IsDirectCall, Ops, Params, Callee, Uses
  <2>. QED  BY <1>10, <2>1 DEF Knows, Known, GoodCalls, IsDirectCall
<1>12. Known'
  BY <1>1, <1>2, <1>4, <1>6, <1>8, <1>9, <1>11 DEF Known
<1>13. Searched'
  BY <1>1, NothingBefore DEF Searched
<1>14. Arguments' /\ Copies' /\ CopiesUsed' /\ Passed' /\ Returned' /\ Users'
  BY <1>1 DEF Arguments, Copies, CopiesUsed, Passed, Returned, Users
<1>. QED  BY <1>12, <1>13, <1>14 DEF Knows

LEMMA KnowsStutter ==
  ASSUME Knows, UNCHANGED vars
  PROVE  Knows'
<1>1. /\ prog' = prog /\ code' = code /\ inst' = inst /\ pc' = pc /\ at' = at /\ call' = call
      /\ from' = from /\ vmap' = vmap /\ RetVal' = RetVal /\ lists' = lists /\ use' = use
  BY DEF vars, module, cloning, replacing
<1>2. Known'
  BY <1>1, KnownKept DEF Knows
<1>3. Searched' /\ Arguments' /\ Copies' /\ CopiesUsed'
  BY <1>1 DEF Knows, Searched, Arguments, ArgIs, Copies, CopiesUsed, IsBeforeCall, Block, In, InstrAt,
              Body, IsDirectCall, Ops
<1>4. Passed' /\ Returned' /\ Users'
  BY <1>1 DEF Knows, Passed, Returned, Users, Uses, IsBeforeCall, Block, In, InstrAt, Body, IsDirectCall,
              Callee, Ops
<1>. QED  BY <1>2, <1>3, <1>4 DEF Knows

LEMMA KnowsStep ==
  ASSUME Opaque, OnlyInlinable, Types, Knows, [Next]_vars
  PROVE  Knows'
<1>1. CASE FindCaller \/ PassOver \/ Return
  BY <1>1, KnowsSearch
<1>2. CASE FindCall
  BY <1>2, TypesFindCall, KnowsFindCall
<1>3. CASE CloneInstruction
  BY <1>3, KnowsCloneInstruction
<1>4. CASE CloneTerminator
  BY <1>4, KnowsCloneTerminator
<1>5. CASE BeginUsers
  BY <1>5, KnowsBeginUsers
<1>6. CASE ReplaceUse
  BY <1>6, KnowsReplaceUse
<1>7. CASE EraseCall
  BY <1>7, KnowsEraseCall
<1>8. CASE UNCHANGED vars
  BY <1>8, KnowsStutter
<1>. QED  BY <1>1, <1>2, <1>3, <1>4, <1>5, <1>6, <1>7, <1>8 DEF Next

LEMMA KnowsHold == Opaque /\ OnlyInlinable => (Spec => [](Types /\ Knows))
<1>1. SUFFICES ASSUME Opaque, OnlyInlinable PROVE Spec => [](Types /\ Knows)
  OBVIOUS
<1>2. Init => Types /\ Knows
  BY <1>1, TypesInit, KnowsInit
<1>3. (Types /\ Knows) /\ [Next]_vars => (Types /\ Knows)'
  BY <1>1, TypesStep, KnowsStep
<1>. QED  BY <1>2, <1>3, PTL DEF Spec

\* On inlinable modules every operand of an instruction of main is in scope
\* after every step: no instruction or parameter of the callee, no call that
\* has been deleted and no uninitialised pointer is left in main, and what is
\* named comes before.  inlineOnce restarts at the first call, so that none of
\* the arguments of the call it takes is itself a call that is to be deleted.
THEOREM OperandsStayInScope == Opaque /\ OnlyInlinable => (Spec => []OperandsInScope)
<1>1. Types /\ Knows => OperandsInScope
  BY DEF Knows, Known
<1>. QED  BY <1>1, KnowsHold, PTL

\* On inlinable modules the loop over the users replaces the call and nothing
\* else, although it reads a list that it changes.
THEOREM ReplacesOnlyTheCall == Opaque /\ OnlyInlinable => (Spec => OnlyTheCall)
<1>1. ASSUME Opaque, Types, Knows, [Next]_vars
      PROVE  [ReplacesTheCall]_vars
  <2>1. CASE UNCHANGED vars
    BY <2>1
  <2>2. CASE FindCaller \/ PassOver \/ FindCall \/ CloneTerminator \/ BeginUsers \/ Return
    <3>1. inst' = inst
      BY <2>2 DEF FindCaller, PassOver, FindCall, CloneTerminator, BeginUsers, Return, module
    <3>. QED  BY <3>1 DEF ReplacesTheCall, Ops
  <2>3. CASE CloneInstruction
    <3>1. \A m \in DOMAIN inst : inst'[m] = inst[m]
      BY <1>1, <2>3, CloneStep
    <3>. QED  BY <3>1 DEF ReplacesTheCall, Ops
  <2>4. CASE ReplaceUse
    <3>1. PICK n \in DOMAIN inst : \E k \in DOMAIN Ops(n) :
            /\ Ops(n)[k] = call /\ \A m \in DOMAIN inst : m # n => inst'[m] = inst[m]
            /\ inst'[n].ops = [Ops(n) EXCEPT ![k] = RetVal]
      BY <1>1, <2>4, ReplaceStep
    <3>2. PICK k \in DOMAIN Ops(n) :
            /\ Ops(n)[k] = call /\ \A m \in DOMAIN inst : m # n => inst'[m] = inst[m]
            /\ inst'[n].ops = [Ops(n) EXCEPT ![k] = RetVal]
      BY <3>1
    <3>. QED  BY <3>2 DEF ReplacesTheCall, Ops
  <2>5. CASE EraseCall
    <3>1. inst' = Erase(call)
      BY <2>5 DEF EraseCall
    <3>. QED  BY <3>1 DEF ReplacesTheCall, Erase, Ops
  <2>. QED  BY <1>1, <2>1, <2>2, <2>3, <2>4, <2>5 DEF Next
<1>2. SUFFICES ASSUME Opaque, OnlyInlinable PROVE Spec => OnlyTheCall
  OBVIOUS
<1>3. Types /\ Knows /\ [Next]_vars => [ReplacesTheCall]_vars
  BY <1>1, <1>2
<1>. QED  BY <1>2, <1>3, KnowsHold, PTL DEF Spec, OnlyTheCall
=============================================================================
