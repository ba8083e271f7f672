------------------------ MODULE SuperbufQueueProofs ------------------------
(***************************************************************************)
(* Safety of SuperbufQueue for any streams, attributes, metadata and        *)
(* bounds: the matched superbufs are at the head and counted, the queue     *)
(* stays within its limits, every buffer is in one place, and superbufs are *)
(* sent in the order of their frames.                                       *)
(***************************************************************************)
EXTENDS SuperbufQueue, Integers, SequenceTheorems, FiniteSetTheorems, WellFoundedInduction, TLAPS

-----------------------------------------------------------------------------
(* Data: induction over a set of numbers, iteration, the least number.       *)

LEMMA Reaches ==
  ASSUME NEW N \in SUBSET Nat, 0 \in N, \A k \in N : k + 1 \in N
  PROVE  N = Nat
<1> SUFFICES ASSUME Nat \ N # {}
             PROVE  FALSE
  OBVIOUS
<1> DEFINE M == Nat \ N
<1>1. PICK x \in M : \A y \in M : <<y, x>> \notin OpToRel(<, Nat)
  <2>1. M \in SUBSET Nat /\ M # {}
    OBVIOUS
  <2> HIDE DEF M
  <2> QED BY <2>1, WFMin, NatLessThanWellFounded, Zenon
<1>2. \A y \in M : ~(y < x)
  BY <1>1, Zenon DEF OpToRel
<1>3. x - 1 \in Nat /\ x - 1 < x /\ (x - 1) + 1 = x
  OBVIOUS
<1>4. x - 1 \in N
  BY <1>2, <1>3
<1> QED BY <1>3, <1>4

LEMMA LeastIsLeast ==
  ASSUME NEW S \in SUBSET Nat, S # {}
  PROVE  Least(S) \in S /\ \A y \in S : Least(S) <= y
<1>1. PICK x \in S : \A y \in S : <<y, x>> \notin OpToRel(<, Nat)
  BY WFMin, NatLessThanWellFounded, Zenon
<1>2. \A y \in S : ~(y < x)
  BY <1>1, Zenon DEF OpToRel
<1>3. \A y \in S : x <= y
  BY <1>2
<1> QED BY <1>3 DEF Least

\* p is the run of F from c, up to n.
Runs(p, F, c, n) == p[0] = c /\ \A k \in 0 .. n - 1 : p[k + 1] = F[p[k]]

LEMMA RunsAgree ==
  ASSUME NEW F, NEW c, NEW m \in Nat, NEW n \in Nat, NEW p, NEW q, Runs(p, F, c, m), Runs(q, F, c, n)
  PROVE  \A k \in Nat : k <= m /\ k <= n => p[k] = q[k]
<1> DEFINE N == {k \in Nat : k <= m /\ k <= n => p[k] = q[k]}
<1>1. 0 \in N
  BY DEF Runs
<1>2. ASSUME NEW k \in N
      PROVE  k + 1 \in N
  <2>1. k \in Nat /\ (k <= m /\ k <= n => p[k] = q[k])
    OBVIOUS
  <2>2. k + 1 <= m /\ k + 1 <= n => k <= m /\ k <= n /\ k \in 0 .. m - 1 /\ k \in 0 .. n - 1
    BY <2>1
  <2>3. k + 1 <= m /\ k + 1 <= n => p[k + 1] = q[k + 1]
    BY <2>1, <2>2 DEF Runs
  <2> QED BY <2>1, <2>3
<1>3. N = Nat
  <2>1. N \in SUBSET Nat
    OBVIOUS
  <2> HIDE DEF N
  <2> QED BY <1>1, <1>2, <2>1, Reaches
<1> QED BY <1>3

Run(p, F, c) == p[0] = c /\ \A k \in Nat : p[k + 1] = F[p[k]]

LEMMA Iterates ==
  ASSUME NEW D, NEW F \in [D -> D], NEW c \in D
  PROVE  \E p \in [Nat -> D] : Run(p, F, c)
<1> DEFINE Up(n) == [0 .. n -> D]
           N == {n \in Nat : \E p \in Up(n) : Runs(p, F, c, n)}
<1>1. 0 \in N
  <2>1. [i \in 0 .. 0 |-> c] \in Up(0)
    OBVIOUS
  <2>2. Runs([i \in 0 .. 0 |-> c], F, c, 0)
    BY DEF Runs
  <2> QED BY <2>1, <2>2
<1>2. ASSUME NEW n \in N
      PROVE  n + 1 \in N
  <2>1. PICK p \in Up(n) : Runs(p, F, c, n)
    OBVIOUS
  <2> DEFINE q == [i \in 0 .. n + 1 |-> IF i = n + 1 THEN F[p[n]] ELSE p[i]]
  <2>2. n \in Nat /\ n \in 0 .. n /\ p[n] \in D
    BY <2>1
  <2>3. q \in Up(n + 1)
    <3> SUFFICES ASSUME NEW i \in 0 .. n + 1
                 PROVE  (IF i = n + 1 THEN F[p[n]] ELSE p[i]) \in D
      OBVIOUS
    <3>1. i = n + 1 \/ i \in 0 .. n
      BY <2>2
    <3> QED BY <2>1, <2>2, <3>1
  <2>4. Runs(q, F, c, n + 1)
    <3>1. q[0] = c
      BY <2>1, <2>2 DEF Runs
    <3>2. ASSUME NEW k \in 0 .. (n + 1) - 1
          PROVE  q[k + 1] = F[q[k]]
      <4>1. k \in 0 .. n + 1 /\ k + 1 \in 0 .. n + 1 /\ k # n + 1 /\ (k + 1 = n + 1 <=> k = n) /\ (k # n => k \in 0 .. n - 1)
        BY <2>2
      <4>2. q[k] = p[k] /\ q[k + 1] = IF k = n THEN F[p[n]] ELSE p[k + 1]
        BY <4>1
      <4> QED BY <2>1, <4>1, <4>2 DEF Runs
    <3> HIDE DEF q
    <3> QED BY <3>1, <3>2 DEF Runs
  <2>5. n + 1 \in Nat
    BY <2>2
  <2> QED BY <2>3, <2>4, <2>5
<1>3. N = Nat
  <2>1. N \in SUBSET Nat
    OBVIOUS
  <2> HIDE DEF N
  <2> QED BY <1>1, <1>2, <2>1, Reaches
<1> DEFINE r(n) == CHOOSE p \in Up(n) : Runs(p, F, c, n)
<1>4. \A n \in Nat : r(n) \in Up(n) /\ Runs(r(n), F, c, n)
  BY <1>3
<1> DEFINE g == [n \in Nat |-> r(n)[n]]
<1> HIDE DEF r, N
<1>5. g \in [Nat -> D]
  <2> SUFFICES ASSUME NEW n \in Nat
               PROVE  r(n)[n] \in D
    OBVIOUS
  <2>1. r(n) \in Up(n) /\ n \in 0 .. n
    BY <1>4
  <2> QED BY <2>1
<1>6. g[0] = c
  BY <1>4 DEF Runs
<1>7. ASSUME NEW k \in Nat
      PROVE  g[k + 1] = F[g[k]]
  <2>1. k + 1 \in Nat /\ k \in 0 .. (k + 1) - 1 /\ k <= k + 1
    OBVIOUS
  <2>2. r(k + 1)[k + 1] = F[r(k + 1)[k]]
    BY <1>4, <2>1 DEF Runs
  <2>3. r(k + 1)[k] = r(k)[k]
    <3>1. PICK p : p = r(k + 1) /\ Runs(p, F, c, k + 1)
      BY <1>4, <2>1
    <3>2. PICK q : q = r(k) /\ Runs(q, F, c, k)
      BY <1>4
    <3>3. PICK m \in Nat : m = k + 1
      BY <2>1
    <3>4. Runs(p, F, c, m) /\ Runs(q, F, c, k)
      BY <3>1, <3>2, <3>3
    <3>5. \A j \in Nat : j <= m /\ j <= k => p[j] = q[j]
      BY <3>4, RunsAgree
    <3>6. p[k] = q[k]
      BY <3>3, <3>5
    <3> QED BY <3>1, <3>2, <3>6
  <2> QED BY <2>1, <2>2, <2>3
<1> HIDE DEF g
<1>8. Run(g, F, c)
  BY <1>6, <1>7 DEF Run
<1> QED BY <1>5, <1>8

\* The same as the function that a loop over the body F is written as.
Loop(p, F, c) == p = [k \in Nat |-> IF k = 0 THEN c ELSE F[p[k - 1]]]

LEMMA Solves ==
  ASSUME NEW D, NEW F \in [D -> D], NEW c \in D
  PROVE  \E p \in [Nat -> D] : Loop(p, F, c)
<1>1. PICK p \in [Nat -> D] : Run(p, F, c)
  BY Iterates
<1>2. ASSUME NEW k \in Nat
      PROVE  p[k] = IF k = 0 THEN c ELSE F[p[k - 1]]
  <2>1. CASE k = 0
    BY <1>1, <2>1 DEF Run
  <2>2. CASE k # 0
    <3>1. k - 1 \in Nat /\ (k - 1) + 1 = k
      BY <2>2
    <3> QED BY <1>1, <2>2, <3>1 DEF Run
  <2> QED BY <2>1, <2>2
<1>3. Loop(p, F, c)
  BY <1>2 DEF Loop
<1> QED BY <1>3

-----------------------------------------------------------------------------
(* Data: queues with one node more or less, and how many nodes have a        *)
(* property.                                                                  *)

Hits(q, T) == Cardinality({i \in 1 .. Len(q) : q[i] \in T})

\* r is q without its node i.
Cut(q, i, r) ==
  /\ i \in 1 .. Len(q)
  /\ Len(r) = Len(q) - 1
  /\ \A k \in 1 .. Len(r) : r[k] = q[IF k < i THEN k ELSE k + 1]

LEMMA HitsFinite ==
  ASSUME NEW S, NEW q \in Seq(S), NEW T
  PROVE  IsFiniteSet({i \in 1 .. Len(q) : q[i] \in T})
<1>1. IsFiniteSet(1 .. Len(q))
  BY LenProperties, FS_Interval
<1> QED BY <1>1, FS_Subset

LEMMA HitsOf ==
  ASSUME NEW S, NEW q \in Seq(S), NEW T
  PROVE  /\ Hits(q, T) \in Nat
         /\ Hits(q, T) = 0 <=> \A i \in 1 .. Len(q) : q[i] \notin T
<1> DEFINE A == {i \in 1 .. Len(q) : q[i] \in T}
<1>1. IsFiniteSet(A)
  BY HitsFinite
<1>2. Cardinality(A) \in Nat /\ (Cardinality(A) = 0 <=> A = {})
  BY <1>1, FS_CardinalityType, FS_EmptySet
<1> QED BY <1>2 DEF Hits

LEMMA HitsCut ==
  ASSUME NEW S, NEW q \in Seq(S), NEW r \in Seq(S), NEW i, Cut(q, i, r), NEW T
  PROVE  Hits(r, T) = Hits(q, T) - Bit(q[i] \in T)
<1> DEFINE A == {k \in 1 .. Len(q) : q[k] \in T}
           B == {k \in 1 .. Len(r) : r[k] \in T}
           E == A \ {i}
           f == [k \in B |-> IF k < i THEN k ELSE k + 1]
<1>1. /\ Len(q) \in Nat /\ Len(r) \in Nat /\ i \in 1 .. Len(q) /\ Len(r) = Len(q) - 1
      /\ \A k \in 1 .. Len(r) : r[k] = q[IF k < i THEN k ELSE k + 1]
  BY LenProperties DEF Cut
<1>2. IsFiniteSet(A) /\ IsFiniteSet(B)
  BY HitsFinite
<1>3. f \in Bijection(B, E)
  <2>1. \A k \in B : f[k] \in E
    <3>1. ASSUME NEW k \in B, NEW m, m = IF k < i THEN k ELSE k + 1
          PROVE  m \in E
      <4>1. k \in 1 .. Len(r) /\ r[k] \in T /\ r[k] = q[m]
        BY <1>1, <3>1
      <4>2. m \in 1 .. Len(q) /\ m # i
        BY <1>1, <3>1, <4>1
      <4> QED BY <4>1, <4>2
    <3> QED BY <3>1
  <2>2. f \in [B -> E]
    BY <2>1
  <2>3. \A j, k \in B : f[j] = f[k] => j = k
    <3>1. ASSUME NEW j \in B, NEW k \in B, f[j] = f[k]
          PROVE  j = k
      <4>1. j \in Int /\ k \in Int /\ i \in Int
        BY <1>1
      <4>2. f[j] = (IF j < i THEN j ELSE j + 1) /\ f[k] = (IF k < i THEN k ELSE k + 1)
        OBVIOUS
      <4>3. (IF j < i THEN j ELSE j + 1) = (IF k < i THEN k ELSE k + 1)
        BY <3>1, <4>2
      <4> HIDE DEF f, B
      <4> QED BY <4>1, <4>3
    <3> HIDE DEF f, B
    <3> QED BY <3>1
  <2>4. \A e \in E : \E k \in B : f[k] = e
    <3> TAKE e \in E
    <3>1. CASE e < i
      <4>1. e \in B
        BY <1>1, <3>1
      <4> QED BY <3>1, <4>1
    <3>2. CASE ~(e < i)
      <4>1. e - 1 \in B /\ ~(e - 1 < i) /\ (e - 1) + 1 = e
        BY <1>1, <3>2
      <4> QED BY <4>1
    <3> QED BY <3>1, <3>2
  <2> HIDE DEF f, B, E
  <2>5. f \in Injection(B, E)
    BY <2>2, <2>3 DEF Injection, IsInjective
  <2>6. f \in Surjection(B, E)
    BY <2>2, <2>4, Zenon DEF Surjection
  <2> QED BY <2>5, <2>6, Zenon DEF Bijection
<1>4. Cardinality(E) = Cardinality(B)
  <2>1. ExistsBijection(B, E)
    BY <1>3, Zenon DEF ExistsBijection
  <2> HIDE DEF B, E
  <2> QED BY <1>2, <2>1, FS_Bijection, Zenon
<1>5. Cardinality(E) = IF i \in A THEN Cardinality(A) - 1 ELSE Cardinality(A)
  BY <1>2, FS_RemoveElement, Zenon
<1>6. i \in A <=> q[i] \in T
  BY <1>1
<1>7. Cardinality(A) \in Nat
  BY <1>2, FS_CardinalityType
<1>8. Cardinality(B) = Cardinality(A) - Bit(q[i] \in T)
  <2> HIDE DEF A, B, E
  <2> QED BY <1>4, <1>5, <1>6, <1>7 DEF Bit
<1> QED BY <1>8 DEF Hits

LEMMA HitsReplaced ==
  ASSUME NEW S, NEW q \in Seq(S), NEW p \in 1 .. Len(q), NEW n \in S, NEW T
  PROVE  Hits([q EXCEPT ![p] = n], T) = Hits(q, T) - Bit(q[p] \in T) + Bit(n \in T)
<1> DEFINE r == [q EXCEPT ![p] = n]
           A == {k \in 1 .. Len(q) : q[k] \in T}
           B == {k \in 1 .. Len(r) : r[k] \in T}
<1>1. /\ r \in Seq(S) /\ Len(r) = Len(q) /\ Len(q) \in Nat
      /\ \A k \in 1 .. Len(q) : r[k] = IF k = p THEN n ELSE q[k]
  BY ExceptSeq, LenProperties
<1>2. IsFiniteSet(A) /\ IsFiniteSet(B)
  <2> HIDE DEF r
  <2> QED BY <1>1, HitsFinite
<1>3. A \ {p} = B \ {p} /\ (p \in A <=> q[p] \in T) /\ (p \in B <=> n \in T)
  <2> HIDE DEF r
  <2> QED BY <1>1
<1>4. /\ Cardinality(A \ {p}) = IF p \in A THEN Cardinality(A) - 1 ELSE Cardinality(A)
      /\ Cardinality(B \ {p}) = IF p \in B THEN Cardinality(B) - 1 ELSE Cardinality(B)
  <2> HIDE DEF A, B
  <2> QED BY <1>2, FS_RemoveElement, Zenon
<1>5. Cardinality(A) \in Nat /\ Cardinality(B) \in Nat
  BY <1>2, FS_CardinalityType
<1>6. Cardinality(A \ {p}) = Cardinality(B \ {p})
  <2> HIDE DEF A, B
  <2> QED BY <1>3, Zenon
<1>7. Cardinality(B) = Cardinality(A) - Bit(q[p] \in T) + Bit(n \in T)
  <2>1. PICK a \in Nat : a = Cardinality(A)
    BY <1>5
  <2>2. PICK b \in Nat : b = Cardinality(B)
    BY <1>5
  <2> HIDE DEF A, B
  <2>3. (IF p \in A THEN a - 1 ELSE a) = (IF p \in B THEN b - 1 ELSE b)
    BY <1>4, <1>6, <2>1, <2>2
  <2>4. b = a - Bit(q[p] \in T) + Bit(n \in T)
    BY <1>3, <2>3 DEF Bit
  <2> QED BY <2>1, <2>2, <2>4
<1> QED BY <1>7 DEF Hits

LEMMA TailIs ==
  ASSUME NEW S, NEW q \in Seq(S), q # <<>>
  PROVE  Tail(q) \in Seq(S) /\ Cut(q, 1, Tail(q)) /\ Head(q) = q[1] /\ Len(q) \in Nat \ {0}
<1>1. /\ Tail(q) \in Seq(S) /\ Len(Tail(q)) = Len(q) - 1
      /\ \A i \in 1 .. Len(Tail(q)) : Tail(q)[i] = q[i + 1]
  BY HeadTailProperties
<1>2. Len(q) \in Nat \ {0} /\ Head(q) = q[1]
  BY EmptySeq, LenProperties, HeadTailProperties
<1>3. \A k \in 1 .. Len(Tail(q)) : Tail(q)[k] = q[IF k < 1 THEN k ELSE k + 1]
  BY <1>1, <1>2
<1> QED BY <1>1, <1>2, <1>3 DEF Cut

LEMMA Slice ==
  ASSUME NEW S, NEW q \in Seq(S), NEW a \in Nat, NEW b \in Nat, 1 <= a, b <= Len(q), a <= b + 1
  PROVE  /\ SubSeq(q, a, b) \in Seq(S)
         /\ Len(SubSeq(q, a, b)) = b - a + 1
         /\ \A k \in 1 .. b - a + 1 : SubSeq(q, a, b)[k] = q[a + k - 1]
<1>1. Len(q) \in Nat /\ \A i \in 1 .. Len(q) : q[i] \in S
  BY LenProperties, ElementOfSeq
<1>2. \A i \in a .. b : q[i] \in S
  BY <1>1
<1>3. /\ SubSeq(q, a, b) \in Seq(S)
      /\ Len(SubSeq(q, a, b)) = IF a <= b THEN b - a + 1 ELSE 0
      /\ \A k \in 1 .. b - a + 1 : SubSeq(q, a, b)[k] = q[a + k - 1]
  BY <1>2, SubSeqProperties
<1> QED BY <1>3

LEMMA RemoveAtIs ==
  ASSUME NEW S, NEW q \in Seq(S), NEW i \in 1 .. Len(q)
  PROVE  RemoveAt(q, i) \in Seq(S) /\ Cut(q, i, RemoveAt(q, i))
<1>1. Len(q) \in Nat
  BY LenProperties
<1>2. PICK a \in Seq(S) : /\ a = SubSeq(q, 1, i - 1) /\ Len(a) = i - 1
                          /\ \A k \in 1 .. i - 1 : a[k] = q[k]
  <2>1. PICK b \in Nat : b = i - 1 /\ b <= Len(q)
    BY <1>1
  <2>2. /\ SubSeq(q, 1, b) \in Seq(S)
        /\ Len(SubSeq(q, 1, b)) = b - 1 + 1
        /\ \A k \in 1 .. b - 1 + 1 : SubSeq(q, 1, b)[k] = q[1 + k - 1]
    BY <1>1, <2>1, Slice
  <2>3. b - 1 + 1 = b /\ \A k \in 1 .. b : 1 + k - 1 = k
    BY <2>1
  <2> QED BY <2>1, <2>2, <2>3
<1>3. PICK b \in Seq(S) : /\ b = SubSeq(q, i + 1, Len(q)) /\ Len(b) = Len(q) - i
                          /\ \A k \in 1 .. Len(q) - i : b[k] = q[k + i]
  <2>1. PICK a1 \in Nat : a1 = i + 1 /\ 1 <= a1 /\ a1 <= Len(q) + 1
    BY <1>1
  <2>2. /\ SubSeq(q, a1, Len(q)) \in Seq(S)
        /\ Len(SubSeq(q, a1, Len(q))) = Len(q) - a1 + 1
        /\ \A k \in 1 .. Len(q) - a1 + 1 : SubSeq(q, a1, Len(q))[k] = q[a1 + k - 1]
    BY <1>1, <2>1, Slice
  <2>3. PICK b \in Seq(S) : b = SubSeq(q, a1, Len(q))
    BY <2>2
  <2>4. Len(b) = Len(q) - i
    BY <1>1, <2>1, <2>2, <2>3
  <2>5. ASSUME NEW k \in 1 .. Len(q) - i
        PROVE  b[k] = q[k + i]
    <3>1. k \in 1 .. Len(q) - a1 + 1 /\ a1 + k - 1 = k + i
      BY <1>1, <2>1
    <3> QED BY <2>2, <2>3, <3>1
  <2> QED BY <2>1, <2>3, <2>4, <2>5
<1>4. PICK w \in Seq(S) :
        /\ w = a \o b /\ Len(w) = Len(a) + Len(b)
        /\ \A k \in 1 .. Len(a) + Len(b) : w[k] = IF k <= Len(a) THEN a[k] ELSE b[k - Len(a)]
  <2>1. /\ a \o b \in Seq(S) /\ Len(a \o b) = Len(a) + Len(b)
        /\ \A k \in 1 .. Len(a) + Len(b) : (a \o b)[k] = IF k <= Len(a) THEN a[k] ELSE b[k - Len(a)]
    BY ConcatProperties
  <2> QED BY <2>1
<1>5. RemoveAt(q, i) = w
  BY <1>2, <1>3, <1>4 DEF RemoveAt
<1>6. Len(w) = Len(q) - 1 /\ Len(a) + Len(b) = Len(q) - 1 /\ Len(a) = i - 1
  <2>1. Len(a) = i - 1 /\ Len(b) = Len(q) - i /\ Len(w) = Len(a) + Len(b)
    BY <1>2, <1>3, <1>4
  <2>2. i \in Nat /\ Len(q) \in Nat
    BY <1>1
  <2> QED BY <2>1, <2>2
<1>7. ASSUME NEW k \in 1 .. Len(q) - 1
      PROVE  w[k] = q[IF k < i THEN k ELSE k + 1]
  <2>0. w[k] = IF k <= i - 1 THEN a[k] ELSE b[k - (i - 1)]
    BY <1>4, <1>6
  <2>1. CASE k < i
    <3>1. k <= i - 1 /\ k \in 1 .. i - 1
      BY <1>1, <2>1
    <3> QED BY <1>2, <2>0, <2>1, <3>1
  <2>2. CASE ~(k < i)
    <3>1. ~(k <= i - 1) /\ k - (i - 1) \in 1 .. Len(q) - i /\ (k - (i - 1)) + i = k + 1
      BY <1>1, <2>2
    <3> QED BY <1>3, <2>0, <2>2, <3>1
  <2> QED BY <2>1, <2>2
<1> QED BY <1>4, <1>5, <1>6, <1>7 DEF Cut

LEMMA InsertAtIs ==
  ASSUME NEW S, NEW q \in Seq(S), NEW i \in 1 .. Len(q) + 1, NEW n \in S
  PROVE  /\ InsertAt(q, i, n) \in Seq(S)
         /\ Cut(InsertAt(q, i, n), i, q)
         /\ InsertAt(q, i, n)[i] = n
<1>1. Len(q) \in Nat
  BY LenProperties
<1>2. PICK a \in Seq(S) : /\ a = SubSeq(q, 1, i - 1) /\ Len(a) = i - 1
                          /\ \A k \in 1 .. i - 1 : a[k] = q[k]
  <2>1. PICK b \in Nat : b = i - 1 /\ b <= Len(q)
    BY <1>1
  <2>2. /\ SubSeq(q, 1, b) \in Seq(S)
        /\ Len(SubSeq(q, 1, b)) = b - 1 + 1
        /\ \A k \in 1 .. b - 1 + 1 : SubSeq(q, 1, b)[k] = q[1 + k - 1]
    BY <1>1, <2>1, Slice
  <2>3. b - 1 + 1 = b /\ \A k \in 1 .. b : 1 + k - 1 = k
    BY <2>1
  <2> QED BY <2>1, <2>2, <2>3
<1>3. PICK b \in Seq(S) : /\ b = SubSeq(q, i, Len(q)) /\ Len(b) = Len(q) - i + 1
                          /\ \A k \in 1 .. Len(q) - i + 1 : b[k] = q[k + i - 1]
  <2>1. i \in Nat /\ 1 <= i /\ i <= Len(q) + 1
    BY <1>1
  <2>2. /\ SubSeq(q, i, Len(q)) \in Seq(S)
        /\ Len(SubSeq(q, i, Len(q))) = Len(q) - i + 1
        /\ \A k \in 1 .. Len(q) - i + 1 : SubSeq(q, i, Len(q))[k] = q[i + k - 1]
    BY <1>1, <2>1, Slice
  <2>3. \A k \in 1 .. Len(q) - i + 1 : i + k - 1 = k + i - 1
    BY <1>1, <2>1
  <2> QED BY <2>2, <2>3
<1>4. PICK m \in Seq(S) : m = <<n>> /\ Len(m) = 1 /\ m[1] = n
  <2>1. <<n>> \in Seq(S) /\ Len(<<n>>) = 1 /\ <<n>>[1] = n
    OBVIOUS
  <2> QED BY <2>1
<1>5. PICK am \in Seq(S) : /\ am = a \o m /\ Len(am) = i
                           /\ \A k \in 1 .. i : am[k] = IF k < i THEN q[k] ELSE n
  <2>1. /\ a \o m \in Seq(S) /\ Len(a \o m) = Len(a) + Len(m)
        /\ \A k \in 1 .. Len(a) + Len(m) : (a \o m)[k] = IF k <= Len(a) THEN a[k] ELSE m[k - Len(a)]
    BY ConcatProperties
  <2>2. ASSUME NEW k \in 1 .. i
        PROVE  (a \o m)[k] = IF k < i THEN q[k] ELSE n
    <3>1. k \in 1 .. Len(a) + Len(m) /\ (k <= Len(a) <=> k < i) /\ (k < i => k \in 1 .. i - 1) /\ (~(k < i) => k - Len(a) = 1)
      BY <1>1, <1>2, <1>4
    <3> QED BY <1>2, <1>4, <2>1, <3>1
  <2>3. Len(a \o m) = i
    BY <1>1, <1>2, <1>4, <2>1
  <2> QED BY <2>1, <2>2, <2>3
<1>6. /\ am \o b \in Seq(S) /\ Len(am \o b) = Len(am) + Len(b)
      /\ \A k \in 1 .. Len(am) + Len(b) : (am \o b)[k] = IF k <= Len(am) THEN am[k] ELSE b[k - Len(am)]
  BY ConcatProperties
<1>7. PICK r \in Seq(S) : r = am \o b /\ r = InsertAt(q, i, n)
  BY <1>2, <1>3, <1>4, <1>5, <1>6 DEF InsertAt
<1>8. Len(r) = Len(q) + 1
  BY <1>1, <1>3, <1>5, <1>6, <1>7
<1>9. \A k \in 1 .. Len(q) + 1 : r[k] = IF k <= i THEN am[k] ELSE b[k - i]
  BY <1>1, <1>3, <1>5, <1>6, <1>7
<1>10. r[i] = n
  BY <1>1, <1>5, <1>9
<1>11. ASSUME NEW k \in 1 .. Len(q)
       PROVE  q[k] = r[IF k < i THEN k ELSE k + 1]
  <2>1. CASE k < i
    <3>1. k \in 1 .. i /\ k \in 1 .. Len(q) + 1 /\ k <= i
      BY <1>1, <2>1
    <3> QED BY <1>5, <1>9, <2>1, <3>1
  <2>2. CASE ~(k < i)
    <3>1. k + 1 \in 1 .. Len(q) + 1 /\ ~(k + 1 <= i) /\ (k + 1) - i \in 1 .. Len(q) - i + 1 /\ ((k + 1) - i) + i - 1 = k
      BY <1>1, <2>2
    <3> QED BY <1>3, <1>9, <2>2, <3>1
  <2> QED BY <2>1, <2>2
<1>12. i \in 1 .. Len(r) /\ Len(q) = Len(r) - 1
  BY <1>1, <1>8
<1> QED BY <1>7, <1>10, <1>11, <1>12 DEF Cut

-----------------------------------------------------------------------------
(* The queue: what its nodes hold, and the order they are in.  l gives the   *)
(* last frame of each stream, s the last superbuf sent.                       *)

Num == 0 .. MaxFrame + 1
Lasts == [Streams -> 0 .. MaxFrame]
Others == Streams \ {Meta}

Matched == {n \in Node : n.matched}
Unmatched == {n \in Node : ~n.matched}
Fills(y) == {n \in Node : n.buf[y] # 0}

\* What a node holds: its frame, except that its metadata may be later.  A
\* node with umi is a metadata that waits for any earlier frame.
Fits(n, low, l) ==
  /\ n.matched <=> \A y \in Streams : n.buf[y] # 0
  /\ \E y \in Streams : n.buf[y] # 0
  /\ \A y \in Others : n.buf[y] \in {0, n.frame}
  /\ n.buf[Meta] # 0 => n.frame <= n.buf[Meta]
  /\ \A y \in Streams : n.buf[y] <= l[y]
  /\ n.umi # 0 => low /\ n.umi = n.frame /\ n.buf[Meta] = n.umi /\ \A y \in Others : n.buf[y] = 0
  /\ n.umi = 0 /\ low => \E y \in Others : n.buf[y] # 0

\* A stream that the node lacks has gone past its frame: it stays unmatched.
Doomed(n, l) == n.umi = 0 /\ \E y \in Others : n.buf[y] = 0 /\ n.frame <= l[y]

Before(m, n, l) == m.frame < n.frame \/ Doomed(n, l)
Later(n, s, l) == n.frame > s \/ Doomed(n, l)

Loose(q, low, s, l) ==
  /\ q \in Seq(Node)
  /\ \A i \in 1 .. Len(q) : Fits(q[i], low, l)
  /\ \A i, j \in 1 .. Len(q) : i < j => Before(q[i], q[j], l)
  /\ \A i \in 1 .. Len(q) : Later(q[i], s, l)

First(q) == \A i, j \in 1 .. Len(q) : i < j /\ q[j].matched => q[i].matched

LEMMA NodeNumbers ==
  ASSUME NEW n \in Node
  PROVE  /\ n.frame \in Frames /\ n.frame \in Nat /\ n.umi \in Nat
         /\ \A y \in Streams : n.buf[y] \in Nat
BY SuperbufQueueAssumption DEF Node, Frames

LEMMA LooseCut ==
  ASSUME NEW low, NEW s, NEW l, NEW q, Loose(q, low, s, l),
         NEW r \in Seq(Node), NEW i, Cut(q, i, r)
  PROVE  Loose(r, low, s, l)
<1> DEFINE at(k) == IF k < i THEN k ELSE k + 1
<1>1. Len(q) \in Nat /\ Len(r) \in Nat /\ i \in 1 .. Len(q) /\ Len(r) = Len(q) - 1
  BY LenProperties DEF Cut, Loose
<1>2. \A k \in 1 .. Len(r) : r[k] = q[at(k)] /\ at(k) \in 1 .. Len(q)
  BY <1>1 DEF Cut
<1>3. \A j, k \in 1 .. Len(r) : j < k => at(j) < at(k)
  BY <1>1
<1> HIDE DEF at
<1>4. \A k \in 1 .. Len(r) : Fits(r[k], low, l) /\ Later(r[k], s, l)
  BY <1>2 DEF Loose
<1>5. \A j, k \in 1 .. Len(r) : j < k => Before(r[j], r[k], l)
  BY <1>2, <1>3 DEF Loose
<1> QED BY <1>4, <1>5 DEF Loose

LEMMA FirstCut ==
  ASSUME NEW q \in Seq(Node), First(q), NEW r \in Seq(Node), NEW i, Cut(q, i, r)
  PROVE  First(r)
<1> DEFINE at(k) == IF k < i THEN k ELSE k + 1
<1>1. Len(q) \in Nat /\ Len(r) \in Nat /\ i \in 1 .. Len(q) /\ Len(r) = Len(q) - 1
  BY LenProperties DEF Cut
<1>2. \A k \in 1 .. Len(r) : r[k] = q[at(k)] /\ at(k) \in 1 .. Len(q)
  BY <1>1 DEF Cut
<1>3. \A j, k \in 1 .. Len(r) : j < k => at(j) < at(k)
  BY <1>1
<1> HIDE DEF at
<1> QED BY <1>2, <1>3 DEF First

LEMMA LooseLater ==
  ASSUME NEW low, NEW s, NEW l \in Lasts, NEW m \in Lasts, \A y \in Streams : l[y] <= m[y],
         NEW q, Loose(q, low, s, l)
  PROVE  Loose(q, low, s, m)
<1>1. \A i \in 1 .. Len(q) : q[i] \in Node
  BY ElementOfSeq DEF Loose
<1>2. ASSUME NEW n \in Node, Doomed(n, l)
      PROVE  Doomed(n, m)
  <2>1. PICK y \in Others : n.buf[y] = 0 /\ n.frame <= l[y]
    BY <1>2 DEF Doomed
  <2>2. n.frame \in Int /\ l[y] \in Int /\ m[y] \in Int /\ l[y] <= m[y]
    BY SuperbufQueueAssumption DEF Node, Frames, Lasts, Others
  <2> QED BY <1>2, <2>1, <2>2 DEF Doomed
<1>3. ASSUME NEW n \in Node, Fits(n, low, l)
      PROVE  Fits(n, low, m)
  <2>1. \A y \in Streams : n.buf[y] <= m[y]
    BY <1>3, SuperbufQueueAssumption DEF Fits, Node, Lasts
  <2> QED BY <1>3, <2>1 DEF Fits
<1>4. \A i \in 1 .. Len(q) : Fits(q[i], low, m)
  BY <1>1, <1>3 DEF Loose
<1>5. \A i, j \in 1 .. Len(q) : i < j => Before(q[i], q[j], m)
  BY <1>1, <1>2 DEF Loose, Before
<1>6. \A i \in 1 .. Len(q) : Later(q[i], s, m)
  BY <1>1, <1>2 DEF Loose, Later
<1> QED BY <1>4, <1>5, <1>6 DEF Loose

LEMMA LooseReplaced ==
  ASSUME NEW low, NEW s, NEW l, NEW q, Loose(q, low, s, l),
         NEW p \in 1 .. Len(q), NEW n \in Node, Fits(n, low, l), Later(n, s, l),
         \A i \in 1 .. Len(q) : i < p => Before(q[i], n, l),
         \A i \in 1 .. Len(q) : p < i => Before(n, q[i], l)
  PROVE  Loose([q EXCEPT ![p] = n], low, s, l)
<1> DEFINE r == [q EXCEPT ![p] = n]
<1>1. /\ r \in Seq(Node) /\ Len(r) = Len(q) /\ Len(q) \in Nat
      /\ \A k \in 1 .. Len(q) : r[k] = IF k = p THEN n ELSE q[k]
  BY ExceptSeq, LenProperties DEF Loose
<1> HIDE DEF r
<1>2. \A k \in 1 .. Len(r) : Fits(r[k], low, l) /\ Later(r[k], s, l)
  BY <1>1 DEF Loose
<1>3. ASSUME NEW j \in 1 .. Len(r), NEW k \in 1 .. Len(r), j < k
      PROVE  Before(r[j], r[k], l)
  <2>1. CASE j = p
    BY <1>1, <1>3, <2>1 DEF Loose
  <2>2. CASE k = p
    BY <1>1, <1>3, <2>2 DEF Loose
  <2>3. CASE j # p /\ k # p
    BY <1>1, <1>3, <2>3 DEF Loose
  <2> QED BY <2>1, <2>2, <2>3
<1>4. Loose(r, low, s, l)
  BY <1>1, <1>2, <1>3 DEF Loose
<1> QED BY <1>4 DEF r

\* r is q with one more node, at i.
LEMMA LooseInserted ==
  ASSUME NEW low, NEW s, NEW l, NEW q, Loose(q, low, s, l),
         NEW r \in Seq(Node), NEW i, Cut(r, i, q), Fits(r[i], low, l), Later(r[i], s, l),
         \A k \in 1 .. Len(q) : k < i => Before(q[k], r[i], l),
         \A k \in 1 .. Len(q) : i <= k => Before(r[i], q[k], l)
  PROVE  Loose(r, low, s, l)
<1> DEFINE of(k) == IF k < i THEN k ELSE k - 1
<1>1. Len(q) \in Nat /\ Len(r) \in Nat /\ i \in 1 .. Len(r) /\ Len(q) = Len(r) - 1
  BY LenProperties DEF Cut, Loose
<1>2. ASSUME NEW k \in 1 .. Len(r), k # i
      PROVE  r[k] = q[of(k)] /\ of(k) \in 1 .. Len(q) /\ (k < i => of(k) < i) /\ (k > i => i <= of(k))
  <2>1. CASE k < i
    BY <1>1, <2>1 DEF Cut
  <2>2. CASE ~(k < i)
    <3>1. k - 1 \in 1 .. Len(q) /\ ~(k - 1 < i) /\ (k - 1) + 1 = k
      BY <1>1, <1>2, <2>2
    <3>2. q[k - 1] = r[(k - 1) + 1]
      BY <3>1 DEF Cut
    <3> QED BY <1>1, <1>2, <2>2, <3>1, <3>2
  <2> QED BY <2>1, <2>2
<1>3. \A j, k \in 1 .. Len(r) : j < k /\ j # i /\ k # i => of(j) < of(k)
  BY <1>1
<1> HIDE DEF of
<1>4. ASSUME NEW k \in 1 .. Len(r)
      PROVE  Fits(r[k], low, l) /\ Later(r[k], s, l)
  <2>1. CASE k = i
    BY <2>1
  <2>2. CASE k # i
    BY <1>2, <2>2 DEF Loose
  <2> QED BY <2>1, <2>2
<1>5. ASSUME NEW j \in 1 .. Len(r), NEW k \in 1 .. Len(r), j < k
      PROVE  Before(r[j], r[k], l)
  <2>1. CASE j = i
    <3>1. k # i /\ k > i
      BY <1>1, <1>5, <2>1
    <3>2. r[k] = q[of(k)] /\ of(k) \in 1 .. Len(q) /\ i <= of(k)
      BY <1>2, <3>1
    <3> QED BY <2>1, <3>2
  <2>2. CASE k = i
    <3>1. j # i /\ j < i
      BY <1>1, <1>5, <2>2
    <3>2. r[j] = q[of(j)] /\ of(j) \in 1 .. Len(q) /\ of(j) < i
      BY <1>2, <3>1
    <3> QED BY <2>2, <3>2
  <2>3. CASE j # i /\ k # i
    BY <1>2, <1>3, <1>5, <2>3 DEF Loose
  <2> QED BY <2>1, <2>2, <2>3
<1> QED BY <1>4, <1>5 DEF Loose

LEMMA FirstInserted ==
  ASSUME NEW q \in Seq(Node), First(q), NEW r \in Seq(Node), NEW i, Cut(r, i, q),
         r[i].matched => \A k \in 1 .. Len(q) : k < i => q[k].matched,
         ~r[i].matched => \A k \in 1 .. Len(q) : i <= k => ~q[k].matched
  PROVE  First(r)
<1> DEFINE of(k) == IF k < i THEN k ELSE k - 1
<1>1. Len(q) \in Nat /\ Len(r) \in Nat /\ i \in 1 .. Len(r) /\ Len(q) = Len(r) - 1
  BY LenProperties DEF Cut
<1>2. ASSUME NEW k \in 1 .. Len(r), k # i
      PROVE  r[k] = q[of(k)] /\ of(k) \in 1 .. Len(q) /\ (k < i => of(k) < i) /\ (k > i => i <= of(k))
  <2>1. CASE k < i
    BY <1>1, <2>1 DEF Cut
  <2>2. CASE ~(k < i)
    <3>1. k - 1 \in 1 .. Len(q) /\ ~(k - 1 < i) /\ (k - 1) + 1 = k
      BY <1>1, <1>2, <2>2
    <3>2. q[k - 1] = r[(k - 1) + 1]
      BY <3>1 DEF Cut
    <3> QED BY <1>1, <1>2, <2>2, <3>1, <3>2
  <2> QED BY <2>1, <2>2
<1>3. \A j, k \in 1 .. Len(r) : j < k /\ j # i /\ k # i => of(j) < of(k)
  BY <1>1
<1> HIDE DEF of
<1>4. ASSUME NEW j \in 1 .. Len(r), NEW k \in 1 .. Len(r), j < k, r[k].matched
      PROVE  r[j].matched
  <2>1. CASE j = i
    <3>1. k # i /\ k > i
      BY <1>1, <1>4, <2>1
    <3>2. r[k] = q[of(k)] /\ of(k) \in 1 .. Len(q) /\ i <= of(k)
      BY <1>2, <3>1
    <3> QED BY <1>4, <2>1, <3>2
  <2>2. CASE k = i
    <3>1. j # i /\ j < i
      BY <1>1, <1>4, <2>2
    <3>2. r[j] = q[of(j)] /\ of(j) \in 1 .. Len(q) /\ of(j) < i
      BY <1>2, <3>1
    <3> QED BY <1>4, <2>2, <3>2
  <2>3. CASE j # i /\ k # i
    BY <1>2, <1>3, <1>4, <2>3 DEF First
  <2> QED BY <2>1, <2>2, <2>3
<1> QED BY <1>4 DEF First

-----------------------------------------------------------------------------
(* The channel.                                                               *)

Attributes == [notify_mode : {"BURST", "CONTINUOUS"}, look_back : Nat, water_mark : Nat,
               skip : Nat, max_unmatched : Nat, low : BOOLEAN, user_expected : Num]

Channel ==
  [attr : Attributes, que : Seq(Node), match_cnt : Int,
   expected : Num, good : Num, without_led : Num,
   led_off : Num, led_skip : Num, once : BOOLEAN,
   diverted : Num, pending : Nat, retro : Nat, wait_prep : BOOLEAN,
   need_led : BOOLEAN, bracketing : {"OFF", "WAIT_GOOD_FRAME_IDX", "ACTIVE"},
   flash_br : BOOLEAN, zoom1x : BOOLEAN, start_zsl : BOOLEAN, stop_zsl : BOOLEAN,
   manual_zsl : BOOLEAN, burst_num : Nat, unlock_aec : BOOLEAN, zsl : BOOLEAN,
   owed : [Streams -> Int], lost : [Streams -> Nat], sent : Num]

LEMMA NumIs == Num \subseteq Nat /\ 0 \in Num /\ Frames \subseteq Nat /\ Frames \subseteq Num
BY SuperbufQueueAssumption DEF Num, Frames

LEMMA ChannelNumbers ==
  ASSUME NEW c \in Channel
  PROVE  /\ {c.sent, c.expected, c.led_off, c.led_skip, c.diverted} \subseteq Nat
         /\ c.attr \in Attributes
         /\ {c.attr.max_unmatched, c.attr.water_mark, c.attr.look_back, c.attr.skip} \subseteq Nat
<1>1. {c.sent, c.expected, c.led_off, c.led_skip, c.diverted} \subseteq Num /\ c.attr \in Attributes
  BY DEF Channel
<1>2. {c.attr.max_unmatched, c.attr.water_mark, c.attr.look_back, c.attr.skip} \subseteq Nat
  BY <1>1 DEF Attributes
<1> QED BY <1>1, <1>2, NumIs

\* The queue and its counts, while the nodes may be out of order.
Rough(c, l) ==
  /\ c \in Channel
  /\ Loose(c.que, c.attr.low, c.sent, l)
  /\ c.match_cnt = Hits(c.que, Matched)
  /\ Hits(c.que, Unmatched) <= c.attr.max_unmatched + 1
  /\ \A y \in Streams : c.sent <= l[y]

Sane(c, l) == Rough(c, l) /\ First(c.que)

\* Each buffer is in one node; those of h have been delivered and are in none.
Books(c, h) ==
  \A y \in Streams : c.owed[y] = c.lost[y] + Hits(c.que, Fills(y)) + h[y]

Sound(c, h, l) == Sane(c, l) /\ Books(c, h)

\* Nothing that the queue depends on is different.
Limits(c, d) ==
  /\ d \in Channel
  /\ d.lost = c.lost
  /\ d.attr.low = c.attr.low
  /\ d.attr.max_unmatched = c.attr.max_unmatched

Alike(c, d) ==
  /\ Limits(c, d)
  /\ d.que = c.que
  /\ d.match_cnt = c.match_cnt
  /\ d.owed = c.owed
  /\ d.sent = c.sent

LEMMA AlikeSound ==
  ASSUME NEW c, NEW d, NEW h, NEW l, Sound(c, h, l), Alike(c, d)
  PROVE  Sound(d, h, l)
BY DEF Sound, Sane, Rough, Books, Alike, Limits

LEMMA AlikeTrans ==
  ASSUME NEW b, NEW c, NEW d, Alike(b, c), Alike(c, d)
  PROVE  Alike(b, d)
BY DEF Alike, Limits

LEMMA AlikeSelf ==
  ASSUME NEW c \in Channel
  PROVE  Alike(c, c)
BY DEF Alike, Limits

\* A removed node takes its share of the counts with it.
LEMMA RoughCut ==
  ASSUME NEW c, NEW l, Rough(c, l), NEW d, Limits(c, d),
         NEW i, Cut(c.que, i, d.que), d.sent = c.sent,
         d.match_cnt = c.match_cnt - Bit(c.que[i].matched)
  PROVE  /\ Rough(d, l)
         /\ Hits(d.que, Unmatched) = Hits(c.que, Unmatched) - Bit(~c.que[i].matched)
         /\ Len(d.que) = Len(c.que) - 1
<1>1. c.que \in Seq(Node) /\ d.que \in Seq(Node) /\ i \in 1 .. Len(c.que)
  BY DEF Rough, Limits, Channel, Cut
<1>2. c.que[i] \in Node
  BY <1>1, ElementOfSeq
<1>3. /\ Hits(d.que, Matched) = Hits(c.que, Matched) - Bit(c.que[i] \in Matched)
      /\ Hits(d.que, Unmatched) = Hits(c.que, Unmatched) - Bit(c.que[i] \in Unmatched)
  BY <1>1, HitsCut
<1>4. Hits(c.que, Unmatched) \in Nat /\ c.attr.max_unmatched \in Nat
  BY <1>1, HitsOf DEF Rough, Channel, Attributes
<1>5. (c.que[i] \in Matched <=> c.que[i].matched) /\ (c.que[i] \in Unmatched <=> ~c.que[i].matched)
  BY <1>2 DEF Matched, Unmatched
<1>6. d.match_cnt = Hits(d.que, Matched)
  BY <1>3, <1>5 DEF Rough, Bit
<1>7. Hits(d.que, Unmatched) = Hits(c.que, Unmatched) - Bit(~c.que[i].matched)
  BY <1>3, <1>5 DEF Bit
<1>8. Hits(d.que, Unmatched) <= d.attr.max_unmatched + 1
  BY <1>4, <1>7 DEF Rough, Bit, Limits
<1>9. Loose(d.que, d.attr.low, d.sent, l)
  <2>1. Loose(c.que, c.attr.low, c.sent, l)
    BY DEF Rough
  <2>2. Loose(d.que, c.attr.low, c.sent, l)
    BY <1>1, <2>1, LooseCut
  <2> QED BY <2>2 DEF Limits
<1>10. Len(d.que) = Len(c.que) - 1
  BY DEF Cut
<1> QED BY <1>6, <1>7, <1>8, <1>9, <1>10 DEF Rough, Limits

LEMMA BooksCut ==
  ASSUME NEW c \in Channel, NEW d, NEW h \in [Streams -> Int], Books(c, h), Limits(c, d),
         NEW i, Cut(c.que, i, d.que),
         \A y \in Streams : d.owed[y] = c.owed[y] - Bit(c.que[i].buf[y] # 0)
  PROVE  Books(d, h)
<1>1. c.que \in Seq(Node) /\ d.que \in Seq(Node) /\ i \in 1 .. Len(c.que)
  BY DEF Limits, Channel, Cut
<1>2. c.que[i] \in Node
  BY <1>1, ElementOfSeq
<1>3. ASSUME NEW y \in Streams
      PROVE  d.owed[y] = d.lost[y] + Hits(d.que, Fills(y)) + h[y]
  <2>1. Hits(d.que, Fills(y)) = Hits(c.que, Fills(y)) - Bit(c.que[i] \in Fills(y))
    BY <1>1, HitsCut
  <2>2. c.que[i] \in Fills(y) <=> c.que[i].buf[y] # 0
    BY <1>2 DEF Fills
  <2>3. c.owed[y] \in Int /\ c.lost[y] \in Int /\ Hits(c.que, Fills(y)) \in Int /\ h[y] \in Int
    BY <1>1, HitsOf DEF Channel
  <2>4. c.owed[y] = c.lost[y] + Hits(c.que, Fills(y)) + h[y]
    BY DEF Books
  <2>5. d.lost = c.lost
    BY DEF Limits
  <2>6. d.owed[y] = c.owed[y] - Bit(c.que[i].buf[y] # 0)
    OBVIOUS
  <2>7. CASE c.que[i].buf[y] # 0
    <3>1. Hits(d.que, Fills(y)) = Hits(c.que, Fills(y)) - 1 /\ d.owed[y] = c.owed[y] - 1
      BY <2>1, <2>2, <2>6, <2>7 DEF Bit
    <3> QED BY <2>3, <2>4, <2>5, <3>1
  <2>8. CASE ~(c.que[i].buf[y] # 0)
    <3>1. Hits(d.que, Fills(y)) = Hits(c.que, Fills(y)) /\ d.owed[y] = c.owed[y]
      BY <2>1, <2>2, <2>3, <2>6, <2>8 DEF Bit
    <3> QED BY <2>4, <2>5, <3>1
  <2> QED BY <2>7, <2>8
<1> QED BY <1>3 DEF Books

\* The buffers of S are given away: no count but owed changes.
LEMMA LeaveIs ==
  ASSUME NEW c \in Channel, NEW S
  PROVE  /\ Limits(c, leave(c, S))
         /\ leave(c, S).attr = c.attr
         /\ leave(c, S).que = c.que
         /\ leave(c, S).match_cnt = c.match_cnt
         /\ leave(c, S).sent = c.sent
         /\ \A y \in Streams : leave(c, S).owed[y] = c.owed[y] - Bit(y \in S)
<1>1. PICK o \in [Streams -> Int] : /\ o = [x \in Streams |-> c.owed[x] - Bit(x \in S)]
                                    /\ \A y \in Streams : o[y] = c.owed[y] - Bit(y \in S)
  <2>1. c.owed \in [Streams -> Int]
    BY DEF Channel
  <2>2. \A x \in Streams : c.owed[x] - Bit(x \in S) \in Int
    BY <2>1 DEF Bit
  <2>3. PICK o : o = [x \in Streams |-> c.owed[x] - Bit(x \in S)]
    OBVIOUS
  <2>4. o \in [Streams -> Int] /\ \A y \in Streams : o[y] = c.owed[y] - Bit(y \in S)
    BY <2>2, <2>3
  <2> QED BY <2>3, <2>4
<1>2. leave(c, S) = [c EXCEPT !.owed = o]
  BY <1>1 DEF leave
<1>3. [c EXCEPT !.owed = o] \in Channel
  BY DEF Channel
<1>4. /\ [c EXCEPT !.owed = o].attr = c.attr
      /\ [c EXCEPT !.owed = o].que = c.que
      /\ [c EXCEPT !.owed = o].match_cnt = c.match_cnt
      /\ [c EXCEPT !.owed = o].sent = c.sent
      /\ [c EXCEPT !.owed = o].lost = c.lost
      /\ [c EXCEPT !.owed = o].owed = o
  BY DEF Channel
<1> QED BY <1>1, <1>2, <1>3, <1>4 DEF Limits

\* Its settings stay as they are.
LEMMA LeaveKeeps ==
  ASSUME NEW c \in Channel, NEW S
  PROVE  /\ leave(c, S).pending = c.pending
         /\ leave(c, S).wait_prep = c.wait_prep
BY DEF Channel, leave

LEMMA DequeueIs ==
  ASSUME NEW c \in Channel, c.que # <<>>
  PROVE  /\ Limits(c, dequeue(c))
         /\ dequeue(c).attr = c.attr
         /\ dequeue(c).que = Tail(c.que)
         /\ dequeue(c).match_cnt = c.match_cnt - Bit(Head(c.que).matched)
         /\ dequeue(c).sent = c.sent
         /\ dequeue(c).owed = c.owed
         /\ dequeue(c).pending = c.pending
         /\ dequeue(c).wait_prep = c.wait_prep
<1>1. PICK t \in Seq(Node) : t = Tail(c.que)
  <2>1. c.que \in Seq(Node)
    BY DEF Channel
  <2> QED BY <2>1, TailIs
<1>2. PICK m \in Int : m = c.match_cnt - Bit(Head(c.que).matched)
  <2>1. c.match_cnt \in Int
    BY DEF Channel
  <2>2. c.match_cnt - Bit(Head(c.que).matched) \in Int
    BY <2>1 DEF Bit
  <2> QED BY <2>2
<1>3. dequeue(c) = [c EXCEPT !.que = t, !.match_cnt = m]
  BY <1>1, <1>2 DEF dequeue
<1>4. [c EXCEPT !.que = t, !.match_cnt = m] \in Channel
  BY DEF Channel
<1>5. /\ [c EXCEPT !.que = t, !.match_cnt = m].attr = c.attr
      /\ [c EXCEPT !.que = t, !.match_cnt = m].que = t
      /\ [c EXCEPT !.que = t, !.match_cnt = m].match_cnt = m
      /\ [c EXCEPT !.que = t, !.match_cnt = m].sent = c.sent
      /\ [c EXCEPT !.que = t, !.match_cnt = m].owed = c.owed
      /\ [c EXCEPT !.que = t, !.match_cnt = m].lost = c.lost
      /\ [c EXCEPT !.que = t, !.match_cnt = m].pending = c.pending
      /\ [c EXCEPT !.que = t, !.match_cnt = m].wait_prep = c.wait_prep
  BY DEF Channel
<1> QED BY <1>1, <1>2, <1>3, <1>4, <1>5 DEF Limits

\* The head leaves the queue; of its buffers those of S are returned.
giveHead(c, S) == dequeue(leave(c, filled(Head(c.que)) \cap S))

LEMMA GiveHead ==
  ASSUME NEW c, NEW l, Sane(c, l), c.que # <<>>, NEW S
  PROVE  /\ Sane(giveHead(c, S), l)
         /\ Limits(c, giveHead(c, S))
         /\ giveHead(c, S).attr = c.attr
         /\ giveHead(c, S).sent = c.sent
         /\ giveHead(c, S).match_cnt = c.match_cnt - Bit(c.que[1].matched)
         /\ Cut(c.que, 1, giveHead(c, S).que)
         /\ Len(giveHead(c, S).que) = Len(c.que) - 1
         /\ \A y \in Streams : giveHead(c, S).owed[y] = c.owed[y] - Bit(c.que[1].buf[y] # 0 /\ y \in S)
<1> DEFINE b == leave(c, filled(Head(c.que)) \cap S)
<1>1. c \in Channel /\ c.que \in Seq(Node)
  BY DEF Sane, Rough, Channel
<1>2. /\ Limits(c, b) /\ b.attr = c.attr /\ b.que = c.que /\ b.match_cnt = c.match_cnt /\ b.sent = c.sent
      /\ \A y \in Streams : b.owed[y] = c.owed[y] - Bit(y \in filled(Head(c.que)) \cap S)
  BY <1>1, LeaveIs
<1> HIDE DEF b
<1>3. b \in Channel /\ b.que # <<>>
  BY <1>2 DEF Limits
<1>4. PICK d : d = giveHead(c, S) /\ d = dequeue(b)
  BY DEF giveHead, b
<1>5. /\ Limits(b, d) /\ d.attr = b.attr /\ d.que = Tail(b.que)
      /\ d.match_cnt = b.match_cnt - Bit(Head(b.que).matched)
      /\ d.sent = b.sent /\ d.owed = b.owed
  BY <1>3, <1>4, DequeueIs
<1>6. Cut(c.que, 1, d.que) /\ Head(c.que) = c.que[1]
  BY <1>1, <1>2, <1>5, TailIs
<1>7. Limits(c, d)
  BY <1>2, <1>5 DEF Limits
<1>8. d.sent = c.sent /\ d.attr = c.attr /\ d.match_cnt = c.match_cnt - Bit(c.que[1].matched)
  BY <1>2, <1>5, <1>6
<1>9. Rough(d, l) /\ Len(d.que) = Len(c.que) - 1
  BY <1>6, <1>7, <1>8, RoughCut DEF Sane
<1>10. First(d.que)
  <2>1. d.que \in Seq(Node) /\ First(c.que)
    BY <1>7 DEF Limits, Channel, Sane
  <2> QED BY <1>1, <1>6, <2>1, FirstCut
<1>11. ASSUME NEW y \in Streams
       PROVE  d.owed[y] = c.owed[y] - Bit(c.que[1].buf[y] # 0 /\ y \in S)
  <2>1. y \in filled(Head(c.que)) \cap S <=> c.que[1].buf[y] # 0 /\ y \in S
    BY <1>6 DEF filled
  <2> QED BY <1>2, <1>5, <2>1 DEF Bit
<1> QED BY <1>4, <1>6, <1>7, <1>8, <1>9, <1>10, <1>11 DEF Sane

LEMMA DropHead ==
  ASSUME NEW c, NEW h \in [Streams -> Int], NEW l, Sound(c, h, l), c.que # <<>>
  PROVE  /\ dropHead(c) = giveHead(c, Streams)
         /\ Sound(dropHead(c), h, l)
<1>1. dropHead(c) = giveHead(c, Streams)
  <2>1. filled(Head(c.que)) \cap Streams = filled(Head(c.que))
    BY DEF filled
  <2> QED BY <2>1 DEF dropHead, giveHead
<1>2. PICK d : d = giveHead(c, Streams)
  OBVIOUS
<1>3. /\ Sane(d, l) /\ Limits(c, d) /\ Cut(c.que, 1, d.que)
      /\ \A y \in Streams : d.owed[y] = c.owed[y] - Bit(c.que[1].buf[y] # 0 /\ y \in Streams)
  BY <1>2, GiveHead DEF Sound
<1>4. \A y \in Streams : d.owed[y] = c.owed[y] - Bit(c.que[1].buf[y] # 0)
  BY <1>3 DEF Bit
<1>5. c \in Channel /\ Books(c, h)
  BY DEF Sound, Sane, Rough
<1>6. Books(d, h)
  BY <1>3, <1>4, <1>5, BooksCut
<1> QED BY <1>1, <1>2, <1>3, <1>6 DEF Sound

-----------------------------------------------------------------------------
(* The loops.  Each is a run of its body, which stays among sound channels.   *)

\* While something is matched the head is.
LEMMA HeadMatched ==
  ASSUME NEW c, NEW l, Sane(c, l), c.match_cnt > 0
  PROVE  matchedHead(c)
<1>1. c.que \in Seq(Node) /\ c.match_cnt = Hits(c.que, Matched) /\ First(c.que)
  BY DEF Sane, Rough, Channel
<1>2. PICK i \in 1 .. Len(c.que) : c.que[i] \in Matched
  BY <1>1, HitsOf
<1>3. c.que # <<>> /\ Len(c.que) \in Nat
  BY <1>1, <1>2, LenProperties
<1>4. Head(c.que) = c.que[1] /\ 1 \in 1 .. Len(c.que)
  BY <1>1, <1>3, TailIs
<1>5. c.que[1].matched
  <2>1. CASE i = 1
    BY <1>2, <2>1 DEF Matched
  <2>2. CASE i # 1
    <3>1. 1 < i
      BY <1>2, <1>3, <2>2
    <3> QED BY <1>1, <1>2, <1>4, <3>1 DEF First, Matched
  <2> QED BY <2>1, <2>2
<1> QED BY <1>3, <1>4, <1>5 DEF matchedHead

LEMMA DropDownTo ==
  ASSUME NEW c, NEW h \in [Streams -> Int], NEW l, Sound(c, h, l), NEW n \in Nat
  PROVE  /\ Sound(dropDownTo(c, n), h, l)
         /\ dropDownTo(c, n).attr = c.attr
         /\ dropDownTo(c, n).sent = c.sent
         /\ dropDownTo(c, n).match_cnt <= n
<1> DEFINE D == {d \in Channel : Sound(d, h, l) /\ d.attr = c.attr /\ d.sent = c.sent}
           more(d) == d.match_cnt > n /\ matchedHead(d)
           F == [d \in D |-> IF more(d) THEN dropHead(d) ELSE d]
           f(p) == [k \in Nat |-> IF k = 0 THEN c ELSE IF more(p[k - 1]) THEN dropHead(p[k - 1]) ELSE p[k - 1]]
<1>1. c \in D
  BY DEF Sound, Sane, Rough
<1>2. ASSUME NEW d \in D, more(d)
      PROVE  dropHead(d) \in D /\ Len(dropHead(d).que) = Len(d.que) - 1
  <2>1. Sound(d, h, l) /\ d.que # <<>> /\ d.attr = c.attr /\ d.sent = c.sent
    BY <1>2 DEF matchedHead
  <2>2. dropHead(d) = giveHead(d, Streams) /\ Sound(dropHead(d), h, l)
    BY <2>1, DropHead
  <2>3. /\ Limits(d, giveHead(d, Streams)) /\ giveHead(d, Streams).attr = d.attr /\ giveHead(d, Streams).sent = d.sent
        /\ Len(giveHead(d, Streams).que) = Len(d.que) - 1
    BY <2>1, GiveHead DEF Sound
  <2> QED BY <2>1, <2>2, <2>3 DEF Limits
<1>3. PICK p \in [Nat -> D] : p = f(p)
  <2>1. F \in [D -> D]
    <3> HIDE DEF D, more
    <3> QED BY <1>2
  <2>2. PICK G : G = F
    OBVIOUS
  <2>3. PICK p \in [Nat -> D] : Loop(p, G, c)
    <3> HIDE DEF D, F
    <3> QED BY <1>1, <2>1, <2>2, Solves
  <2>4. \A k \in Nat : k # 0 => p[k - 1] \in D
    <3> HIDE DEF D
    <3> QED BY <2>3
  <2>5. \A k \in Nat : k # 0 => G[p[k - 1]] = IF more(p[k - 1]) THEN dropHead(p[k - 1]) ELSE p[k - 1]
    <3> HIDE DEF D, more
    <3> QED BY <2>2, <2>4
  <2>6. p = f(p)
    <3> HIDE DEF D, F, more
    <3> QED BY <2>3, <2>5 DEF Loop
  <2> QED BY <2>6
<1> DEFINE P == CHOOSE r : r = f(r)
<1>4. P = f(P)
  <2> HIDE DEF f
  <2> QED BY <1>3
<1>5. dropDownTo(c, n) = P[Len(c.que)]
  BY DEF dropDownTo, while, repeat
<1> HIDE DEF P
<1>6. P[0] = c /\ \A k \in Nat : P[k + 1] = IF more(P[k]) THEN dropHead(P[k]) ELSE P[k]
  <2> HIDE DEF more
  <2> QED BY <1>4
<1> DEFINE N == {k \in Nat : P[k] \in D /\ (P[k].match_cnt <= n \/ Len(P[k].que) = Len(c.que) - k)}
<1>7. c.que \in Seq(Node) /\ Len(c.que) \in Nat
  BY LenProperties DEF Sound, Sane, Rough, Channel
<1>8. 0 \in N
  <2> HIDE DEF D
  <2>1. P[0] = c /\ Len(c.que) = Len(c.que) - 0
    BY <1>6, <1>7
  <2> QED BY <1>1, <2>1
<1>9. ASSUME NEW k \in N
      PROVE  k + 1 \in N
  <2>1. k \in Nat /\ P[k] \in D /\ (P[k].match_cnt <= n \/ Len(P[k].que) = Len(c.que) - k)
    OBVIOUS
  <2>2. P[k].match_cnt \in Int /\ Sane(P[k], l)
    BY <2>1 DEF Channel, Sound
  <2>3. CASE more(P[k])
    <3>1. P[k + 1] = dropHead(P[k]) /\ P[k].match_cnt > n
      BY <1>6, <2>1, <2>3
    <3>2. P[k + 1] \in D /\ Len(P[k + 1].que) = Len(P[k].que) - 1
      <4> HIDE DEF D, more
      <4> QED BY <1>2, <2>1, <2>3, <3>1
    <3>3. Len(P[k + 1].que) = Len(c.que) - (k + 1)
      BY <1>7, <2>1, <2>2, <3>1, <3>2
    <3>4. k + 1 \in Nat
      BY <2>1
    <3> HIDE DEF D
    <3> QED BY <3>2, <3>3, <3>4
  <2>4. CASE ~more(P[k])
    <3>1. P[k + 1] = P[k]
      BY <1>6, <2>1, <2>4
    <3>2. P[k].match_cnt <= n
      <4>1. ~(P[k].match_cnt > 0) \/ matchedHead(P[k])
        BY <2>2, HeadMatched
      <4> QED BY <2>2, <2>4, <4>1
    <3> HIDE DEF D
    <3> QED BY <2>1, <3>1, <3>2
  <2> QED BY <2>3, <2>4
<1>10. N = Nat
  <2>1. N \in SUBSET Nat
    OBVIOUS
  <2> HIDE DEF N
  <2> QED BY <1>8, <1>9, <2>1, Reaches
<1>11. PICK e : e = P[Len(c.que)] /\ e \in D /\ (e.match_cnt <= n \/ Len(e.que) = Len(c.que) - Len(c.que))
  <2> HIDE DEF D
  <2> QED BY <1>7, <1>10
<1>12. e.match_cnt <= n
  <2>1. CASE Len(e.que) = Len(c.que) - Len(c.que)
    <3>1. e.que \in Seq(Node) /\ e.match_cnt = Hits(e.que, Matched)
      BY <1>11 DEF Sound, Sane, Rough, Channel
    <3>2. Len(e.que) = 0
      BY <1>7, <2>1
    <3>3. Hits(e.que, Matched) = 0
      BY <3>1, <3>2, HitsOf
    <3> QED BY <3>1, <3>3
  <2> QED BY <1>11, <2>1
<1> QED BY <1>5, <1>11, <1>12

LEMMA FlushMatched ==
  ASSUME NEW c, NEW h \in [Streams -> Int], NEW l, Sound(c, h, l)
  PROVE  /\ Sound(superbuf_flush_matched(c), h, l)
         /\ superbuf_flush_matched(c).attr = c.attr
         /\ superbuf_flush_matched(c).sent = c.sent
<1> DEFINE D == {d \in Channel : Sound(d, h, l) /\ d.attr = c.attr /\ d.sent = c.sent}
           F == [d \in D |-> IF matchedHead(d) THEN dropHead(d) ELSE d]
           f(p) == [k \in Nat |-> IF k = 0 THEN c ELSE IF matchedHead(p[k - 1]) THEN dropHead(p[k - 1]) ELSE p[k - 1]]
<1>1. c \in D
  BY DEF Sound, Sane, Rough
<1>2. ASSUME NEW d \in D, matchedHead(d)
      PROVE  dropHead(d) \in D
  <2>1. Sound(d, h, l) /\ d.que # <<>> /\ d.attr = c.attr /\ d.sent = c.sent
    BY <1>2 DEF matchedHead
  <2>2. dropHead(d) = giveHead(d, Streams) /\ Sound(dropHead(d), h, l)
    BY <2>1, DropHead
  <2>3. Limits(d, giveHead(d, Streams)) /\ giveHead(d, Streams).attr = d.attr /\ giveHead(d, Streams).sent = d.sent
    BY <2>1, GiveHead DEF Sound
  <2> QED BY <2>1, <2>2, <2>3 DEF Limits
<1>3. PICK p \in [Nat -> D] : p = f(p)
  <2>1. F \in [D -> D]
    <3> HIDE DEF D
    <3> QED BY <1>2
  <2>2. PICK G : G = F
    OBVIOUS
  <2>3. PICK p \in [Nat -> D] : Loop(p, G, c)
    <3> HIDE DEF D, F
    <3> QED BY <1>1, <2>1, <2>2, Solves
  <2>4. \A k \in Nat : k # 0 => p[k - 1] \in D
    <3> HIDE DEF D
    <3> QED BY <2>3
  <2>5. \A k \in Nat : k # 0 => G[p[k - 1]] = IF matchedHead(p[k - 1]) THEN dropHead(p[k - 1]) ELSE p[k - 1]
    <3> HIDE DEF D
    <3> QED BY <2>2, <2>4
  <2>6. p = f(p)
    <3> HIDE DEF D, F
    <3> QED BY <2>3, <2>5 DEF Loop
  <2> QED BY <2>6
<1> DEFINE P == CHOOSE r : r = f(r)
<1>4. P = f(P)
  <2> HIDE DEF f
  <2> QED BY <1>3
<1>5. superbuf_flush_matched(c) = P[Len(c.que)]
  BY DEF superbuf_flush_matched, while, repeat
<1> HIDE DEF P
<1>6. P[0] = c /\ \A k \in Nat : P[k + 1] = IF matchedHead(P[k]) THEN dropHead(P[k]) ELSE P[k]
  BY <1>4
<1> DEFINE N == {k \in Nat : P[k] \in D}
<1>7. c.que \in Seq(Node) /\ Len(c.que) \in Nat
  BY LenProperties DEF Sound, Sane, Rough, Channel
<1>8. N = Nat
  <2>1. 0 \in N /\ N \in SUBSET Nat
    <3> HIDE DEF D
    <3> QED BY <1>1, <1>6
  <2>2. \A k \in N : k + 1 \in N
    <3> HIDE DEF D
    <3> QED BY <1>2, <1>6
  <2> HIDE DEF N
  <2> QED BY <2>1, <2>2, Reaches
<1>9. P[Len(c.que)] \in D
  <2> HIDE DEF D
  <2> QED BY <1>7, <1>8
<1> QED BY <1>5, <1>9

\* What is owed covers at least what is in the queue, also while a flush
\* returns only some of it.
Covered(d) == \A y \in Streams : d.owed[y] >= d.lost[y] + Hits(d.que, Fills(y))

LEMMA CoveredCut ==
  ASSUME NEW c \in Channel, NEW d, Covered(c), Limits(c, d), NEW i, Cut(c.que, i, d.que),
         \A y \in Streams : d.owed[y] >= c.owed[y] - Bit(c.que[i].buf[y] # 0)
  PROVE  Covered(d)
<1>1. c.que \in Seq(Node) /\ d.que \in Seq(Node) /\ i \in 1 .. Len(c.que)
  BY DEF Limits, Channel, Cut
<1>2. c.que[i] \in Node
  BY <1>1, ElementOfSeq
<1>3. ASSUME NEW y \in Streams
      PROVE  d.owed[y] >= d.lost[y] + Hits(d.que, Fills(y))
  <2>1. Hits(d.que, Fills(y)) = Hits(c.que, Fills(y)) - Bit(c.que[i] \in Fills(y))
    BY <1>1, HitsCut
  <2>2. c.que[i] \in Fills(y) <=> c.que[i].buf[y] # 0
    BY <1>2 DEF Fills
  <2>3. c.owed[y] \in Int /\ c.lost[y] \in Int /\ Hits(c.que, Fills(y)) \in Int /\ d.owed[y] \in Int
    BY <1>1, HitsOf DEF Channel, Limits
  <2>4. c.owed[y] >= c.lost[y] + Hits(c.que, Fills(y))
    BY DEF Covered
  <2>5. d.lost = c.lost
    BY DEF Limits
  <2>6. d.owed[y] >= c.owed[y] - Bit(c.que[i].buf[y] # 0)
    OBVIOUS
  <2>7. CASE c.que[i].buf[y] # 0
    <3>1. Hits(d.que, Fills(y)) = Hits(c.que, Fills(y)) - 1 /\ d.owed[y] >= c.owed[y] - 1
      BY <2>1, <2>2, <2>6, <2>7 DEF Bit
    <3> QED BY <2>3, <2>4, <2>5, <3>1
  <2>8. CASE ~(c.que[i].buf[y] # 0)
    <3>1. Hits(d.que, Fills(y)) = Hits(c.que, Fills(y)) /\ d.owed[y] >= c.owed[y]
      BY <2>1, <2>2, <2>3, <2>6, <2>8 DEF Bit
    <3> QED BY <2>3, <2>4, <2>5, <3>1
  <2> QED BY <2>7, <2>8
<1> QED BY <1>3 DEF Covered

LEMMA BooksCover ==
  ASSUME NEW c \in Channel, NEW h \in [Streams -> Nat], Books(c, h)
  PROVE  Covered(c)
<1>1. c.que \in Seq(Node)
  BY DEF Channel
<1>2. ASSUME NEW y \in Streams
      PROVE  c.owed[y] >= c.lost[y] + Hits(c.que, Fills(y))
  <2>1. c.lost[y] \in Int /\ h[y] \in Nat /\ Hits(c.que, Fills(y)) \in Int
    BY <1>1, HitsOf DEF Channel
  <2>2. c.owed[y] = c.lost[y] + Hits(c.que, Fills(y)) + h[y]
    BY DEF Books
  <2> QED BY <2>1, <2>2
<1> QED BY <1>2 DEF Covered

LEMMA Flush ==
  ASSUME NEW c, NEW h \in [Streams -> Nat], NEW l, Sound(c, h, l), NEW S
  PROVE  /\ Sane(superbuf_flush(c, S), l)
         /\ Limits(c, superbuf_flush(c, S))
         /\ superbuf_flush(c, S).que = <<>>
         /\ superbuf_flush(c, S).attr = c.attr
         /\ superbuf_flush(c, S).sent = c.sent
         /\ Covered(superbuf_flush(c, S))
         /\ S = Streams => Sound(superbuf_flush(c, S), h, l)
<1> DEFINE D == {d \in Channel : /\ Sane(d, l) /\ Limits(c, d) /\ d.attr = c.attr /\ d.sent = c.sent
                                 /\ Covered(d) /\ (S = Streams => Books(d, h))}
           F == [d \in D |-> IF d.que # <<>> THEN giveHead(d, S) ELSE d]
           f(p) == [k \in Nat |-> IF k = 0 THEN c ELSE IF p[k - 1].que # <<>> THEN giveHead(p[k - 1], S) ELSE p[k - 1]]
<1>1. c \in D
  <2>1. c \in Channel /\ Sane(c, l) /\ Books(c, h)
    BY DEF Sound, Sane, Rough
  <2> QED BY <2>1, BooksCover DEF Limits
<1>2. ASSUME NEW d \in D, d.que # <<>>
      PROVE  giveHead(d, S) \in D /\ Len(giveHead(d, S).que) = Len(d.que) - 1
  <2>1. PICK e : e = giveHead(d, S)
    OBVIOUS
  <2>2. d \in Channel /\ Sane(d, l) /\ Limits(c, d) /\ d.attr = c.attr /\ d.sent = c.sent /\ Covered(d)
    OBVIOUS
  <2>3. /\ Sane(e, l) /\ Limits(d, e) /\ e.attr = d.attr /\ e.sent = d.sent
        /\ Cut(d.que, 1, e.que) /\ Len(e.que) = Len(d.que) - 1
        /\ \A y \in Streams : e.owed[y] = d.owed[y] - Bit(d.que[1].buf[y] # 0 /\ y \in S)
    BY <1>2, <2>1, <2>2, GiveHead
  <2>4. Limits(c, e) /\ e \in Channel
    BY <2>2, <2>3 DEF Limits
  <2>5. Covered(e)
    <3>1. ASSUME NEW y \in Streams
          PROVE  e.owed[y] >= d.owed[y] - Bit(d.que[1].buf[y] # 0)
      <4>1. d.owed[y] \in Int
        BY <2>2 DEF Channel
      <4> QED BY <2>3, <4>1 DEF Bit
    <3> QED BY <2>2, <2>3, <3>1, CoveredCut
  <2>6. ASSUME S = Streams
        PROVE  Books(e, h)
    <3>1. \A y \in Streams : e.owed[y] = d.owed[y] - Bit(d.que[1].buf[y] # 0)
      BY <2>3, <2>6 DEF Bit
    <3>2. Books(d, h) /\ h \in [Streams -> Int]
      BY <2>6
    <3> QED BY <2>2, <2>3, <3>1, <3>2, BooksCut
  <2> QED BY <2>1, <2>2, <2>3, <2>4, <2>5, <2>6
<1>3. PICK p \in [Nat -> D] : p = f(p)
  <2>1. F \in [D -> D]
    <3> HIDE DEF D
    <3> QED BY <1>2
  <2>2. PICK G : G = F
    OBVIOUS
  <2>3. PICK p \in [Nat -> D] : Loop(p, G, c)
    <3> HIDE DEF D, F
    <3> QED BY <1>1, <2>1, <2>2, Solves
  <2>4. \A k \in Nat : k # 0 => p[k - 1] \in D
    <3> HIDE DEF D
    <3> QED BY <2>3
  <2>5. \A k \in Nat : k # 0 => G[p[k - 1]] = IF p[k - 1].que # <<>> THEN giveHead(p[k - 1], S) ELSE p[k - 1]
    <3> HIDE DEF D
    <3> QED BY <2>2, <2>4
  <2>6. p = f(p)
    <3> HIDE DEF D, F
    <3> QED BY <2>3, <2>5 DEF Loop
  <2> QED BY <2>6
<1> DEFINE P == CHOOSE r : r = f(r)
<1>4. P = f(P)
  <2> HIDE DEF f
  <2> QED BY <1>3
<1>5. superbuf_flush(c, S) = P[Len(c.que)]
  BY DEF superbuf_flush, while, repeat, giveHead
<1> HIDE DEF P
<1>6. P[0] = c /\ \A k \in Nat : P[k + 1] = IF P[k].que # <<>> THEN giveHead(P[k], S) ELSE P[k]
  BY <1>4
<1> DEFINE N == {k \in Nat : P[k] \in D /\ (P[k].que = <<>> \/ Len(P[k].que) = Len(c.que) - k)}
<1>7. c.que \in Seq(Node) /\ Len(c.que) \in Nat
  BY LenProperties DEF Sound, Sane, Rough, Channel
<1>8. 0 \in N
  <2> HIDE DEF D
  <2>1. P[0] = c /\ Len(c.que) = Len(c.que) - 0
    BY <1>6, <1>7
  <2> QED BY <1>1, <2>1
<1>9. ASSUME NEW k \in N
      PROVE  k + 1 \in N
  <2>1. k \in Nat /\ P[k] \in D /\ (P[k].que = <<>> \/ Len(P[k].que) = Len(c.que) - k)
    OBVIOUS
  <2>2. k + 1 \in Nat
    BY <2>1
  <2>3. CASE P[k].que # <<>>
    <3>1. P[k + 1] = giveHead(P[k], S)
      BY <1>6, <2>1, <2>3
    <3>2. P[k + 1] \in D /\ Len(P[k + 1].que) = Len(P[k].que) - 1
      <4> HIDE DEF D
      <4> QED BY <1>2, <2>1, <2>3, <3>1
    <3>3. Len(P[k + 1].que) = Len(c.que) - (k + 1)
      BY <1>7, <2>1, <2>3, <3>2
    <3> HIDE DEF D
    <3> QED BY <2>2, <3>2, <3>3
  <2>4. CASE P[k].que = <<>>
    <3>1. P[k + 1] = P[k]
      BY <1>6, <2>1, <2>4
    <3> HIDE DEF D
    <3> QED BY <2>1, <2>2, <2>4, <3>1
  <2> QED BY <2>3, <2>4
<1>10. N = Nat
  <2>1. N \in SUBSET Nat
    OBVIOUS
  <2> HIDE DEF N
  <2> QED BY <1>8, <1>9, <2>1, Reaches
<1>11. PICK e : e = P[Len(c.que)] /\ e \in D /\ (e.que = <<>> \/ Len(e.que) = Len(c.que) - Len(c.que))
  <2> HIDE DEF D
  <2> QED BY <1>7, <1>10
<1>12. e.que = <<>>
  <2>1. e.que \in Seq(Node)
    BY <1>11 DEF Channel
  <2>2. Len(c.que) - Len(c.que) = 0
    BY <1>7
  <2> QED BY <1>11, <2>1, <2>2, EmptySeq
<1> QED BY <1>5, <1>11, <1>12 DEF Sound

-----------------------------------------------------------------------------
(* Sending from the head.                                                     *)

LEMMA AlikeSane ==
  ASSUME NEW c, NEW d, NEW l, Sane(c, l), Alike(c, d)
  PROVE  Sane(d, l)
BY DEF Sane, Rough, Alike, Limits

LEMMA CountSentIs ==
  ASSUME NEW c \in Channel, c.pending > 0
  PROVE  Alike(c, countSent(c)) /\ countSent(c).attr = c.attr
<1>1. PICK n \in Nat : n = c.pending - 1
  BY DEF Channel
<1>2. PICK w \in BOOLEAN : w = (c.wait_prep \/ c.retro = 1)
  OBVIOUS
<1>3. PICK r \in Nat : r = IF c.retro > 0 THEN c.retro - 1 ELSE 0
  BY DEF Channel
<1>4. countSent(c) = [c EXCEPT !.pending = n, !.wait_prep = w, !.retro = r]
  BY <1>1, <1>2, <1>3 DEF countSent
<1>5. [c EXCEPT !.pending = n, !.wait_prep = w, !.retro = r] \in Channel
  BY DEF Channel
<1>6. /\ [c EXCEPT !.pending = n, !.wait_prep = w, !.retro = r].attr = c.attr
      /\ [c EXCEPT !.pending = n, !.wait_prep = w, !.retro = r].que = c.que
      /\ [c EXCEPT !.pending = n, !.wait_prep = w, !.retro = r].match_cnt = c.match_cnt
      /\ [c EXCEPT !.pending = n, !.wait_prep = w, !.retro = r].owed = c.owed
      /\ [c EXCEPT !.pending = n, !.wait_prep = w, !.retro = r].lost = c.lost
      /\ [c EXCEPT !.pending = n, !.wait_prep = w, !.retro = r].sent = c.sent
  BY DEF Channel
<1> QED BY <1>4, <1>5, <1>6 DEF Alike, Limits

LEMMA StopZslIs ==
  ASSUME NEW c \in Channel
  PROVE  Alike(c, stopZsl(c)) /\ stopZsl(c).attr = c.attr
<1>1. stopZsl(c) \in Channel
  BY ZenonT(40) DEF Channel, stopZsl
<1>2. /\ stopZsl(c).attr = c.attr /\ stopZsl(c).que = c.que /\ stopZsl(c).match_cnt = c.match_cnt
      /\ stopZsl(c).owed = c.owed /\ stopZsl(c).lost = c.lost /\ stopZsl(c).sent = c.sent
  BY DEF Channel, stopZsl
<1> QED BY <1>1, <1>2 DEF Alike, Limits

LEMMA SendIs ==
  ASSUME NEW c \in Channel, NEW n \in Node
  PROVE  /\ Limits(c, send_super_buf(c, n))
         /\ send_super_buf(c, n).attr = c.attr
         /\ send_super_buf(c, n).que = c.que
         /\ send_super_buf(c, n).match_cnt = c.match_cnt
         /\ send_super_buf(c, n).sent = n.frame
         /\ \A y \in Streams : send_super_buf(c, n).owed[y] = c.owed[y] - Bit(n.buf[y] # 0)
<1> DEFINE b == leave(c, filled(n))
<1>1. PICK f \in Num : f = n.frame
  BY SuperbufQueueAssumption DEF Node, Frames, Num
<1>2. /\ Limits(c, b) /\ b.attr = c.attr /\ b.que = c.que /\ b.match_cnt = c.match_cnt
      /\ \A y \in Streams : b.owed[y] = c.owed[y] - Bit(y \in filled(n))
  BY LeaveIs
<1>3. send_super_buf(c, n) = [b EXCEPT !.sent = f, !.unlock_aec = FALSE]
  BY <1>1 DEF send_super_buf
<1> HIDE DEF b
<1>4. b \in Channel
  BY <1>2 DEF Limits
<1>5. [b EXCEPT !.sent = f, !.unlock_aec = FALSE] \in Channel
  BY <1>4 DEF Channel
<1>6. /\ [b EXCEPT !.sent = f, !.unlock_aec = FALSE].attr = b.attr
      /\ [b EXCEPT !.sent = f, !.unlock_aec = FALSE].que = b.que
      /\ [b EXCEPT !.sent = f, !.unlock_aec = FALSE].match_cnt = b.match_cnt
      /\ [b EXCEPT !.sent = f, !.unlock_aec = FALSE].owed = b.owed
      /\ [b EXCEPT !.sent = f, !.unlock_aec = FALSE].lost = b.lost
      /\ [b EXCEPT !.sent = f, !.unlock_aec = FALSE].sent = f
  BY <1>4 DEF Channel
<1>7. \A y \in Streams : y \in filled(n) <=> n.buf[y] # 0
  BY DEF filled
<1>8. \A y \in Streams : b.owed[y] = c.owed[y] - Bit(n.buf[y] # 0)
  BY <1>2, <1>7 DEF Bit
<1> QED BY <1>1, <1>2, <1>3, <1>5, <1>6, <1>8 DEF Limits

\* The nodes after a matched head are later than it.
LEMMA LooseSent ==
  ASSUME NEW low, NEW s, NEW l, NEW q, Loose(q, low, s, l),
         NEW r \in Seq(Node), Cut(q, 1, r)
  PROVE  Loose(r, low, q[1].frame, l)
<1>1. Loose(r, low, s, l)
  BY LooseCut
<1>2. Len(q) \in Nat /\ Len(r) \in Nat /\ 1 \in 1 .. Len(q) /\ Len(r) = Len(q) - 1
  BY LenProperties DEF Cut, Loose
<1>3. ASSUME NEW k \in 1 .. Len(r)
      PROVE  Later(r[k], q[1].frame, l)
  <2>1. k + 1 \in 1 .. Len(q) /\ 1 < k + 1 /\ ~(k < 1)
    BY <1>2
  <2>2. r[k] = q[k + 1]
    BY <2>1 DEF Cut
  <2>3. Before(q[1], q[k + 1], l)
    BY <1>2, <2>1 DEF Loose
  <2>4. q[1] \in Node /\ q[k + 1] \in Node
    BY <1>2, <2>1, ElementOfSeq DEF Loose
  <2>5. q[1].frame \in Int /\ q[k + 1].frame \in Int
    BY <2>4, NodeNumbers
  <2> QED BY <2>2, <2>3, <2>5 DEF Before, Later
<1> QED BY <1>1, <1>3 DEF Loose

sendable(d) == (d.pending > 0 \/ ~burst(d)) /\ ~d.wait_prep /\ matchedHead(d)

LEMMA DispatchOne ==
  ASSUME NEW c, NEW h \in [Streams -> Int], NEW l \in Lasts, Sound(c, h, l), sendable(c)
  PROVE  /\ Sound(dispatchOne(c), h, l)
         /\ dispatchOne(c).attr = c.attr
         /\ dispatchOne(c).match_cnt <= c.match_cnt
         /\ dispatchOne(c).sent > c.sent
<1>1. /\ c \in Channel /\ c.que \in Seq(Node) /\ c.que # <<>> /\ Sane(c, l) /\ Books(c, h)
      /\ Loose(c.que, c.attr.low, c.sent, l)
  BY DEF Sound, Sane, Rough, Channel, sendable, matchedHead
<1>2. PICK d : d = dequeue(c)
  OBVIOUS
<1>3. /\ Limits(c, d) /\ d.attr = c.attr /\ d.que = Tail(c.que)
      /\ d.match_cnt = c.match_cnt - Bit(Head(c.que).matched)
      /\ d.sent = c.sent /\ d.owed = c.owed /\ d.pending = c.pending
  BY <1>1, <1>2, DequeueIs
<1>4. Cut(c.que, 1, d.que) /\ Head(c.que) = c.que[1] /\ 1 \in 1 .. Len(c.que) /\ d.que \in Seq(Node)
  BY <1>1, <1>3, TailIs
<1>5. PICK n \in Node : n = Head(c.que) /\ n = c.que[1] /\ n.matched
  BY <1>1, <1>4, ElementOfSeq DEF sendable, matchedHead
<1>6. Sane(d, l)
  <2>1. d.match_cnt = c.match_cnt - Bit(c.que[1].matched)
    BY <1>3, <1>4
  <2>2. Rough(d, l)
    BY <1>1, <1>3, <1>4, <2>1, RoughCut DEF Sane
  <2>3. First(d.que)
    BY <1>1, <1>4, FirstCut DEF Sane
  <2> QED BY <2>2, <2>3 DEF Sane
<1>7. PICK e : /\ e = IF ~burst(c) THEN d
                      ELSE IF zslIsOver(countSent(d)) THEN stopZsl(countSent(d))
                      ELSE countSent(d)
               /\ dispatchOne(c) = send_super_buf(e, n)
  BY <1>2, <1>5 DEF dispatchOne
<1>8. Alike(d, e) /\ e.attr = d.attr
  <2>0. d \in Channel
    BY <1>3 DEF Limits
  <2>1. CASE ~burst(c)
    BY <1>7, <2>0, <2>1, AlikeSelf
  <2>2. CASE burst(c)
    <3>1. d.pending > 0
      BY <1>3, <2>2 DEF sendable
    <3>2. PICK g : g = countSent(d) /\ Alike(d, g) /\ g.attr = d.attr
      BY <2>0, <3>1, CountSentIs
    <3>3. g \in Channel
      BY <3>2 DEF Alike, Limits
    <3>4. PICK z : z = stopZsl(g) /\ Alike(g, z) /\ z.attr = g.attr
      BY <3>3, StopZslIs
    <3>5. Alike(d, z)
      BY <3>2, <3>4, AlikeTrans
    <3>6. e = IF zslIsOver(g) THEN z ELSE g
      BY <1>7, <2>2, <3>2, <3>4
    <3> QED BY <3>2, <3>4, <3>5, <3>6
  <2> QED BY <2>1, <2>2
<1>9. Sane(e, l) /\ e \in Channel
  BY <1>6, <1>8, AlikeSane DEF Alike, Limits
<1>10. PICK r : r = send_super_buf(e, n)
  OBVIOUS
<1>11. /\ Limits(e, r) /\ r.attr = e.attr /\ r.que = e.que /\ r.match_cnt = e.match_cnt /\ r.sent = n.frame
       /\ \A y \in Streams : r.owed[y] = e.owed[y] - Bit(n.buf[y] # 0)
  BY <1>9, <1>10, SendIs
<1>12. Limits(c, r) /\ r.que = d.que /\ r.attr = c.attr /\ r.match_cnt = d.match_cnt
  BY <1>3, <1>8, <1>11 DEF Limits, Alike
<1>13. Fits(n, c.attr.low, l) /\ Later(n, c.sent, l)
  BY <1>1, <1>4, <1>5 DEF Loose
<1>14. \A y \in Streams : n.buf[y] # 0
  BY <1>5, <1>13 DEF Fits
<1>15. n.frame > c.sent
  BY <1>13, <1>14 DEF Later, Doomed, Others
<1>16. \A y \in Streams : n.frame <= l[y]
  <2> TAKE y \in Streams
  <2>1. n.buf[y] # 0 /\ n.buf[y] <= l[y]
    BY <1>13, <1>14 DEF Fits
  <2>2. n.frame \in Int /\ n.buf[y] \in Int /\ l[y] \in Int
    BY SuperbufQueueAssumption DEF Node, Frames, Lasts
  <2>3. CASE y = Meta
    BY <1>13, <2>1, <2>2, <2>3 DEF Fits
  <2>4. CASE y # Meta
    BY <1>13, <2>1, <2>2, <2>4 DEF Fits, Others
  <2> QED BY <2>3, <2>4
<1>17. Loose(r.que, r.attr.low, r.sent, l)
  <2>1. Loose(d.que, c.attr.low, n.frame, l)
    BY <1>1, <1>4, <1>5, LooseSent
  <2> QED BY <1>11, <1>12, <2>1
<1>18. Sane(r, l)
  <2>1. First(r.que) /\ r \in Channel
    BY <1>6, <1>12 DEF Sane, Limits
  <2>2. r.match_cnt = Hits(r.que, Matched) /\ Hits(r.que, Unmatched) <= r.attr.max_unmatched + 1
    BY <1>3, <1>6, <1>12 DEF Sane, Rough
  <2> QED BY <1>11, <1>16, <1>17, <2>1, <2>2 DEF Sane, Rough
<1>19. Books(r, h)
  <2>1. Cut(c.que, 1, r.que)
    BY <1>4, <1>12
  <2>2. \A y \in Streams : r.owed[y] = c.owed[y] - Bit(c.que[1].buf[y] # 0)
    BY <1>3, <1>5, <1>8, <1>11 DEF Alike
  <2> QED BY <1>1, <1>12, <2>1, <2>2, BooksCut
<1>20. r.match_cnt <= c.match_cnt
  <2>1. c.match_cnt \in Int
    BY <1>1 DEF Channel
  <2> QED BY <1>3, <1>12, <2>1 DEF Bit
<1> QED BY <1>7, <1>10, <1>11, <1>12, <1>15, <1>18, <1>19, <1>20 DEF Sound

LEMMA Dispatch ==
  ASSUME NEW c, NEW h \in [Streams -> Int], NEW l \in Lasts, Sound(c, h, l)
  PROVE  /\ Sound(dispatch(c), h, l)
         /\ dispatch(c).attr = c.attr
         /\ dispatch(c).match_cnt <= c.match_cnt
         /\ dispatch(c).sent >= c.sent
<1> DEFINE D == {d \in Channel : /\ Sound(d, h, l) /\ d.attr = c.attr
                                 /\ d.match_cnt <= c.match_cnt /\ d.sent >= c.sent}
           F == [d \in D |-> IF sendable(d) THEN dispatchOne(d) ELSE d]
           f(p) == [k \in Nat |-> IF k = 0 THEN c ELSE IF sendable(p[k - 1]) THEN dispatchOne(p[k - 1]) ELSE p[k - 1]]
<1>0. c \in Channel /\ c.match_cnt \in Int /\ c.sent \in Int
  <2>1. c \in Channel
    BY DEF Sound, Sane, Rough
  <2>2. c.match_cnt \in Int
    BY <2>1 DEF Channel
  <2> QED BY <2>1, <2>2, ChannelNumbers
<1>1. c \in D
  BY <1>0
<1>2. ASSUME NEW d \in D, sendable(d)
      PROVE  dispatchOne(d) \in D
  <2>1. d \in Channel /\ Sound(d, h, l) /\ d.attr = c.attr /\ d.match_cnt <= c.match_cnt /\ d.sent >= c.sent
    OBVIOUS
  <2>2. PICK e : e = dispatchOne(d)
    OBVIOUS
  <2>3. Sound(e, h, l) /\ e.attr = d.attr /\ e.match_cnt <= d.match_cnt /\ e.sent > d.sent
    BY <1>2, <2>1, <2>2, DispatchOne
  <2>4. e \in Channel
    BY <2>3 DEF Sound, Sane, Rough
  <2>5. d.match_cnt \in Int /\ e.match_cnt \in Int /\ d.sent \in Int /\ e.sent \in Int
    <3>1. d.match_cnt \in Int /\ e.match_cnt \in Int
      BY <2>1, <2>4 DEF Channel
    <3> QED BY <2>1, <2>4, <3>1, ChannelNumbers
  <2>6. e.match_cnt <= c.match_cnt /\ e.sent >= c.sent
    BY <1>0, <2>1, <2>3, <2>5
  <2> QED BY <2>1, <2>2, <2>3, <2>4, <2>6
<1>3. PICK p \in [Nat -> D] : p = f(p)
  <2>1. F \in [D -> D]
    <3> HIDE DEF D
    <3> QED BY <1>2
  <2>2. PICK G : G = F
    OBVIOUS
  <2>3. PICK p \in [Nat -> D] : Loop(p, G, c)
    <3> HIDE DEF D, F
    <3> QED BY <1>1, <2>1, <2>2, Solves
  <2>4. \A k \in Nat : k # 0 => p[k - 1] \in D
    <3> HIDE DEF D
    <3> QED BY <2>3
  <2>5. \A k \in Nat : k # 0 => G[p[k - 1]] = IF sendable(p[k - 1]) THEN dispatchOne(p[k - 1]) ELSE p[k - 1]
    <3> HIDE DEF D
    <3> QED BY <2>2, <2>4
  <2>6. p = f(p)
    <3> HIDE DEF D, F
    <3> QED BY <2>3, <2>5 DEF Loop
  <2> QED BY <2>6
<1> DEFINE P == CHOOSE r : r = f(r)
<1>4. P = f(P)
  <2> HIDE DEF f
  <2> QED BY <1>3
<1>5. dispatch(c) = P[Len(c.que)]
  BY DEF dispatch, while, repeat, sendable
<1> HIDE DEF P
<1>6. P[0] = c /\ \A k \in Nat : P[k + 1] = IF sendable(P[k]) THEN dispatchOne(P[k]) ELSE P[k]
  BY <1>4
<1> DEFINE N == {k \in Nat : P[k] \in D}
<1>7. c.que \in Seq(Node) /\ Len(c.que) \in Nat
  BY LenProperties DEF Sound, Sane, Rough, Channel
<1>8. N = Nat
  <2>1. 0 \in N /\ N \in SUBSET Nat
    <3> HIDE DEF D
    <3> QED BY <1>1, <1>6
  <2>2. \A k \in N : k + 1 \in N
    <3> HIDE DEF D
    <3> QED BY <1>2, <1>6
  <2> HIDE DEF N
  <2> QED BY <2>1, <2>2, Reaches
<1>9. P[Len(c.que)] \in D
  <2> HIDE DEF D
  <2> QED BY <1>7, <1>8
<1> QED BY <1>5, <1>9

-----------------------------------------------------------------------------
(* The metadata: settings change and matched superbufs, or all, are dropped.  *)

GoodNews == [min : Num, max : Num, skip : Num]

News == [prep : {"none", "future", "done"}, crop1x : BOOLEAN, settled : BOOLEAN,
         good : SUBSET GoodNews, divert : SUBSET Num]

LEMMA FrameIs ==
  ASSUME NEW n \in Nat
  PROVE  Frame(n) \in Num
BY SuperbufQueueAssumption DEF Frame, Num

LEMMA TheIs ==
  ASSUME NEW S, S # {}
  PROVE  The(S) \in S
BY DEF The

LEMMA FutureIs ==
  ASSUME NEW c \in Channel
  PROVE  Frame(c.expected + FutureWait) \in Num
<1>1. c.expected + FutureWait \in Nat
  BY ChannelNumbers, SuperbufQueueAssumption
<1> QED BY <1>1, FrameIs

\* One setting changes.
LEMMA ExpectedSet ==
  ASSUME NEW c \in Channel, NEW e \in Num
  PROVE  Alike(c, [c EXCEPT !.expected = e]) /\ [c EXCEPT !.expected = e].attr = c.attr
<1>1. [c EXCEPT !.expected = e] \in Channel
  BY DEF Channel
<1> QED BY <1>1 DEF Channel, Alike, Limits

LEMMA DivertedSet ==
  ASSUME NEW c \in Channel, NEW e \in Num
  PROVE  Alike(c, [c EXCEPT !.diverted = e]) /\ [c EXCEPT !.diverted = e].attr = c.attr
<1>1. [c EXCEPT !.diverted = e] \in Channel
  BY DEF Channel
<1> QED BY <1>1 DEF Channel, Alike, Limits

LEMMA DivertIs ==
  ASSUME NEW c \in Channel, NEW f \in Frames, NEW md \in News
  PROVE  Alike(c, divert(c, f, md))
<1>1. CASE md.divert = {}
  BY <1>1, AlikeSelf DEF divert
<1>2. CASE md.divert # {}
  <2>1. md.divert \subseteq Num
    BY DEF News
  <2>2. The(md.divert) \in Num
    BY <1>2, <2>1, TheIs
  <2>3. PICK e \in Num : e = IF The(md.divert) >= f THEN The(md.divert) ELSE 0
    BY <2>2, SuperbufQueueAssumption DEF Num
  <2>4. divert(c, f, md) = [c EXCEPT !.diverted = e]
    BY <1>2, <2>3 DEF divert
  <2> QED BY <2>4, DivertedSet
<1> QED BY <1>1, <1>2

LEMMA Zoom1x ==
  ASSUME NEW c, NEW h \in [Streams -> Int], NEW l, Sound(c, h, l), NEW f \in Frames, NEW md
  PROVE  Sound(zoom1x(c, f, md), h, l) /\ zoom1x(c, f, md).sent = c.sent
<1>0. c \in Channel
  BY DEF Sound, Sane, Rough
<1>1. CASE md.crop1x
  <2>1. PICK e \in Num : e = f + 1
    BY SuperbufQueueAssumption DEF Num, Frames
  <2>2. zoom1x(c, f, md) = [c EXCEPT !.zoom1x = FALSE, !.expected = e]
    BY <1>1, <2>1 DEF zoom1x
  <2>3. [c EXCEPT !.zoom1x = FALSE, !.expected = e] \in Channel
    BY <1>0 DEF Channel
  <2>4. Alike(c, [c EXCEPT !.zoom1x = FALSE, !.expected = e])
    BY <1>0, <2>3 DEF Channel, Alike, Limits
  <2>5. Alike(c, zoom1x(c, f, md))
    BY <2>2, <2>4
  <2> QED BY <2>5, AlikeSound DEF Alike
<1>2. CASE ~md.crop1x
  <2>1. PICK e \in Num : e = Frame(c.expected + FutureWait)
    BY <1>0, FutureIs
  <2>2. PICK d : d = [c EXCEPT !.expected = e] /\ Alike(c, d)
    BY <1>0, ExpectedSet
  <2>3. zoom1x(c, f, md) = superbuf_flush_matched(d)
    BY <1>2, <2>1, <2>2 DEF zoom1x
  <2>4. Sound(d, h, l)
    BY <2>2, AlikeSound
  <2>5. Sound(superbuf_flush_matched(d), h, l) /\ superbuf_flush_matched(d).sent = d.sent
    BY <2>4, FlushMatched
  <2> QED BY <2>2, <2>3, <2>5 DEF Alike
<1> QED BY <1>1, <1>2

LEMMA PrepDone ==
  ASSUME NEW c, NEW h \in [Streams -> Nat], NEW l, Sound(c, h, l), NEW md \in News
  PROVE  Sound(prepSnapshotDone(c, md), h, l) /\ prepSnapshotDone(c, md).sent = c.sent
<1>0. c \in Channel /\ md.prep \in {"none", "future", "done"}
  BY DEF Sound, Sane, Rough, News
<1>1. CASE md.prep = "none"
  BY <1>1 DEF prepSnapshotDone
<1>2. CASE md.prep = "future"
  <2>1. PICK e \in Num : e = Frame(c.expected + FutureWait)
    BY <1>0, FutureIs
  <2>2. PICK d : d = [c EXCEPT !.wait_prep = FALSE, !.need_led = TRUE, !.expected = e]
    OBVIOUS
  <2>3. d \in Channel
    BY <1>0, <2>2 DEF Channel
  <2>4. Alike(c, d)
    BY <1>0, <2>2, <2>3 DEF Channel, Alike, Limits
  <2>5. prepSnapshotDone(c, md) = superbuf_flush(d, Streams)
    BY <1>2, <2>1, <2>2 DEF prepSnapshotDone
  <2>6. Sound(d, h, l)
    BY <2>4, AlikeSound
  <2>7. Sound(superbuf_flush(d, Streams), h, l) /\ superbuf_flush(d, Streams).sent = d.sent
    BY <2>6, Flush
  <2> QED BY <2>4, <2>5, <2>7 DEF Alike
<1>3. CASE md.prep = "done"
  <2>1. PICK d : d = [c EXCEPT !.wait_prep = FALSE, !.need_led = FALSE]
    OBVIOUS
  <2>2. d \in Channel
    BY <1>0, <2>1 DEF Channel
  <2>3. Alike(c, d)
    BY <1>0, <2>1, <2>2 DEF Channel, Alike, Limits
  <2>4. prepSnapshotDone(c, md) = d
    BY <1>3, <2>1 DEF prepSnapshotDone
  <2> QED BY <2>3, <2>4, AlikeSound DEF Alike
<1> QED BY <1>0, <1>1, <1>2, <1>3

LEMMA GoodFrame ==
  ASSUME NEW c, NEW h \in [Streams -> Int], NEW l, Sound(c, h, l), NEW md \in News
  PROVE  Sound(goodFrame(c, md), h, l) /\ goodFrame(c, md).sent = c.sent
<1>0. c \in Channel
  BY DEF Sound, Sane, Rough
<1>1. CASE md.good # {}
  <2>1. md.good \subseteq GoodNews
    BY DEF News
  <2>2. The(md.good) \in GoodNews
    BY <1>1, <2>1, TheIs
  <2>3. PICK g \in GoodNews : g = The(md.good)
    BY <2>2
  <2>4. g.min \in Num /\ g.max \in Num /\ g.skip \in Num
    BY DEF GoodNews
  <2>5. PICK r : r = [c EXCEPT !.expected = g.min, !.good = g.min]
    OBVIOUS
  <2>6. r \in Channel
    BY <1>0, <2>4, <2>5 DEF Channel
  <2>7. Alike(c, r)
    BY <1>0, <2>5, <2>6 DEF Channel, Alike, Limits
  <2>8. PICK s : s = [r EXCEPT !.led_off = g.max, !.led_skip = g.skip, !.once = FALSE]
    OBVIOUS
  <2>9. s \in Channel
    BY <2>4, <2>6, <2>8 DEF Channel
  <2>10. Alike(r, s)
    BY <2>6, <2>8, <2>9 DEF Channel, Alike, Limits
  <2>11. PICK d : d = IF c.need_led /\ c.burst_num > 1 THEN s ELSE r
    OBVIOUS
  <2>12. Alike(c, d) /\ d \in Channel
    BY <2>6, <2>7, <2>9, <2>10, <2>11, AlikeTrans
  <2>13. PICK v : v = [d EXCEPT !.without_led = g.max]
    OBVIOUS
  <2>14. v \in Channel
    BY <2>4, <2>12, <2>13 DEF Channel
  <2>15. Alike(d, v)
    BY <2>12, <2>13, <2>14 DEF Channel, Alike, Limits
  <2>16. PICK w : w = [d EXCEPT !.bracketing = "ACTIVE"]
    OBVIOUS
  <2>17. w \in Channel
    BY <2>12, <2>16 DEF Channel
  <2>18. Alike(d, w)
    BY <2>12, <2>16, <2>17 DEF Channel, Alike, Limits
  <2>19. goodFrame(c, md) = IF d.flash_br THEN v ELSE w
    BY <1>1, <2>3, <2>5, <2>8, <2>11, <2>13, <2>16 DEF goodFrame
  <2>20. Alike(c, v) /\ Alike(c, w)
    BY <2>12, <2>15, <2>18, AlikeTrans
  <2>21. Alike(c, goodFrame(c, md))
    BY <2>19, <2>20
  <2> QED BY <2>21, AlikeSound DEF Alike
<1>2. CASE md.good = {} /\ c.bracketing = "WAIT_GOOD_FRAME_IDX" /\ md.prep = "none"
  <2>1. PICK d : d = superbuf_flush_matched(c) /\ Sound(d, h, l) /\ d.sent = c.sent
    BY FlushMatched
  <2>2. d \in Channel
    BY <2>1 DEF Sound, Sane, Rough
  <2>3. PICK e \in Num : e = Frame(d.expected + FutureWait)
    BY <2>2, FutureIs
  <2>4. goodFrame(c, md) = [d EXCEPT !.expected = e]
    BY <1>2, <2>1, <2>3 DEF goodFrame
  <2>5. PICK z : z = [d EXCEPT !.expected = e] /\ Alike(d, z)
    BY <2>2, ExpectedSet
  <2> QED BY <2>1, <2>4, <2>5, AlikeSound DEF Alike
<1>3. CASE md.good = {} /\ ~(c.bracketing = "WAIT_GOOD_FRAME_IDX" /\ md.prep = "none")
  BY <1>3 DEF goodFrame
<1> QED BY <1>1, <1>2, <1>3

LEMMA LedBurstIs ==
  ASSUME NEW c \in Channel, NEW f
  PROVE  Alike(c, ledBurst(c, f))
<1>1. c.led_off + c.led_skip \in Nat
  BY ChannelNumbers
<1>2. PICK e \in Num : e = Frame(c.led_off + c.led_skip)
  BY <1>1, FrameIs
<1>3. PICK d : d = [c EXCEPT !.expected = e, !.once = TRUE, !.stop_zsl = TRUE, !.need_led = FALSE]
  OBVIOUS
<1>4. d \in Channel
  BY <1>3 DEF Channel
<1>5. Alike(c, d)
  BY <1>3, <1>4 DEF Channel, Alike, Limits
<1>6. ledBurst(c, f) = d \/ ledBurst(c, f) = c
  BY <1>2, <1>3 DEF ledBurst
<1> QED BY <1>5, <1>6, AlikeSelf

LEMMA InstantIs ==
  ASSUME NEW c \in Channel, NEW f \in Frames, NEW md
  PROVE  Alike(c, instantCapture(c, f, md))
<1>1. c.attr \in Attributes /\ f \in Num /\ 0 \in Num
  BY ChannelNumbers, NumIs
<1>2. PICK a : a = [c.attr EXCEPT !.user_expected = 0]
  OBVIOUS
<1>3. a \in Attributes /\ a.low = c.attr.low /\ a.max_unmatched = c.attr.max_unmatched
  BY <1>1, <1>2 DEF Attributes
<1>4. PICK d : d = [c EXCEPT !.attr = a]
  OBVIOUS
<1>5. PICK e : e = [c EXCEPT !.expected = f, !.attr = a]
  OBVIOUS
<1>6. d \in Channel
  BY <1>3, <1>4 DEF Channel
<1>7. e \in Channel
  BY <1>1, <1>3, <1>5 DEF Channel
<1>8. Alike(c, d)
  BY <1>3, <1>4, <1>6 DEF Channel, Alike, Limits
<1>9. Alike(c, e)
  BY <1>3, <1>5, <1>7 DEF Channel, Alike, Limits
<1>10. [c EXCEPT !.attr.user_expected = 0] = d
  BY <1>2, <1>4
<1>11. [c EXCEPT !.expected = f, !.attr.user_expected = 0] = e
  BY <1>2, <1>5
<1>12. instantCapture(c, f, md) \in {c, d, e}
  BY <1>10, <1>11 DEF instantCapture
<1> QED BY <1>8, <1>9, <1>12, AlikeSelf

LEMMA Handled ==
  ASSUME NEW c, NEW h \in [Streams -> Nat], NEW l, Sound(c, h, l),
         NEW x, NEW f \in Frames, NEW md \in News
  PROVE  Sound(handle_metadata(c, x, f, md), h, l) /\ handle_metadata(c, x, f, md).sent = c.sent
<1>1. c \in Channel /\ h \in [Streams -> Int]
  BY DEF Sound, Sane, Rough
<1>2. PICK d : d = divert(c, f, md) /\ Alike(c, d)
  BY <1>1, DivertIs
<1>3. Sound(d, h, l) /\ d.sent = c.sent
  BY <1>2, AlikeSound DEF Alike
<1>4. CASE x # Meta
  BY <1>2, <1>4 DEF handle_metadata
<1>5. CASE x = Meta /\ d.zoom1x
  <2>1. handle_metadata(c, x, f, md) = zoom1x(d, f, md)
    BY <1>2, <1>5 DEF handle_metadata
  <2>2. Sound(zoom1x(d, f, md), h, l) /\ zoom1x(d, f, md).sent = d.sent
    BY <1>1, <1>3, Zoom1x
  <2> QED BY <1>3, <2>1, <2>2
<1>6. CASE x = Meta /\ ~d.zoom1x
  <2>1. PICK p : p = prepSnapshotDone(d, md) /\ Sound(p, h, l) /\ p.sent = d.sent
    BY <1>3, PrepDone
  <2>2. PICK g : g = goodFrame(p, md) /\ Sound(g, h, l) /\ g.sent = p.sent
    BY <1>1, <2>1, GoodFrame
  <2>3. g \in Channel
    BY <2>2 DEF Sound, Sane, Rough
  <2>4. PICK b : b = ledBurst(g, f) /\ Alike(g, b)
    BY <2>3, LedBurstIs
  <2>5. b \in Channel
    BY <2>4 DEF Alike, Limits
  <2>6. PICK i : i = instantCapture(b, f, md) /\ Alike(b, i)
    BY <2>5, InstantIs
  <2>7. handle_metadata(c, x, f, md) = i
    BY <1>2, <1>6, <2>1, <2>2, <2>4, <2>6 DEF handle_metadata
  <2>8. Alike(g, i)
    BY <2>4, <2>6, AlikeTrans
  <2> QED BY <1>3, <2>1, <2>2, <2>7, <2>8, AlikeSound DEF Alike
<1> QED BY <1>4, <1>5, <1>6

-----------------------------------------------------------------------------
(* Frame f of stream x arrives, later than all of x before.                   *)

\* A full node is no later than any stream and not doomed.
LEMMA FullNode ==
  ASSUME NEW n \in Node, NEW low, NEW l \in Lasts, Fits(n, low, l), \A y \in Streams : n.buf[y] # 0
  PROVE  ~Doomed(n, l) /\ \A y \in Streams : n.frame <= l[y]
<1>1. ~Doomed(n, l)
  BY DEF Doomed, Others
<1>2. ASSUME NEW y \in Streams
      PROVE  n.frame <= l[y]
  <2>1. n.buf[y] # 0 /\ n.buf[y] <= l[y]
    BY DEF Fits
  <2>2. n.frame \in Int /\ n.buf[y] \in Int /\ l[y] \in Int
    BY NodeNumbers, SuperbufQueueAssumption DEF Lasts
  <2>3. CASE y = Meta
    BY <2>1, <2>2, <2>3 DEF Fits
  <2>4. CASE y # Meta
    BY <2>1, <2>2, <2>4 DEF Fits, Others
  <2> QED BY <2>3, <2>4
<1> QED BY <1>1, <1>2

\* m is l after the arrival.
Arrives(l, x, f, m) ==
  /\ l \in Lasts /\ m \in Lasts
  /\ x \in Streams /\ f \in Frames
  /\ f > l[x]
  /\ m = [l EXCEPT ![x] = f]

LEMMA ArrivesIs ==
  ASSUME NEW l, NEW x, NEW f, NEW m, Arrives(l, x, f, m)
  PROVE  /\ l \in Lasts /\ m \in Lasts /\ x \in Streams /\ f \in Nat /\ f # 0 /\ f \in 0 .. MaxFrame
         /\ m[x] = f /\ l[x] < f
         /\ \A y \in Streams : l[y] \in Nat /\ m[y] \in Nat /\ l[y] <= m[y] /\ (y # x => m[y] = l[y])
<1>1. /\ l \in Lasts /\ m \in Lasts /\ x \in Streams /\ f \in Frames /\ f > l[x]
      /\ m = [l EXCEPT ![x] = f]
  BY DEF Arrives
<1>2. f \in Nat /\ f # 0 /\ f \in 0 .. MaxFrame
  BY <1>1, SuperbufQueueAssumption DEF Frames
<1>3. \A y \in Streams : l[y] \in Nat /\ m[y] \in Nat
  BY <1>1, SuperbufQueueAssumption DEF Lasts
<1>4. \A y \in Streams : m[y] = IF y = x THEN f ELSE l[y]
  BY <1>1 DEF Lasts
<1> QED BY <1>1, <1>2, <1>3, <1>4

\* k is the node n with frame f of stream x.
Takes(n, k, x, f) ==
  /\ k \in Node
  /\ k.umi = 0
  /\ k.frame = IF n.umi > 0 THEN f ELSE n.frame
  /\ k.buf = [n.buf EXCEPT ![x] = f]
  /\ k.matched <=> \A y \in Streams : k.buf[y] # 0

LEMMA TakenNode ==
  ASSUME NEW l, NEW x, NEW f, NEW m, Arrives(l, x, f, m), NEW c, NEW n \in Node, NEW k,
         Fits(n, c.attr.low, l), takes(c, n, x, f)
  PROVE  /\ n.buf[x] = 0
         /\ Takes(n, k, x, f) =>
              /\ Fits(k, c.attr.low, m)
              /\ k.frame <= n.frame
              /\ k.frame <= f
              /\ n.umi = 0 => k.frame = n.frame /\ (Doomed(n, l) => Doomed(k, m))
              /\ n.umi # 0 => c.attr.low /\ x # Meta /\ k.frame = f /\ \A y \in Others : y # x => k.buf[y] = 0
<1>1. /\ l \in Lasts /\ m \in Lasts /\ x \in Streams /\ f \in Nat /\ f # 0
      /\ m[x] = f /\ l[x] < f
      /\ \A y \in Streams : l[y] \in Nat /\ m[y] \in Nat /\ l[y] <= m[y] /\ (y # x => m[y] = l[y])
  BY ArrivesIs
<1>2. n.frame \in Nat /\ n.umi \in Nat /\ \A y \in Streams : n.buf[y] \in Nat
  BY NodeNumbers
<1>3. n.buf[x] <= l[x] /\ n.buf[x] < f
  BY <1>1, <1>2 DEF Fits
<1>4. n.buf[x] = 0
  <2>1. CASE n.frame = f /\ x = Meta
    BY <1>1, <1>2, <1>3, <2>1 DEF Fits
  <2>2. CASE n.frame = f /\ x # Meta
    BY <1>1, <1>2, <1>3, <2>2 DEF Fits, Others
  <2> QED BY <2>1, <2>2 DEF takes
<1>5. x = Meta => n.umi = 0
  BY <1>2, <1>4 DEF Fits
<1>6. n.umi # 0 => c.attr.low /\ x # Meta /\ f <= n.frame /\ n.buf[Meta] = n.umi /\ n.umi = n.frame /\ \A y \in Others : n.buf[y] = 0
  BY <1>1, <1>2, <1>5 DEF takes, Fits
<1>7. n.umi = 0 => n.frame <= f /\ (x # Meta => n.frame = f)
  BY <1>1, <1>2 DEF takes
<1> SUFFICES ASSUME Takes(n, k, x, f)
             PROVE  /\ Fits(k, c.attr.low, m)
                    /\ k.frame <= n.frame
                    /\ k.frame <= f
                    /\ n.umi = 0 => k.frame = n.frame /\ (Doomed(n, l) => Doomed(k, m))
                    /\ n.umi # 0 => c.attr.low /\ x # Meta /\ k.frame = f /\ \A y \in Others : y # x => k.buf[y] = 0
  BY <1>4
<1>8. /\ k \in Node /\ k.umi = 0
      /\ k.frame = IF n.umi > 0 THEN f ELSE n.frame
      /\ \A y \in Streams : k.buf[y] = IF y = x THEN f ELSE n.buf[y]
      /\ k.matched <=> \A y \in Streams : k.buf[y] # 0
  BY DEF Takes, Node
<1>9. /\ k.frame <= n.frame /\ k.frame <= f
      /\ n.umi = 0 => k.frame = n.frame
      /\ n.umi # 0 => k.frame = f
  BY <1>1, <1>2, <1>6, <1>7, <1>8
<1>10. Meta \in Streams /\ Others \subseteq Streams /\ \A y \in Others : y # Meta
  BY SuperbufQueueAssumption DEF Others
<1>11. Fits(k, c.attr.low, m)
  <2>1. \E y \in Streams : k.buf[y] # 0
    BY <1>1, <1>8
  <2>2. \A y \in Others : k.buf[y] \in {0, k.frame}
    <3> TAKE y \in Others
    <3>1. CASE n.umi # 0
      BY <1>6, <1>8, <1>9, <1>10, <3>1
    <3>2. CASE n.umi = 0 /\ y = x
      BY <1>7, <1>8, <1>9, <1>10, <3>2
    <3>3. CASE n.umi = 0 /\ y # x
      BY <1>8, <1>9, <1>10, <3>3 DEF Fits
    <3> QED BY <3>1, <3>2, <3>3
  <2>3. k.buf[Meta] # 0 => k.frame <= k.buf[Meta]
    <3>1. CASE x = Meta
      BY <1>1, <1>8, <1>9, <1>10, <3>1
    <3>2. CASE x # Meta /\ n.umi # 0
      BY <1>2, <1>6, <1>8, <1>9, <1>10, <3>2
    <3>3. CASE x # Meta /\ n.umi = 0
      BY <1>8, <1>9, <1>10, <3>3 DEF Fits
    <3> QED BY <3>1, <3>2, <3>3
  <2>4. \A y \in Streams : k.buf[y] <= m[y]
    BY <1>1, <1>2, <1>8 DEF Fits
  <2>5. c.attr.low => \E y \in Others : k.buf[y] # 0
    <3>1. CASE x # Meta
      <4>1. x \in Others
        BY <1>1, <3>1 DEF Others
      <4> QED BY <1>1, <1>8, <4>1
    <3>2. CASE x = Meta
      BY <1>5, <1>8, <1>10, <3>2 DEF Fits
    <3> QED BY <3>1, <3>2
  <2> QED BY <1>8, <2>1, <2>2, <2>3, <2>4, <2>5 DEF Fits
<1>12. ASSUME n.umi = 0, Doomed(n, l)
       PROVE  Doomed(k, m)
  <2>1. PICK y \in Others : n.buf[y] = 0 /\ n.frame <= l[y]
    BY <1>12 DEF Doomed
  <2>2. y # x
    BY <1>1, <1>2, <1>7, <1>10, <1>12, <2>1
  <2>3. k.buf[y] = 0 /\ k.frame <= m[y]
    BY <1>1, <1>2, <1>8, <1>9, <1>10, <1>12, <2>1, <2>2
  <2> QED BY <1>8, <2>3 DEF Doomed
<1>13. n.umi # 0 => \A y \in Others : y # x => k.buf[y] = 0
  BY <1>6, <1>8, <1>10
<1> QED BY <1>6, <1>9, <1>11, <1>12, <1>13

\* What comes before the first node that takes the frame still does.
LEMMA TakenBefore ==
  ASSUME NEW l, NEW x, NEW f, NEW m, Arrives(l, x, f, m), NEW c, NEW n \in Node, NEW k,
         Fits(n, c.attr.low, l), takes(c, n, x, f), Takes(n, k, x, f),
         NEW b \in Node, Fits(b, c.attr.low, l), Before(b, n, l), ~takes(c, b, x, f)
  PROVE  /\ Before(b, k, m)
         /\ k.matched => b.frame < f
<1>1. /\ l \in Lasts /\ m \in Lasts /\ x \in Streams /\ f \in Nat /\ f # 0
      /\ m[x] = f /\ l[x] < f
      /\ \A y \in Streams : l[y] \in Nat /\ m[y] \in Nat /\ l[y] <= m[y] /\ (y # x => m[y] = l[y])
  BY ArrivesIs
<1>2. /\ Fits(k, c.attr.low, m)
      /\ k.frame <= n.frame
      /\ k.frame <= f
      /\ n.umi = 0 => k.frame = n.frame /\ (Doomed(n, l) => Doomed(k, m))
      /\ n.umi # 0 => c.attr.low /\ x # Meta /\ k.frame = f /\ \A y \in Others : y # x => k.buf[y] = 0
  BY TakenNode
<1>3. b.frame \in Nat /\ b.umi \in Nat /\ (\A y \in Streams : b.buf[y] \in Nat) /\ n.frame \in Nat /\ n.umi \in Nat
  BY NodeNumbers
<1>4. k \in Node /\ k.umi = 0 /\ k.frame \in Nat /\ (k.matched => \A y \in Streams : k.buf[y] # 0)
  BY NodeNumbers DEF Takes
<1>5. Before(b, k, m)
  <2>1. CASE n.umi = 0
    BY <1>2, <2>1 DEF Before
  <2>2. CASE n.umi # 0
    <3>0. c.attr.low /\ x # Meta /\ k.frame = f /\ x \in Others
      BY <1>1, <1>2, <2>2 DEF Others
    <3>1. CASE b.buf[x] # 0
      <4>1. b.frame <= l[x]
        BY <3>0, <3>1, <1>1 DEF Fits
      <4> QED BY <1>1, <1>3, <3>0, <4>1 DEF Before
    <3>2. CASE b.buf[x] = 0
      <4>1. ~b.matched
        BY <1>1, <3>2 DEF Fits
      <4>2. b.frame # f /\ ~(b.umi > f)
        BY <3>0, <3>2, <4>1 DEF takes
      <4>3. CASE b.umi # 0
        <5>1. b.umi = b.frame
          BY <4>3 DEF Fits
        <5> QED BY <1>1, <1>3, <3>0, <4>2, <5>1 DEF Before
      <4>4. CASE b.umi = 0
        <5>1. PICK y \in Others : b.buf[y] # 0
          BY <3>0, <4>4 DEF Fits
        <5>2. y # x /\ y \in Streams
          BY <3>2, <5>1 DEF Others
        <5>3. b.frame <= l[y]
          BY <5>1, <5>2 DEF Fits
        <5>4. CASE b.frame < f
          BY <3>0, <5>4 DEF Before
        <5>5. CASE f < b.frame
          <6>1. k.buf[y] = 0
            BY <1>2, <2>2, <5>2
          <6>2. k.frame <= m[y]
            BY <1>1, <1>3, <3>0, <5>2, <5>3, <5>5
          <6> QED BY <1>4, <6>1, <6>2 DEF Before, Doomed
        <5> QED BY <1>1, <1>3, <4>2, <5>4, <5>5
      <4> QED BY <4>3, <4>4
    <3> QED BY <3>1, <3>2
  <2> QED BY <2>1, <2>2
<1>6. ASSUME k.matched
      PROVE  b.frame < f
  <2>1. ~Doomed(k, m)
    BY <1>4, <1>6 DEF Doomed, Others
  <2>2. b.frame < k.frame
    BY <1>5, <2>1 DEF Before
  <2> QED BY <1>1, <1>2, <1>3, <1>4, <2>2
<1> QED BY <1>5, <1>6

-----------------------------------------------------------------------------
(* Nodes are taken out, replaced and put in.                                  *)

LEMMA QueSet ==
  ASSUME NEW c \in Channel, NEW q \in Seq(Node)
  PROVE  /\ Limits(c, [c EXCEPT !.que = q])
         /\ [c EXCEPT !.que = q].attr = c.attr
         /\ [c EXCEPT !.que = q].que = q
         /\ [c EXCEPT !.que = q].match_cnt = c.match_cnt
         /\ [c EXCEPT !.que = q].owed = c.owed
         /\ [c EXCEPT !.que = q].sent = c.sent
<1>1. [c EXCEPT !.que = q] \in Channel
  BY DEF Channel
<1> QED BY <1>1 DEF Channel, Limits

LEMMA RemoveIs ==
  ASSUME NEW c \in Channel, NEW i \in 1 .. Len(c.que)
  PROVE  /\ Limits(c, remove(c, i))
         /\ remove(c, i).attr = c.attr
         /\ Cut(c.que, i, remove(c, i).que)
         /\ remove(c, i).match_cnt = c.match_cnt
         /\ remove(c, i).sent = c.sent
         /\ \A y \in Streams : remove(c, i).owed[y] = c.owed[y] - Bit(c.que[i].buf[y] # 0)
<1>1. PICK b : b = leave(c, filled(c.que[i]))
  OBVIOUS
<1>2. /\ Limits(c, b) /\ b.attr = c.attr /\ b.que = c.que /\ b.match_cnt = c.match_cnt /\ b.sent = c.sent
      /\ \A y \in Streams : b.owed[y] = c.owed[y] - Bit(y \in filled(c.que[i]))
  BY <1>1, LeaveIs
<1>3. c.que \in Seq(Node)
  BY DEF Channel
<1>4. PICK q \in Seq(Node) : q = RemoveAt(c.que, i) /\ Cut(c.que, i, q)
  BY <1>3, RemoveAtIs
<1>5. remove(c, i) = [b EXCEPT !.que = q]
  BY <1>1, <1>4 DEF remove
<1>6. b \in Channel
  BY <1>2 DEF Limits
<1>7. PICK d : d = [b EXCEPT !.que = q]
  OBVIOUS
<1>8. Limits(b, d) /\ d.attr = b.attr /\ d.que = q /\ d.match_cnt = b.match_cnt /\ d.owed = b.owed /\ d.sent = b.sent
  BY <1>6, <1>7, QueSet
<1>9. \A y \in Streams : y \in filled(c.que[i]) <=> c.que[i].buf[y] # 0
  BY DEF filled
<1>10. \A y \in Streams : d.owed[y] = c.owed[y] - Bit(c.que[i].buf[y] # 0)
  BY <1>2, <1>8, <1>9 DEF Bit
<1> QED BY <1>2, <1>4, <1>5, <1>7, <1>8, <1>10 DEF Limits

\* An unmatched node is removed and its buffers are returned.
LEMMA RemoveOne ==
  ASSUME NEW c, NEW h \in [Streams -> Int], NEW l, Rough(c, l), Books(c, h),
         NEW i \in 1 .. Len(c.que), ~c.que[i].matched
  PROVE  /\ Rough(remove(c, i), l) /\ Books(remove(c, i), h)
         /\ Limits(c, remove(c, i))
         /\ Cut(c.que, i, remove(c, i).que)
         /\ remove(c, i).attr = c.attr
         /\ remove(c, i).sent = c.sent
         /\ Hits(remove(c, i).que, Unmatched) = Hits(c.que, Unmatched) - 1
         /\ Len(remove(c, i).que) = Len(c.que) - 1
<1>1. c \in Channel /\ c.match_cnt \in Int
  BY DEF Rough, Channel
<1>2. PICK d : d = remove(c, i)
  OBVIOUS
<1>3. /\ Limits(c, d) /\ d.attr = c.attr /\ Cut(c.que, i, d.que)
      /\ d.match_cnt = c.match_cnt /\ d.sent = c.sent
      /\ \A y \in Streams : d.owed[y] = c.owed[y] - Bit(c.que[i].buf[y] # 0)
  BY <1>1, <1>2, RemoveIs
<1>4. d.match_cnt = c.match_cnt - Bit(c.que[i].matched)
  BY <1>1, <1>3 DEF Bit
<1>5. /\ Rough(d, l)
      /\ Hits(d.que, Unmatched) = Hits(c.que, Unmatched) - Bit(~c.que[i].matched)
      /\ Len(d.que) = Len(c.que) - 1
  BY <1>3, <1>4, RoughCut
<1>6. Bit(~c.que[i].matched) = 1
  BY DEF Bit
<1>7. Books(d, h)
  BY <1>1, <1>3, BooksCut
<1> QED BY <1>2, <1>3, <1>5, <1>6, <1>7

\* Beyond the tail there is nothing to remove.
LEMMA RemoveTyped ==
  ASSUME NEW c \in Channel, NEW i \in Nat \ {0}, i - 1 <= Len(c.que)
  PROVE  remove(c, i) \in Channel /\ i - 1 <= Len(remove(c, i).que)
<1>0. c.que \in Seq(Node) /\ Len(c.que) \in Nat
  BY LenProperties DEF Channel
<1>1. CASE i <= Len(c.que)
  <2>1. i \in 1 .. Len(c.que)
    BY <1>0, <1>1
  <2>2. Limits(c, remove(c, i)) /\ Cut(c.que, i, remove(c, i).que)
    BY <2>1, RemoveIs
  <2> QED BY <1>0, <1>1, <2>2 DEF Limits, Cut
<1>2. CASE ~(i <= Len(c.que))
  <2>1. PICK j \in Nat : j = i - 1 /\ j = Len(c.que) /\ i + 1 > Len(c.que)
    BY <1>0, <1>2
  <2>2. SubSeq(c.que, i + 1, Len(c.que)) = <<>>
    <3>1. i + 1 \in Int /\ Len(c.que) \in Int /\ Len(c.que) < i + 1
      BY <1>0, <2>1
    <3> QED BY <3>1, SubSeqEmpty
  <2>3. PICK a \in Seq(Node) : a = SubSeq(c.que, 1, i - 1) /\ Len(a) = j
    <3>1. /\ SubSeq(c.que, 1, j) \in Seq(Node)
          /\ Len(SubSeq(c.que, 1, j)) = j - 1 + 1
      BY <1>0, <2>1, Slice
    <3>2. j - 1 + 1 = j /\ SubSeq(c.que, 1, i - 1) = SubSeq(c.que, 1, j)
      BY <2>1
    <3> QED BY <3>1, <3>2
  <2>4. PICK q \in Seq(Node) : q = RemoveAt(c.que, i) /\ q = a
    <3>1. a \o <<>> = a
      BY ConcatEmptySeq
    <3> QED BY <2>2, <2>3, <3>1 DEF RemoveAt
  <2>5. PICK b : b = leave(c, filled(c.que[i])) /\ b \in Channel
    BY LeaveIs DEF Limits
  <2>6. PICK d : d = [b EXCEPT !.que = q] /\ d = remove(c, i)
    BY <2>4, <2>5 DEF remove
  <2>7. d \in Channel /\ d.que = q
    BY <2>5, <2>6, QueSet DEF Limits
  <2> QED BY <2>1, <2>3, <2>4, <2>6, <2>7
<1> QED BY <1>1, <1>2

\* The nodes before a completed superbuf at p, unmatched from s on, are
\* released: it is then the last of the matched.
LEMMA Release ==
  ASSUME NEW c, NEW h \in [Streams -> Int], NEW l, Rough(c, l), Books(c, h),
         NEW s \in 1 .. Len(c.que), NEW t \in 1 .. Len(c.que), s <= t,
         \A j \in 1 .. Len(c.que) : c.que[j].matched <=> j < s \/ j = t
  PROVE  Sound(release(c, s, t), h, l) /\ release(c, s, t).sent = c.sent
<1> DEFINE D == {d \in Channel : s - 1 <= Len(d.que)}
           F == [d \in D |-> remove(d, s)]
           f(p) == [k \in Nat |-> IF k = 0 THEN c ELSE remove(p[k - 1], s)]
           Stage(d, k) == /\ Rough(d, l) /\ Books(d, h) /\ d.sent = c.sent
                          /\ t - k \in 1 .. Len(d.que)
                          /\ \A j \in 1 .. Len(d.que) : d.que[j].matched <=> j < s \/ j = t - k
<1>0. /\ c \in Channel /\ c.que \in Seq(Node) /\ Len(c.que) \in Nat /\ s \in Nat \ {0} /\ t \in Nat /\ t - s \in Nat
      /\ s - 1 <= Len(c.que)
  BY LenProperties DEF Rough, Channel
<1>1. c \in D
  BY <1>0
<1>2. \A d \in D : remove(d, s) \in D
  BY <1>0, RemoveTyped
<1>3. PICK p \in [Nat -> D] : p = f(p)
  <2>1. F \in [D -> D]
    <3> HIDE DEF D
    <3> QED BY <1>2
  <2>2. PICK G : G = F
    OBVIOUS
  <2>3. PICK p \in [Nat -> D] : Loop(p, G, c)
    <3> HIDE DEF D, F
    <3> QED BY <1>1, <2>1, <2>2, Solves
  <2>4. \A k \in Nat : k # 0 => p[k - 1] \in D
    <3> HIDE DEF D
    <3> QED BY <2>3
  <2>5. \A k \in Nat : k # 0 => G[p[k - 1]] = remove(p[k - 1], s)
    <3> HIDE DEF D
    <3> QED BY <2>2, <2>4
  <2>6. p = f(p)
    <3> HIDE DEF D, F
    <3> QED BY <2>3, <2>5 DEF Loop
  <2> QED BY <2>6
<1> DEFINE P == CHOOSE r : r = f(r)
<1>4. P = f(P)
  <2> HIDE DEF f
  <2> QED BY <1>3
<1>5. release(c, s, t) = P[t - s]
  BY DEF release, repeat
<1> HIDE DEF P
<1>6. P[0] = c /\ \A k \in Nat : P[k + 1] = remove(P[k], s)
  BY <1>4
<1> DEFINE N == {k \in Nat : k <= t - s => Stage(P[k], k)}
<1>7. 0 \in N
  <2>1. Stage(c, 0)
    <3>1. t - 0 = t
      BY <1>0
    <3> QED BY <3>1
  <2> HIDE DEF Stage
  <2> QED BY <1>6, <2>1
<1>8. ASSUME NEW k \in N
      PROVE  k + 1 \in N
  <2>1. k \in Nat /\ (k <= t - s => Stage(P[k], k))
    OBVIOUS
  <2>2. ASSUME k + 1 <= t - s
        PROVE  Stage(P[k + 1], k + 1)
    <3>1. PICK d : d = P[k] /\ Stage(d, k)
      <4>1. k <= t - s
        BY <1>0, <2>1, <2>2
      <4> HIDE DEF Stage
      <4> QED BY <2>1, <4>1
    <3>2. PICK e : e = P[k + 1] /\ e = remove(d, s)
      BY <1>6, <2>1, <3>1
    <3>3. PICK u \in Nat : u = t - k /\ s < u /\ u \in 1 .. Len(d.que)
      BY <1>0, <2>1, <2>2, <3>1
    <3>4. d.que \in Seq(Node) /\ Len(d.que) \in Nat
      BY <3>1, LenProperties DEF Rough, Channel
    <3>5. s \in 1 .. Len(d.que)
      BY <1>0, <3>3, <3>4
    <3>6. \A j \in 1 .. Len(d.que) : d.que[j].matched <=> j < s \/ j = u
      BY <3>1, <3>3
    <3>7. ~d.que[s].matched
      <4>1. ~(s < s \/ s = u)
        BY <1>0, <3>3
      <4> QED BY <3>5, <3>6, <4>1
    <3>8. Rough(d, l) /\ Books(d, h) /\ d.sent = c.sent
      BY <3>1
    <3>9. /\ Rough(e, l) /\ Books(e, h) /\ e.sent = d.sent
          /\ Cut(d.que, s, e.que) /\ Len(e.que) = Len(d.que) - 1
      BY <3>2, <3>5, <3>7, <3>8, RemoveOne
    <3>10. t - (k + 1) = u - 1 /\ u - 1 \in 1 .. Len(e.que)
      <4>1. k \in Int /\ t \in Int /\ s \in Nat \ {0}
        BY <1>0, <2>1
      <4>2. t - (k + 1) = u - 1
        BY <3>3, <4>1
      <4>3. u - 1 \in 1 .. Len(d.que) - 1
        BY <3>3, <3>4, <4>1
      <4> QED BY <3>9, <4>2, <4>3
    <3>11. ASSUME NEW j \in 1 .. Len(e.que)
           PROVE  e.que[j].matched <=> j < s \/ j = u - 1
      <4>1. CASE j < s
        <5>1. e.que[j] = d.que[j] /\ j \in 1 .. Len(d.que)
          BY <3>4, <3>9, <4>1 DEF Cut
        <5> QED BY <3>6, <4>1, <5>1
      <4>2. CASE ~(j < s)
        <5>1. e.que[j] = d.que[j + 1] /\ j + 1 \in 1 .. Len(d.que)
          BY <3>4, <3>9, <4>2 DEF Cut
        <5>2. ~(j + 1 < s) /\ (j + 1 = u <=> j = u - 1)
          BY <1>0, <3>3, <4>2
        <5> QED BY <3>6, <4>2, <5>1, <5>2
      <4> QED BY <4>1, <4>2
    <3> QED BY <3>2, <3>8, <3>9, <3>10, <3>11
  <2>3. k + 1 \in Nat
    BY <2>1
  <2> HIDE DEF Stage
  <2> QED BY <2>2, <2>3
<1>9. N = Nat
  <2>1. N \in SUBSET Nat
    OBVIOUS
  <2> HIDE DEF N
  <2> QED BY <1>7, <1>8, <2>1, Reaches
<1>10. PICK n \in Nat : n = t - s
  BY <1>0
<1>11. PICK e : e = P[n] /\ Stage(e, n)
  <2>1. n \in N /\ n <= t - s
    <3>1. n <= t - s
      BY <1>0, <1>10
    <3> HIDE DEF N
    <3> QED BY <1>9, <3>1
  <2> HIDE DEF Stage
  <2> QED BY <2>1
<1>12. \A j \in 1 .. Len(e.que) : e.que[j].matched <=> j < s \/ j = s
  <2>1. t - n = s
    BY <1>0, <1>10
  <2> QED BY <1>11, <2>1
<1>13. First(e.que)
  <2>1. e.que \in Seq(Node) /\ Len(e.que) \in Nat
    BY <1>11, LenProperties DEF Rough, Channel
  <2> QED BY <1>0, <1>12, <2>1 DEF First
<1>14. Rough(e, l) /\ Books(e, h) /\ e.sent = c.sent
  BY <1>11
<1> QED BY <1>5, <1>10, <1>11, <1>13, <1>14 DEF Sound, Sane

LEMMA MatchedNowIs ==
  ASSUME NEW c \in Channel, NEW f \in Frames
  PROVE  /\ Limits(c, matchedNow(c, f))
         /\ matchedNow(c, f).attr = c.attr
         /\ matchedNow(c, f).que = c.que
         /\ matchedNow(c, f).match_cnt = c.match_cnt + 1
         /\ matchedNow(c, f).owed = c.owed
         /\ matchedNow(c, f).sent = c.sent
<1>1. PICK n \in Int : n = c.match_cnt + 1
  BY DEF Channel
<1>2. PICK w \in Num : w = c.without_led
  BY DEF Channel
<1>3. PICK b \in BOOLEAN : b = (f < c.without_led)
  <2>1. (f < c.without_led) \in BOOLEAN
    OBVIOUS
  <2> QED BY <2>1
<1>4. f + c.attr.skip \in Nat
  BY ChannelNumbers, NumIs
<1>5. PICK e \in Num : e = Frame(f + c.attr.skip)
  BY <1>4, FrameIs
<1>6. PICK d : d = [c EXCEPT !.match_cnt = n, !.expected = w, !.flash_br = b]
  OBVIOUS
<1>7. d \in Channel
  BY <1>6 DEF Channel
<1>8. Limits(c, d) /\ d.attr = c.attr /\ d.que = c.que /\ d.match_cnt = n /\ d.owed = c.owed /\ d.sent = c.sent
  BY <1>6, <1>7 DEF Channel, Limits
<1>9. PICK r : r = [c EXCEPT !.match_cnt = n, !.expected = e]
  OBVIOUS
<1>10. r \in Channel
  BY <1>9 DEF Channel
<1>11. Limits(c, r) /\ r.attr = c.attr /\ r.que = c.que /\ r.match_cnt = n /\ r.owed = c.owed /\ r.sent = c.sent
  BY <1>9, <1>10 DEF Channel, Limits
<1>12. matchedNow(c, f) = IF c.flash_br THEN d ELSE r
  BY <1>1, <1>2, <1>3, <1>5, <1>6, <1>9 DEF matchedNow
<1> QED BY <1>1, <1>8, <1>11, <1>12

LEMMA DoomedLater ==
  ASSUME NEW l \in Lasts, NEW m \in Lasts, \A y \in Streams : l[y] <= m[y],
         NEW n \in Node, Doomed(n, l)
  PROVE  Doomed(n, m)
<1>1. PICK y \in Others : n.buf[y] = 0 /\ n.frame <= l[y]
  BY DEF Doomed
<1>2. n.frame \in Int /\ l[y] \in Int /\ m[y] \in Int /\ l[y] <= m[y]
  BY SuperbufQueueAssumption DEF Node, Frames, Lasts, Others
<1> QED BY <1>1, <1>2 DEF Doomed

\* h without the buffer of x that arrives.
Holds(g, h, x) ==
  /\ g \in [Streams -> Nat] /\ h \in [Streams -> Nat]
  /\ \A y \in Streams : g[y] = h[y] + Bit(y = x)

\* The node at p is the first that takes the frame.
FirstTaker(c, p, x, f) ==
  /\ p \in 1 .. Len(c.que)
  /\ takes(c, c.que[p], x, f)
  /\ \A i \in 1 .. Len(c.que) : i < p => ~takes(c, c.que[i], x, f)

\* d is c with k for its unmatched node p.
Refilled(c, d, p, k) ==
  /\ Limits(c, d)
  /\ d.que = [c.que EXCEPT ![p] = k]
  /\ d.sent = c.sent
  /\ d.owed = c.owed
  /\ d.match_cnt = c.match_cnt + Bit(k.matched)

\* The first node that takes the frame is filled.
LEMMA Filled ==
  ASSUME NEW l, NEW x, NEW f, NEW m, Arrives(l, x, f, m),
         NEW g, NEW h, Holds(g, h, x),
         NEW c, Sound(c, g, l),
         NEW p, FirstTaker(c, p, x, f), NEW k, Takes(c.que[p], k, x, f),
         NEW d, Refilled(c, d, p, k)
  PROVE  /\ Rough(d, m)
         /\ Books(d, h)
         /\ Len(d.que) = Len(c.que)
         /\ \A j \in 1 .. Len(c.que) : d.que[j].matched <=> IF j = p THEN k.matched ELSE c.que[j].matched
<1>1. /\ l \in Lasts /\ m \in Lasts /\ x \in Streams /\ f \in Nat /\ f # 0
      /\ m[x] = f /\ l[x] < f
      /\ \A y \in Streams : l[y] \in Nat /\ m[y] \in Nat /\ l[y] <= m[y] /\ (y # x => m[y] = l[y])
  BY ArrivesIs
<1>2. /\ c \in Channel /\ c.que \in Seq(Node) /\ Len(c.que) \in Nat /\ c.match_cnt \in Int /\ c.sent \in Int
      /\ c.attr.max_unmatched \in Int
      /\ Loose(c.que, c.attr.low, c.sent, l) /\ Books(c, g) /\ Rough(c, l)
  <2>1. c \in Channel /\ Books(c, g) /\ Rough(c, l) /\ Loose(c.que, c.attr.low, c.sent, l)
    BY DEF Sound, Sane, Rough
  <2>2. c.que \in Seq(Node) /\ c.match_cnt \in Int /\ c.sent \in Num /\ c.attr \in Attributes
    BY <2>1 DEF Channel
  <2>3. c.sent \in Int /\ c.attr.max_unmatched \in Int
    BY <2>2, SuperbufQueueAssumption DEF Attributes, Num
  <2> QED BY <2>1, <2>2, <2>3, LenProperties
<1>0. /\ p \in 1 .. Len(c.que) /\ takes(c, c.que[p], x, f)
      /\ \A i \in 1 .. Len(c.que) : i < p => ~takes(c, c.que[i], x, f)
      /\ Limits(c, d) /\ d.que = [c.que EXCEPT ![p] = k] /\ d.sent = c.sent /\ d.owed = c.owed
      /\ d.match_cnt = c.match_cnt + Bit(k.matched)
  BY DEF FirstTaker, Refilled
<1>3. PICK n \in Node : n = c.que[p]
  BY <1>0, <1>2, ElementOfSeq
<1>4. Fits(n, c.attr.low, l) /\ Later(n, c.sent, l) /\ takes(c, n, x, f) /\ Takes(n, k, x, f) /\ ~n.matched
  BY <1>0, <1>2, <1>3 DEF Loose, takes
<1>5. k \in Node /\ k.umi = 0 /\ \A y \in Streams : k.buf[y] = IF y = x THEN f ELSE n.buf[y]
  BY <1>4 DEF Takes, Node
<1>6. /\ n.buf[x] = 0
      /\ Fits(k, c.attr.low, m)
      /\ k.frame <= n.frame
      /\ n.umi = 0 => k.frame = n.frame /\ (Doomed(n, l) => Doomed(k, m))
      /\ n.umi # 0 => k.frame = f
  BY <1>4, TakenNode
<1>7. n.frame \in Nat /\ k.frame \in Nat
  BY <1>5, NodeNumbers
<1>8. /\ d.que \in Seq(Node) /\ Len(d.que) = Len(c.que)
      /\ \A j \in 1 .. Len(c.que) : d.que[j] = IF j = p THEN k ELSE c.que[j]
  BY <1>0, <1>2, <1>5, ExceptSeq
<1>9. Loose(d.que, d.attr.low, d.sent, m)
  <2>1. Loose(c.que, c.attr.low, c.sent, m)
    BY <1>1, <1>2, LooseLater
  <2>2. Later(k, c.sent, m)
    <3>1. CASE n.umi = 0
      BY <1>4, <1>6, <3>1 DEF Later
    <3>2. CASE n.umi # 0
      <4>1. c.sent <= l[x]
        BY <1>1, <1>2 DEF Rough
      <4> QED BY <1>1, <1>2, <1>6, <3>2, <4>1 DEF Later
    <3> QED BY <3>1, <3>2
  <2>3. ASSUME NEW i \in 1 .. Len(c.que), i < p
        PROVE  Before(c.que[i], k, m)
    <3>1. PICK b \in Node : b = c.que[i]
      BY <1>2, ElementOfSeq
    <3>2. Fits(b, c.attr.low, l) /\ Before(b, n, l) /\ ~takes(c, b, x, f)
      BY <1>0, <1>2, <1>3, <2>3, <3>1 DEF Loose
    <3>3. Before(b, k, m)
      BY <1>4, <3>2, TakenBefore
    <3> QED BY <3>1, <3>3
  <2>4. ASSUME NEW i \in 1 .. Len(c.que), p < i
        PROVE  Before(k, c.que[i], m)
    <3>1. PICK b \in Node : b = c.que[i]
      BY <1>2, ElementOfSeq
    <3>2. Before(n, b, m)
      BY <1>0, <1>3, <2>1, <2>4, <3>1 DEF Loose
    <3>3. b.frame \in Nat
      BY NodeNumbers
    <3>4. Before(k, b, m)
      BY <1>6, <1>7, <3>2, <3>3 DEF Before
    <3> QED BY <3>1, <3>4
  <2>5. Loose([c.que EXCEPT ![p] = k], c.attr.low, c.sent, m)
    BY <1>0, <1>5, <1>6, <2>1, <2>2, <2>3, <2>4, LooseReplaced
  <2> QED BY <1>0, <2>5 DEF Limits
<1>10. /\ Hits(d.que, Matched) = Hits(c.que, Matched) - Bit(n \in Matched) + Bit(k \in Matched)
       /\ Hits(d.que, Unmatched) = Hits(c.que, Unmatched) - Bit(n \in Unmatched) + Bit(k \in Unmatched)
  BY <1>0, <1>2, <1>3, <1>5, HitsReplaced
<1>11. Hits(c.que, Matched) \in Nat /\ Hits(c.que, Unmatched) \in Nat
  BY <1>2, HitsOf
<1>12. /\ n \notin Matched /\ n \in Unmatched
       /\ (k \in Matched <=> k.matched) /\ (k \in Unmatched <=> ~k.matched)
  BY <1>4, <1>5 DEF Matched, Unmatched
<1>13. d.match_cnt = Hits(d.que, Matched)
  BY <1>0, <1>2, <1>10, <1>11, <1>12 DEF Bit, Rough
<1>14. Hits(d.que, Unmatched) <= d.attr.max_unmatched + 1
  <2>1. Hits(d.que, Unmatched) <= Hits(c.que, Unmatched)
    BY <1>10, <1>11, <1>12 DEF Bit
  <2>2. Hits(d.que, Unmatched) \in Nat
    BY <1>8, HitsOf
  <2> QED BY <1>0, <1>2, <1>11, <2>1, <2>2 DEF Rough, Limits
<1>15. \A y \in Streams : d.sent <= m[y]
  BY <1>0, <1>1, <1>2 DEF Rough
<1>16. Rough(d, m)
  BY <1>0, <1>9, <1>13, <1>14, <1>15 DEF Rough, Limits
<1>17. Books(d, h)
  <2>1. ASSUME NEW y \in Streams
        PROVE  d.owed[y] = d.lost[y] + Hits(d.que, Fills(y)) + h[y]
    <3>1. Hits(d.que, Fills(y)) = Hits(c.que, Fills(y)) - Bit(n \in Fills(y)) + Bit(k \in Fills(y))
      BY <1>0, <1>2, <1>3, <1>5, HitsReplaced
    <3>2. (n \in Fills(y) <=> n.buf[y] # 0) /\ (k \in Fills(y) <=> k.buf[y] # 0)
      BY <1>5 DEF Fills
    <3>3. Hits(c.que, Fills(y)) \in Nat /\ c.lost[y] \in Int /\ h[y] \in Int /\ g[y] = h[y] + Bit(y = x)
      BY <1>2, HitsOf DEF Channel, Holds
    <3>4. c.owed[y] = c.lost[y] + Hits(c.que, Fills(y)) + g[y]
      BY <1>2 DEF Books
    <3>5. d.lost = c.lost /\ d.owed = c.owed
      BY <1>0 DEF Limits
    <3>6. Hits(d.que, Fills(y)) = Hits(c.que, Fills(y)) + Bit(y = x)
      <4>1. CASE y = x
        <5>1. n \notin Fills(y) /\ k \in Fills(y)
          BY <1>1, <1>5, <1>6, <3>2, <4>1
        <5> QED BY <3>1, <3>3, <4>1, <5>1 DEF Bit
      <4>2. CASE y # x
        <5>1. n \in Fills(y) <=> k \in Fills(y)
          BY <1>5, <3>2, <4>2
        <5> QED BY <3>1, <3>3, <4>2, <5>1 DEF Bit
      <4> QED BY <4>1, <4>2
    <3>7. PICK b \in Int : b = Bit(y = x)
      BY DEF Bit
    <3> QED BY <3>3, <3>4, <3>5, <3>6, <3>7
  <2> QED BY <2>1 DEF Books
<1> QED BY <1>8, <1>16, <1>17

\* With a completed node at p the older ones, all that is unmatched before
\* it, are released.
LEMMA Completed ==
  ASSUME NEW l, NEW x, NEW f, NEW m, Arrives(l, x, f, m),
         NEW g, NEW h, Holds(g, h, x),
         NEW c, Sound(c, g, l),
         NEW p, FirstTaker(c, p, x, f), NEW k, Takes(c.que[p], k, x, f), k.matched,
         NEW d, Refilled(c, d, p, k),
         NEW e, e = IF older(c, x, f) = {} THEN d ELSE release(d, Least(older(c, x, f)), p)
  PROVE  Sound(e, h, m) /\ e.sent = c.sent
<1>1. /\ c \in Channel /\ c.que \in Seq(Node) /\ Len(c.que) \in Nat /\ c.match_cnt \in Int
      /\ Loose(c.que, c.attr.low, c.sent, l) /\ First(c.que) /\ DOMAIN c.que = 1 .. Len(c.que)
  BY LenProperties DEF Sound, Sane, Rough, Channel
<1>0. /\ p \in 1 .. Len(c.que) /\ takes(c, c.que[p], x, f) /\ d.sent = c.sent
      /\ \A i \in 1 .. Len(c.que) : i < p => ~takes(c, c.que[i], x, f)
  BY DEF FirstTaker, Refilled
<1>3. /\ Rough(d, m) /\ Books(d, h) /\ Len(d.que) = Len(c.que)
      /\ \A j \in 1 .. Len(c.que) : d.que[j].matched <=> IF j = p THEN k.matched ELSE c.que[j].matched
  BY Filled
<1>4. ~c.que[p].matched
  BY <1>0 DEF takes
<1>5. ASSUME NEW i \in 1 .. Len(c.que), i < p, ~c.que[i].matched
      PROVE  i \in older(c, x, f)
  <2>1. PICK n \in Node : n = c.que[p]
    BY <1>0, <1>1, ElementOfSeq
  <2>2. PICK b \in Node : b = c.que[i]
    BY <1>1, ElementOfSeq
  <2>3. Fits(n, c.attr.low, l) /\ Fits(b, c.attr.low, l) /\ Before(b, n, l) /\ ~takes(c, b, x, f)
    BY <1>0, <1>1, <1>5, <2>1, <2>2 DEF Loose
  <2>4. takes(c, n, x, f) /\ Takes(n, k, x, f)
    BY <1>0, <2>1
  <2>5. b.frame < f
    BY <2>3, <2>4, TakenBefore
  <2>6. \A j \in 1 .. i : j \in 1 .. Len(c.que) /\ j < p
    BY <1>0, <1>1, <1>5
  <2>7. i \in passed(c, x, f)
    BY <1>0, <1>1, <1>5, <2>6 DEF passed, unmatched
  <2> QED BY <2>2, <2>5, <2>7 DEF older
<1>6. \A j \in 1 .. Len(c.que) : j > p => ~c.que[j].matched
  BY <1>0, <1>1, <1>4 DEF First
<1>7. CASE older(c, x, f) = {}
  <2>1. \A j \in 1 .. Len(c.que) : d.que[j].matched <=> j <= p
    BY <1>0, <1>1, <1>3, <1>5, <1>6, <1>7
  <2>2. First(d.que)
    BY <1>1, <1>3, <2>1 DEF First
  <2> QED BY <1>0, <1>3, <1>7, <2>2 DEF Sound, Sane
<1>8. CASE older(c, x, f) # {}
  <2>1. older(c, x, f) \subseteq Nat
    BY <1>1 DEF older, passed, unmatched
  <2>2. PICK s : s = Least(older(c, x, f)) /\ s \in older(c, x, f) /\ \A i \in older(c, x, f) : s <= i
    BY <1>8, <2>1, LeastIsLeast
  <2>3. s \in 1 .. Len(c.que) /\ ~c.que[s].matched /\ \A j \in 1 .. s : ~takes(c, c.que[j], x, f)
    BY <1>1, <2>2 DEF older, passed, unmatched
  <2>4. s < p
    BY <1>0, <1>1, <2>3
  <2>5. ASSUME NEW j \in 1 .. Len(c.que)
        PROVE  d.que[j].matched <=> j < s \/ j = p
    <3>1. CASE j = p
      BY <1>3, <3>1
    <3>2. CASE j # p /\ j < s
      <4>1. j < p
        BY <1>0, <1>1, <2>3, <2>4, <3>2
      <4>2. ~(s <= j)
        BY <1>1, <2>3, <3>2
      <4>3. c.que[j].matched
        BY <1>5, <2>2, <4>1, <4>2
      <4> QED BY <1>3, <3>2, <4>3
    <3>3. CASE j # p /\ ~(j < s)
      <4>1. ~c.que[j].matched
        <5>1. j = s \/ s < j
          BY <1>1, <2>3, <3>3
        <5> QED BY <1>1, <2>3, <5>1 DEF First
      <4> QED BY <1>3, <3>3, <4>1
    <3> QED BY <3>1, <3>2, <3>3
  <2>6. s \in 1 .. Len(d.que) /\ p \in 1 .. Len(d.que) /\ s <= p
    BY <1>0, <1>1, <1>3, <2>3, <2>4
  <2>7. h \in [Streams -> Int]
    BY DEF Holds
  <2>8. \A j \in 1 .. Len(d.que) : d.que[j].matched <=> j < s \/ j = p
    BY <1>3, <2>5
  <2>9. Sound(release(d, s, p), h, m) /\ release(d, s, p).sent = d.sent
    BY <1>3, <2>6, <2>7, <2>8, Release
  <2> QED BY <1>0, <1>8, <2>2, <2>9
<1> QED BY <1>7, <1>8

LEMMA NotCompleted ==
  ASSUME NEW l, NEW x, NEW f, NEW m, Arrives(l, x, f, m),
         NEW g, NEW h, Holds(g, h, x),
         NEW c, Sound(c, g, l),
         NEW p, FirstTaker(c, p, x, f), NEW k, Takes(c.que[p], k, x, f), ~k.matched,
         NEW d, Refilled(c, d, p, k)
  PROVE  Sound(d, h, m) /\ d.sent = c.sent
<1>1. /\ Rough(d, m) /\ Books(d, h) /\ Len(d.que) = Len(c.que)
      /\ \A j \in 1 .. Len(c.que) : d.que[j].matched <=> IF j = p THEN k.matched ELSE c.que[j].matched
  BY Filled
<1>2. First(c.que) /\ ~c.que[p].matched /\ d.sent = c.sent
  BY DEF Sound, Sane, FirstTaker, Refilled, takes
<1>3. \A j \in 1 .. Len(c.que) : d.que[j].matched <=> c.que[j].matched
  BY <1>1, <1>2
<1>4. First(d.que)
  BY <1>1, <1>2, <1>3 DEF First
<1> QED BY <1>1, <1>2, <1>4 DEF Sound, Sane

\* The node that fill puts in the place of n, but for matched and exp.
taken(n, x, f) == [[n EXCEPT !.umi = 0, !.frame = IF n.umi > 0 THEN f ELSE @] EXCEPT !.buf[x] = f]

LEMMA TakenIs ==
  ASSUME NEW n \in Node, NEW x \in Streams, NEW f \in Frames
  PROVE  /\ taken(n, x, f) \in Node
         /\ taken(n, x, f).umi = 0
         /\ taken(n, x, f).frame = IF n.umi > 0 THEN f ELSE n.frame
         /\ taken(n, x, f).buf = [n.buf EXCEPT ![x] = f]
         /\ taken(n, x, f).matched = n.matched
<1>1. PICK w \in [Streams -> 0 .. MaxFrame] : w = [n.buf EXCEPT ![x] = f]
  <2>1. n.buf \in [Streams -> 0 .. MaxFrame] /\ f \in 0 .. MaxFrame
    BY SuperbufQueueAssumption DEF Node, Frames
  <2>2. [n.buf EXCEPT ![x] = f] \in [Streams -> 0 .. MaxFrame]
    BY <2>1
  <2> QED BY <2>2
<1>2. PICK t \in Frames : t = IF n.umi > 0 THEN f ELSE n.frame
  BY DEF Node
<1>3. 0 \in 0 .. MaxFrame
  BY SuperbufQueueAssumption
<1>4. PICK a : a = [n EXCEPT !.umi = 0, !.frame = t]
  OBVIOUS
<1>5. a \in Node /\ a.umi = 0 /\ a.frame = t /\ a.buf = n.buf /\ a.matched = n.matched
  BY <1>3, <1>4 DEF Node
<1>6. taken(n, x, f) = [a EXCEPT !.buf = w]
  BY <1>1, <1>2, <1>4, <1>5 DEF taken
<1>7. PICK k : k = [a EXCEPT !.buf = w]
  OBVIOUS
<1>8. k \in Node /\ k.umi = 0 /\ k.frame = t /\ k.buf = w /\ k.matched = a.matched
  BY <1>5, <1>7 DEF Node
<1> QED BY <1>1, <1>2, <1>5, <1>6, <1>7, <1>8

LEMMA Fill ==
  ASSUME NEW l, NEW x, NEW f, NEW m, Arrives(l, x, f, m),
         NEW g, NEW h, Holds(g, h, x),
         NEW c, Sound(c, g, l),
         NEW p, FirstTaker(c, p, x, f)
  PROVE  Sound(fill(c, p, x, f), h, m) /\ fill(c, p, x, f).sent = c.sent
<1>1. /\ c \in Channel /\ c.que \in Seq(Node) /\ c.match_cnt \in Int /\ Loose(c.que, c.attr.low, c.sent, l)
      /\ p \in 1 .. Len(c.que) /\ takes(c, c.que[p], x, f) /\ x \in Streams /\ f \in Frames
  BY DEF Sound, Sane, Rough, Channel, FirstTaker, Arrives
<1>2. PICK n \in Node : n = c.que[p]
  BY <1>1, ElementOfSeq
<1>3. PICK k \in Node : k = taken(n, x, f)
  BY <1>1, TakenIs
<1>4. /\ k.umi = 0 /\ k.frame = IF n.umi > 0 THEN f ELSE n.frame
      /\ k.buf = [n.buf EXCEPT ![x] = f] /\ k.matched = n.matched
  BY <1>1, <1>3, TakenIs
<1>5. n.buf[x] = 0 /\ ~n.matched
  <2>1. Fits(n, c.attr.low, l) /\ takes(c, n, x, f)
    BY <1>1, <1>2 DEF Loose
  <2>2. n.buf[x] = 0
    BY <2>1, TakenNode
  <2> QED BY <2>1, <2>2 DEF takes
<1>6. filled(k) = Streams <=> \A y \in Streams : k.buf[y] # 0
  BY DEF filled
<1>7. CASE filled(k) = Streams
  <2>1. PICK kk : kk = [k EXCEPT !.matched = TRUE, !.exp = FALSE]
    OBVIOUS
  <2>2. kk \in Node /\ kk.umi = k.umi /\ kk.frame = k.frame /\ kk.buf = k.buf /\ kk.matched = TRUE
    BY <2>1 DEF Node
  <2>3. Takes(c.que[p], kk, x, f)
    BY <1>2, <1>4, <1>6, <1>7, <2>2 DEF Takes
  <2>4. PICK q \in Seq(Node) : q = [c.que EXCEPT ![p] = kk]
    BY <1>1, <2>2, ExceptSeq
  <2>5. PICK d : d = [c EXCEPT !.que = q]
    OBVIOUS
  <2>6. Limits(c, d) /\ d.attr = c.attr /\ d.que = q /\ d.match_cnt = c.match_cnt /\ d.owed = c.owed /\ d.sent = c.sent
    BY <1>1, <2>5, QueSet
  <2>7. d \in Channel
    BY <2>6 DEF Limits
  <2>8. PICK r : r = matchedNow(d, f)
    OBVIOUS
  <2>9. /\ Limits(d, r) /\ r.attr = d.attr /\ r.que = d.que /\ r.match_cnt = d.match_cnt + 1
        /\ r.owed = d.owed /\ r.sent = d.sent
    BY <1>1, <2>7, <2>8, MatchedNowIs
  <2>10. Refilled(c, r, p, kk)
    <3>1. Limits(c, r)
      BY <2>6, <2>9 DEF Limits
    <3>2. Bit(kk.matched) = 1
      BY <2>2 DEF Bit
    <3> QED BY <2>4, <2>6, <2>9, <3>1, <3>2 DEF Refilled
  <2>11. PICK e : e = IF older(c, x, f) = {} THEN r ELSE release(r, Least(older(c, x, f)), p)
    OBVIOUS
  <2>12. [c EXCEPT !.que[p] = kk] = d
    BY <2>4, <2>5
  <2>13. fill(c, p, x, f) = e
    BY <1>2, <1>3, <1>5, <1>7, <2>1, <2>8, <2>11, <2>12 DEF fill, taken
  <2>14. kk.matched
    BY <2>2
  <2>15. Sound(e, h, m) /\ e.sent = c.sent
    BY <2>3, <2>10, <2>11, <2>14, Completed
  <2> QED BY <2>13, <2>15
<1>8. CASE filled(k) # Streams
  <2>1. PICK kk : kk = IF c.diverted = f THEN [k EXCEPT !.exp = TRUE] ELSE k
    OBVIOUS
  <2>2. kk \in Node /\ kk.umi = k.umi /\ kk.frame = k.frame /\ kk.buf = k.buf /\ kk.matched = k.matched
    <3>1. PICK e : e = [k EXCEPT !.exp = TRUE]
      OBVIOUS
    <3>2. e \in Node /\ e.umi = k.umi /\ e.frame = k.frame /\ e.buf = k.buf /\ e.matched = k.matched
      BY <3>1 DEF Node
    <3> QED BY <2>1, <3>1, <3>2
  <2>3. Takes(c.que[p], kk, x, f) /\ ~kk.matched
    BY <1>2, <1>4, <1>5, <1>6, <1>8, <2>2 DEF Takes
  <2>4. PICK q \in Seq(Node) : q = [c.que EXCEPT ![p] = kk]
    BY <1>1, <2>2, ExceptSeq
  <2>5. PICK d : d = [c EXCEPT !.que = q]
    OBVIOUS
  <2>6. Limits(c, d) /\ d.attr = c.attr /\ d.que = q /\ d.match_cnt = c.match_cnt /\ d.owed = c.owed /\ d.sent = c.sent
    BY <1>1, <2>5, QueSet
  <2>7. PICK r : r = [d EXCEPT !.diverted = 0]
    OBVIOUS
  <2>8. Alike(d, r)
    <3>1. d \in Channel /\ 0 \in Num
      BY <2>6, SuperbufQueueAssumption DEF Limits, Num
    <3> QED BY <2>7, <3>1, DivertedSet
  <2>9. Refilled(c, d, p, kk)
    <3>1. d.match_cnt = c.match_cnt + Bit(kk.matched)
      BY <1>1, <2>3, <2>6 DEF Bit
    <3> QED BY <2>4, <2>6, <3>1 DEF Refilled
  <2>10. Sound(d, h, m) /\ d.sent = c.sent
    BY <2>3, <2>9, NotCompleted
  <2>11. Sound(r, h, m) /\ r.sent = c.sent
    BY <2>8, <2>10, AlikeSound DEF Alike
  <2>12. fill(c, p, x, f) \in {d, r}
    <3>1. CASE c.diverted = f
      <4>1. kk = [k EXCEPT !.exp = TRUE]
        BY <2>1, <3>1
      <4>2. [c EXCEPT !.que[p] = kk, !.diverted = 0] = r
        <5>1. [c EXCEPT !.que = q, !.diverted = 0] = [[c EXCEPT !.que = q] EXCEPT !.diverted = 0]
          BY <1>1 DEF Channel
        <5> QED BY <2>4, <2>5, <2>7, <5>1
      <4>3. fill(c, p, x, f) = [c EXCEPT !.que[p] = kk, !.diverted = 0]
        BY <1>2, <1>3, <1>5, <1>8, <3>1, <4>1 DEF fill, taken
      <4> QED BY <4>2, <4>3
    <3>2. CASE c.diverted # f
      <4>1. kk = k
        BY <2>1, <3>2
      <4>2. [c EXCEPT !.que[p] = kk] = d
        BY <2>4, <2>5
      <4>3. fill(c, p, x, f) = [c EXCEPT !.que[p] = kk]
        BY <1>2, <1>3, <1>5, <1>8, <3>2, <4>1 DEF fill, taken
      <4> QED BY <4>2, <4>3
    <3> QED BY <3>1, <3>2
  <2> QED BY <2>10, <2>11, <2>12
<1> QED BY <1>7, <1>8

\* No node takes the frame.
Refused(c, x, f) == \A i \in 1 .. Len(c.que) : ~takes(c, c.que[i], x, f)

\* The search passes all that is unmatched, in the order of the queue.
LEMMA PassedAll ==
  ASSUME NEW c \in Channel, NEW x, NEW f, Refused(c, x, f)
  PROVE  /\ passed(c, x, f) = {i \in 1 .. Len(c.que) : c.que[i] \in Unmatched}
         /\ older(c, x, f) = {i \in 1 .. Len(c.que) : ~c.que[i].matched /\ c.que[i].frame < f}
         /\ newer(c, x, f) = {i \in 1 .. Len(c.que) : ~c.que[i].matched /\ c.que[i].frame > f}
<1>1. c.que \in Seq(Node) /\ Len(c.que) \in Nat /\ DOMAIN c.que = 1 .. Len(c.que)
  BY LenProperties DEF Channel
<1>2. \A i \in 1 .. Len(c.que) : c.que[i] \in Node
  BY <1>1, ElementOfSeq
<1>3. \A i \in 1 .. Len(c.que) : \A j \in 1 .. i : ~takes(c, c.que[j], x, f)
  <2> TAKE i \in 1 .. Len(c.que)
  <2> TAKE j \in 1 .. i
  <2>1. j \in 1 .. Len(c.que)
    BY <1>1
  <2> QED BY <2>1 DEF Refused
<1>4. passed(c, x, f) = {i \in 1 .. Len(c.que) : ~c.que[i].matched}
  BY <1>1, <1>3 DEF passed, unmatched
<1>5. {i \in 1 .. Len(c.que) : ~c.que[i].matched} = {i \in 1 .. Len(c.que) : c.que[i] \in Unmatched}
  BY <1>2 DEF Unmatched
<1> QED BY <1>4, <1>5 DEF older, newer

\* n is the node of frame f alone.
Fresh(n, c, x, f) ==
  /\ n \in Node
  /\ n.buf = [y \in Streams |-> IF y = x THEN f ELSE 0]
  /\ n.frame = f
  /\ n.matched <=> Streams = {x}
  /\ n.umi = IF c.attr.low /\ x = Meta THEN f ELSE 0

LEMMA FreshFits ==
  ASSUME NEW l, NEW x, NEW f, NEW m, Arrives(l, x, f, m), NEW c, Rough(c, l), NEW n, Fresh(n, c, x, f)
  PROVE  Fits(n, c.attr.low, m) /\ Later(n, c.sent, m)
<1>1. /\ x \in Streams /\ f \in Nat /\ f # 0 /\ m[x] = f /\ l[x] < f
      /\ \A y \in Streams : l[y] \in Nat /\ m[y] \in Nat
  BY ArrivesIs
<1>2. /\ n.frame = f
      /\ \A y \in Streams : n.buf[y] = IF y = x THEN f ELSE 0
      /\ n.matched <=> Streams = {x}
      /\ n.umi = IF c.attr.low /\ x = Meta THEN f ELSE 0
  BY DEF Fresh
<1>3. n.matched <=> \A y \in Streams : n.buf[y] # 0
  BY <1>1, <1>2
<1>4. Meta \in Streams /\ \A y \in Others : y \in Streams /\ y # Meta
  BY SuperbufQueueAssumption DEF Others
<1>5. n.umi = 0 /\ c.attr.low => \E y \in Others : n.buf[y] # 0
  <2> HAVE n.umi = 0 /\ c.attr.low
  <2>1. x # Meta
    BY <1>1, <1>2
  <2>2. x \in Others
    BY <1>1, <2>1 DEF Others
  <2> QED BY <1>1, <1>2, <2>2
<1>6. Fits(n, c.attr.low, m)
  <2>1. \E y \in Streams : n.buf[y] # 0
    BY <1>1, <1>2
  <2>2. \A y \in Others : n.buf[y] \in {0, n.frame}
    BY <1>2, <1>4
  <2>3. n.buf[Meta] # 0 => n.frame <= n.buf[Meta]
    BY <1>1, <1>2, <1>4
  <2>4. \A y \in Streams : n.buf[y] <= m[y]
    BY <1>1, <1>2
  <2>5. n.umi # 0 => c.attr.low /\ n.umi = n.frame /\ n.buf[Meta] = n.umi /\ \A y \in Others : n.buf[y] = 0
    BY <1>1, <1>2, <1>4
  <2> QED BY <1>3, <1>5, <2>1, <2>2, <2>3, <2>4, <2>5 DEF Fits
<1>7. Later(n, c.sent, m)
  <2>1. c.sent <= l[x] /\ c.sent \in Int
    BY <1>1, ChannelNumbers DEF Rough
  <2> QED BY <1>1, <1>2, <2>1 DEF Later
<1> QED BY <1>6, <1>7

\* Where the node of frame f goes.
place(c, x, f) == IF newer(c, x, f) = {} THEN Len(c.que) + 1 ELSE Least(newer(c, x, f))

LEMMA Placed ==
  ASSUME NEW l, NEW x, NEW f, NEW m, Arrives(l, x, f, m), NEW c, Sane(c, l), Refused(c, x, f),
         NEW n, Fresh(n, c, x, f)
  PROVE  /\ place(c, x, f) \in 1 .. Len(c.que) + 1
         /\ \A k \in 1 .. Len(c.que) : k < place(c, x, f) => Before(c.que[k], n, m)
         /\ \A k \in 1 .. Len(c.que) : place(c, x, f) <= k => Before(n, c.que[k], m)
         /\ n.matched => \A k \in 1 .. Len(c.que) : c.que[k].matched
         /\ ~n.matched => \A k \in 1 .. Len(c.que) : place(c, x, f) <= k => ~c.que[k].matched
<1>1. /\ l \in Lasts /\ m \in Lasts /\ x \in Streams /\ f \in Nat /\ l[x] < f
      /\ \A y \in Streams : l[y] \in Nat /\ m[y] \in Nat /\ l[y] <= m[y]
  BY ArrivesIs
<1>2. /\ c \in Channel /\ c.que \in Seq(Node) /\ Len(c.que) \in Nat /\ First(c.que)
      /\ Loose(c.que, c.attr.low, c.sent, l)
  BY LenProperties DEF Sane, Rough, Channel
<1>3. /\ older(c, x, f) = {i \in 1 .. Len(c.que) : ~c.que[i].matched /\ c.que[i].frame < f}
      /\ newer(c, x, f) = {i \in 1 .. Len(c.que) : ~c.que[i].matched /\ c.que[i].frame > f}
  BY <1>2, PassedAll
<1>4. n.frame = f /\ (n.matched <=> Streams = {x})
  BY DEF Fresh
<1>5. ASSUME NEW k \in 1 .. Len(c.que)
      PROVE  /\ c.que[k] \in Node
             /\ Fits(c.que[k], c.attr.low, l)
             /\ c.que[k].frame < f \/ k \in newer(c, x, f)
  <2>1. PICK b \in Node : b = c.que[k]
    BY <1>2, ElementOfSeq
  <2>2. Fits(b, c.attr.low, l) /\ ~takes(c, b, x, f)
    BY <1>2, <2>1 DEF Loose, Refused
  <2>3. b.frame \in Nat
    BY NodeNumbers
  <2>4. CASE b.matched
    <3>1. \A y \in Streams : b.buf[y] # 0
      BY <2>2, <2>4 DEF Fits
    <3>2. b.frame <= l[x]
      BY <1>1, <2>2, <3>1, FullNode
    <3> QED BY <1>1, <2>1, <2>2, <2>3, <3>2
  <2>5. CASE ~b.matched
    <3>1. b.frame # f
      BY <2>2, <2>5 DEF takes
    <3> QED BY <1>1, <1>3, <2>1, <2>2, <2>3, <2>5, <3>1
  <2> QED BY <2>4, <2>5
<1>6. n.matched => \A k \in 1 .. Len(c.que) : c.que[k].matched
  <2> SUFFICES ASSUME n.matched, NEW k \in 1 .. Len(c.que)
               PROVE  c.que[k].matched
    OBVIOUS
  <2>1. Fits(c.que[k], c.attr.low, l) /\ Streams = {x}
    BY <1>4, <1>5
  <2> QED BY <2>1 DEF Fits
<1>7. CASE newer(c, x, f) = {}
  <2>1. place(c, x, f) = Len(c.que) + 1
    BY <1>7 DEF place
  <2>2. \A k \in 1 .. Len(c.que) : Before(c.que[k], n, m)
    BY <1>4, <1>5, <1>7 DEF Before
  <2>3. \A k \in 1 .. Len(c.que) : ~(Len(c.que) + 1 <= k)
    BY <1>2
  <2> QED BY <1>2, <1>6, <2>1, <2>2, <2>3
<1>8. CASE newer(c, x, f) # {}
  <2>1. newer(c, x, f) \in SUBSET Nat
    BY <1>3
  <2>2. PICK a : a = place(c, x, f) /\ a \in newer(c, x, f) /\ \A i \in newer(c, x, f) : a <= i
    BY <1>8, <2>1, LeastIsLeast DEF place
  <2>3. a \in 1 .. Len(c.que) /\ ~c.que[a].matched /\ c.que[a].frame > f
    BY <1>3, <2>2
  <2>4. \A k \in 1 .. Len(c.que) : k < a => Before(c.que[k], n, m)
    <3> SUFFICES ASSUME NEW k \in 1 .. Len(c.que), k < a
                 PROVE  Before(c.que[k], n, m)
      OBVIOUS
    <3>1. k \notin newer(c, x, f)
      BY <1>2, <2>2, <2>3
    <3> QED BY <1>4, <1>5, <3>1 DEF Before
  <2>5. ASSUME NEW k \in 1 .. Len(c.que), a <= k
        PROVE  Before(n, c.que[k], m) /\ ~c.que[k].matched
    <3>1. CASE k = a
      BY <1>4, <2>3, <3>1 DEF Before
    <3>2. CASE k # a
      <4>1. a < k
        BY <1>2, <2>3, <2>5, <3>2
      <4>2. Before(c.que[a], c.que[k], l) /\ ~c.que[k].matched
        BY <1>2, <2>3, <4>1 DEF Loose, First
      <4>3. PICK b \in Node : b = c.que[k]
        BY <1>5
      <4>4. PICK d \in Node : d = c.que[a]
        BY <1>5, <2>3
      <4>5. b.frame \in Nat /\ d.frame \in Nat /\ d.frame > f
        BY <2>3, <4>4, NodeNumbers
      <4>6. CASE d.frame < b.frame
        BY <1>1, <1>4, <4>2, <4>3, <4>5, <4>6 DEF Before
      <4>7. CASE Doomed(b, l)
        <5>1. Doomed(b, m)
          BY <1>1, <4>7, DoomedLater
        <5> QED BY <4>2, <4>3, <5>1 DEF Before
      <4> QED BY <4>2, <4>3, <4>4, <4>6, <4>7 DEF Before
    <3> QED BY <3>1, <3>2
  <2>6. a \in 1 .. Len(c.que) + 1
    BY <1>2, <2>3
  <2> QED BY <1>6, <2>2, <2>4, <2>5, <2>6
<1> QED BY <1>7, <1>8

\* The node that insert makes.
freshNode(c, x, f) ==
  [buf |-> [y \in Streams |-> IF y = x THEN f ELSE 0],
   frame |-> f, matched |-> Streams = {x}, exp |-> f \in {c.diverted, c.good} /\ Streams # {x},
   umi |-> IF c.attr.low /\ x = Meta THEN f ELSE 0]

LEMMA FreshIs ==
  ASSUME NEW c \in Channel, NEW x \in Streams, NEW f \in Frames
  PROVE  Fresh(freshNode(c, x, f), c, x, f)
<1>1. f \in 0 .. MaxFrame /\ 0 \in 0 .. MaxFrame
  BY SuperbufQueueAssumption DEF Frames
<1>2. PICK u \in 0 .. MaxFrame : u = IF c.attr.low /\ x = Meta THEN f ELSE 0
  BY <1>1
<1>3. PICK b \in [Streams -> 0 .. MaxFrame] : b = [y \in Streams |-> IF y = x THEN f ELSE 0]
  <2>1. [y \in Streams |-> IF y = x THEN f ELSE 0] \in [Streams -> 0 .. MaxFrame]
    BY <1>1
  <2> QED BY <2>1
<1>4. PICK s \in BOOLEAN : s = (Streams = {x})
  OBVIOUS
<1>5. PICK e \in BOOLEAN : e = (f \in {c.diverted, c.good} /\ Streams # {x})
  OBVIOUS
<1>6. freshNode(c, x, f) = [buf |-> b, frame |-> f, matched |-> s, exp |-> e, umi |-> u]
  BY <1>2, <1>3, <1>4, <1>5 DEF freshNode
<1>7. PICK n : n = [buf |-> b, frame |-> f, matched |-> s, exp |-> e, umi |-> u]
  OBVIOUS
<1>8. n \in Node /\ n.buf = b /\ n.frame = f /\ n.matched = s /\ n.umi = u
  BY <1>7 DEF Node
<1>9. Fresh(n, c, x, f)
  BY <1>2, <1>3, <1>4, <1>8 DEF Fresh
<1> QED BY <1>6, <1>7, <1>9

\* d is c with n put in at i.
Inserted(c, d, i, n) ==
  /\ Limits(c, d)
  /\ Cut(d.que, i, c.que)
  /\ d.que[i] = n
  /\ d.sent = c.sent
  /\ d.owed = c.owed
  /\ d.match_cnt = c.match_cnt + Bit(n.matched)

LEMMA InsertIs ==
  ASSUME NEW c \in Channel, NEW x \in Streams, NEW f \in Frames,
         place(c, x, f) \in 1 .. Len(c.que) + 1
  PROVE  Inserted(c, insert(c, x, f), place(c, x, f), freshNode(c, x, f))
<1>1. PICK n \in Node : n = freshNode(c, x, f) /\ (n.matched <=> Streams = {x})
  BY FreshIs DEF Fresh
<1>2. PICK a \in 1 .. Len(c.que) + 1 : a = place(c, x, f)
  OBVIOUS
<1>3. PICK q \in Seq(Node) : q = InsertAt(c.que, a, n) /\ Cut(q, a, c.que) /\ q[a] = n
  <2>1. c.que \in Seq(Node)
    BY DEF Channel
  <2> QED BY <2>1, InsertAtIs
<1>4. PICK v \in Num : v = IF f \in {c.diverted, c.good} THEN 0 ELSE c.diverted
  <2>1. c.diverted \in Num
    BY DEF Channel
  <2> QED BY <2>1, NumIs
<1>5. PICK d : d = [c EXCEPT !.que = q, !.diverted = v]
  OBVIOUS
<1>6. d \in Channel
  BY <1>5 DEF Channel
<1>7. /\ Limits(c, d) /\ d.attr = c.attr /\ d.que = q /\ d.match_cnt = c.match_cnt
      /\ d.owed = c.owed /\ d.sent = c.sent
  BY <1>5, <1>6 DEF Channel, Limits
<1>8. PICK e \in Num : e = Frame(f + c.attr.skip)
  <2>1. f + c.attr.skip \in Nat
    BY ChannelNumbers, NumIs
  <2> QED BY <2>1, FrameIs
<1>9. PICK k \in Int : k = d.match_cnt + 1
  BY <1>6 DEF Channel
<1>10. PICK r : r = [d EXCEPT !.match_cnt = k, !.expected = e]
  OBVIOUS
<1>11. r \in Channel
  BY <1>6, <1>10 DEF Channel
<1>12. Limits(d, r) /\ r.que = d.que /\ r.match_cnt = k /\ r.owed = d.owed /\ r.sent = d.sent
  BY <1>6, <1>10, <1>11 DEF Channel, Limits
<1>13. insert(c, x, f) = IF Streams = {x} THEN r ELSE d
  <2>1. n = [buf |-> [y \in Streams |-> IF y = x THEN f ELSE 0],
             frame |-> f, matched |-> Streams = {x}, exp |-> f \in {c.diverted, c.good} /\ ~(Streams = {x}),
             umi |-> IF c.attr.low /\ x = Meta THEN f ELSE 0]
    BY <1>1 DEF freshNode
  <2> QED BY <1>2, <1>3, <1>4, <1>5, <1>8, <1>9, <1>10, <2>1 DEF insert, place
<1>14. CASE Streams = {x}
  <2>1. Bit(n.matched) = 1
    BY <1>1, <1>14 DEF Bit
  <2>2. Inserted(c, r, a, n)
    BY <1>3, <1>7, <1>9, <1>12, <2>1 DEF Inserted, Limits
  <2> QED BY <1>1, <1>2, <1>13, <1>14, <2>2
<1>15. CASE Streams # {x}
  <2>1. Bit(n.matched) = 0
    BY <1>1, <1>15 DEF Bit
  <2>2. d.match_cnt = c.match_cnt + 0
    BY <1>6, <1>7 DEF Channel
  <2>3. Inserted(c, d, a, n)
    BY <1>3, <1>7, <2>1, <2>2 DEF Inserted
  <2> QED BY <1>1, <1>2, <1>13, <1>15, <2>3
<1> QED BY <1>14, <1>15

LEMMA Insert ==
  ASSUME NEW l, NEW x, NEW f, NEW m, Arrives(l, x, f, m),
         NEW g, NEW h, Holds(g, h, x),
         NEW c, Sound(c, g, l), Refused(c, x, f),
         Hits(c.que, Unmatched) <= c.attr.max_unmatched
  PROVE  Sound(insert(c, x, f), h, m) /\ insert(c, x, f).sent = c.sent
<1>1. /\ l \in Lasts /\ m \in Lasts /\ x \in Streams /\ f \in Nat /\ f # 0
      /\ \A y \in Streams : l[y] \in Nat /\ m[y] \in Nat /\ l[y] <= m[y]
  BY ArrivesIs
<1>2. /\ c \in Channel /\ c.que \in Seq(Node) /\ Sane(c, l) /\ Rough(c, l) /\ Books(c, g) /\ First(c.que)
      /\ Loose(c.que, c.attr.low, c.sent, l) /\ c.match_cnt = Hits(c.que, Matched)
      /\ f \in Frames /\ c.sent \in Int /\ c.attr.max_unmatched \in Int
  <2>1. c \in Channel
    BY DEF Sound, Sane, Rough
  <2>2. c.sent \in Int /\ c.attr.max_unmatched \in Int
    BY <2>1, ChannelNumbers
  <2>3. c.que \in Seq(Node)
    BY <2>1 DEF Channel
  <2> QED BY <2>1, <2>2, <2>3 DEF Sound, Sane, Rough, Arrives
<1>3. PICK n : n = freshNode(c, x, f) /\ Fresh(n, c, x, f)
  BY <1>1, <1>2, FreshIs
<1>4. Fits(n, c.attr.low, m) /\ Later(n, c.sent, m)
  BY <1>2, <1>3, FreshFits
<1>5. PICK a : a = place(c, x, f)
  OBVIOUS
<1>6. /\ a \in 1 .. Len(c.que) + 1
      /\ \A k \in 1 .. Len(c.que) : k < a => Before(c.que[k], n, m)
      /\ \A k \in 1 .. Len(c.que) : a <= k => Before(n, c.que[k], m)
      /\ n.matched => \A k \in 1 .. Len(c.que) : c.que[k].matched
      /\ ~n.matched => \A k \in 1 .. Len(c.que) : a <= k => ~c.que[k].matched
  BY <1>2, <1>3, <1>5, Placed
<1>7. PICK d : d = insert(c, x, f) /\ Inserted(c, d, a, n)
  BY <1>1, <1>2, <1>3, <1>5, <1>6, InsertIs
<1>8. /\ Limits(c, d) /\ Cut(d.que, a, c.que) /\ d.que[a] = n /\ d.sent = c.sent /\ d.owed = c.owed
      /\ d.match_cnt = c.match_cnt + Bit(n.matched)
  BY <1>7 DEF Inserted
<1>9. d.que \in Seq(Node)
  BY <1>8 DEF Limits, Channel
<1>10. Loose(d.que, c.attr.low, c.sent, m)
  <2>1. Loose(c.que, c.attr.low, c.sent, m)
    BY <1>1, <1>2, LooseLater
  <2> QED BY <1>4, <1>6, <1>8, <1>9, <2>1, LooseInserted
<1>11. First(d.que)
  BY <1>2, <1>6, <1>8, <1>9, FirstInserted
<1>12. \A T : Hits(c.que, T) = Hits(d.que, T) - Bit(n \in T)
  BY <1>2, <1>8, <1>9, HitsCut
<1>13. \A T : Hits(c.que, T) \in Nat /\ Hits(d.que, T) \in Nat
  BY <1>2, <1>9, HitsOf
<1>14. n \in Node /\ (n \in Matched <=> n.matched) /\ (n \in Unmatched <=> ~n.matched)
  BY <1>3 DEF Fresh, Matched, Unmatched
<1>15. d.match_cnt = Hits(d.que, Matched)
  <2>1. Hits(c.que, Matched) = Hits(d.que, Matched) - Bit(n \in Matched)
    BY <1>12
  <2>2. Hits(c.que, Matched) \in Nat /\ Hits(d.que, Matched) \in Nat
    BY <1>13
  <2> QED BY <1>2, <1>8, <1>14, <2>1, <2>2 DEF Bit
<1>16. Hits(d.que, Unmatched) <= d.attr.max_unmatched + 1
  <2>1. Hits(c.que, Unmatched) = Hits(d.que, Unmatched) - Bit(n \in Unmatched)
    BY <1>12
  <2>2. Hits(c.que, Unmatched) \in Nat /\ Hits(d.que, Unmatched) \in Nat
    BY <1>13
  <2>3. d.attr.max_unmatched = c.attr.max_unmatched
    BY <1>8 DEF Limits
  <2> QED BY <1>2, <2>1, <2>2, <2>3 DEF Bit
<1>17. \A y \in Streams : d.sent <= m[y]
  BY <1>1, <1>2, <1>8 DEF Rough
<1>18. Rough(d, m)
  BY <1>8, <1>10, <1>15, <1>16, <1>17 DEF Rough, Limits
<1>19. Books(d, h)
  <2>1. ASSUME NEW y \in Streams
        PROVE  d.owed[y] = d.lost[y] + Hits(d.que, Fills(y)) + h[y]
    <3>1. Hits(c.que, Fills(y)) = Hits(d.que, Fills(y)) - Bit(n \in Fills(y))
      BY <1>12
    <3>2. n \in Fills(y) <=> y = x
      BY <1>1, <1>3 DEF Fresh, Fills
    <3>3. /\ Hits(c.que, Fills(y)) \in Nat /\ Hits(d.que, Fills(y)) \in Nat
          /\ c.lost[y] \in Int /\ h[y] \in Int /\ g[y] = h[y] + Bit(y = x)
      BY <1>2, <1>13 DEF Channel, Holds
    <3>4. c.owed[y] = c.lost[y] + Hits(c.que, Fills(y)) + g[y]
      BY <1>2 DEF Books
    <3>5. d.lost = c.lost /\ d.owed = c.owed
      BY <1>8 DEF Limits
    <3>6. Bit(n \in Fills(y)) = Bit(y = x)
      BY <3>2 DEF Bit
    <3>7. PICK b \in Int : b = Bit(y = x)
      BY DEF Bit
    <3> QED BY <3>1, <3>3, <3>4, <3>5, <3>6, <3>7
  <2> QED BY <2>1 DEF Books
<1> QED BY <1>7, <1>8, <1>11, <1>18, <1>19 DEF Sound, Sane

LEMMA SoundLater ==
  ASSUME NEW l \in Lasts, NEW m \in Lasts, \A y \in Streams : l[y] <= m[y],
         NEW c, NEW h, Sound(c, h, l)
  PROVE  Sound(c, h, m)
<1>1. Loose(c.que, c.attr.low, c.sent, l) /\ c.sent \in Int /\ \A y \in Streams : c.sent <= l[y]
  BY ChannelNumbers DEF Sound, Sane, Rough
<1>2. Loose(c.que, c.attr.low, c.sent, m)
  BY <1>1, LooseLater
<1>3. \A y \in Streams : c.sent <= m[y]
  <2>1. \A y \in Streams : l[y] \in Int /\ m[y] \in Int
    BY SuperbufQueueAssumption DEF Lasts
  <2> QED BY <1>1, <2>1
<1> QED BY <1>2, <1>3 DEF Sound, Sane, Rough

\* The buffer that arrived is returned at once.
LEMMA Returned ==
  ASSUME NEW g, NEW h, NEW x, Holds(g, h, x), NEW l, NEW c, Sound(c, g, l)
  PROVE  Sound(qbuf(c, x), h, l) /\ qbuf(c, x).sent = c.sent
<1>1. c \in Channel /\ Sane(c, l) /\ Books(c, g)
  BY DEF Sound, Sane, Rough
<1>2. PICK d : d = qbuf(c, x)
  OBVIOUS
<1>3. /\ Limits(c, d) /\ d.attr = c.attr /\ d.que = c.que /\ d.match_cnt = c.match_cnt /\ d.sent = c.sent
      /\ \A y \in Streams : d.owed[y] = c.owed[y] - Bit(y \in {x})
  BY <1>1, <1>2, LeaveIs DEF qbuf
<1>4. Sane(d, l)
  BY <1>1, <1>3 DEF Sane, Rough, Limits
<1>5. ASSUME NEW y \in Streams
      PROVE  d.owed[y] = d.lost[y] + Hits(d.que, Fills(y)) + h[y]
  <2>1. c.owed[y] = c.lost[y] + Hits(c.que, Fills(y)) + g[y] /\ g[y] = h[y] + Bit(y = x) /\ h[y] \in Int
    BY <1>1 DEF Books, Holds
  <2>2. c.lost[y] \in Int /\ Hits(c.que, Fills(y)) \in Int
    BY <1>1, HitsOf DEF Channel
  <2>3. d.lost = c.lost
    BY <1>3 DEF Limits
  <2>4. Bit(y \in {x}) = Bit(y = x) /\ Bit(y = x) \in Int
    BY DEF Bit
  <2>5. PICK b \in Int : b = Bit(y = x)
    BY <2>4
  <2>6. d.owed[y] = c.owed[y] - b
    BY <1>3, <2>4, <2>5
  <2> QED BY <1>3, <2>1, <2>2, <2>3, <2>5, <2>6
<1>6. Books(d, h)
  BY <1>5 DEF Books
<1> QED BY <1>2, <1>3, <1>4, <1>6 DEF Sound

\* The node that makes room is there and unmatched.
LEMMA RoomIs ==
  ASSUME NEW c \in Channel, First(c.que), NEW x, NEW f, Refused(c, x, f), older(c, x, f) # {}
  PROVE  room(c, x, f) \in 1 .. Len(c.que) /\ ~c.que[room(c, x, f)].matched
<1>1. c.que \in Seq(Node) /\ Len(c.que) \in Nat
  BY LenProperties DEF Channel
<1>2. older(c, x, f) = {i \in 1 .. Len(c.que) : ~c.que[i].matched /\ c.que[i].frame < f}
  BY PassedAll
<1>3. PICK s : s = Least(older(c, x, f)) /\ s \in older(c, x, f)
  <2>1. older(c, x, f) \in SUBSET Nat
    BY <1>2
  <2> QED BY <2>1, LeastIsLeast
<1>4. s \in 1 .. Len(c.que) /\ ~c.que[s].matched
  BY <1>2, <1>3
<1>5. PICK S : S = {i \in s .. Len(c.que) :
                     ~c.que[i].exp /\ (newer(c, x, f) = {} \/ i # Least(newer(c, x, f)))}
  OBVIOUS
<1>6. room(c, x, f) = IF S = {} THEN s ELSE Least(S)
  BY <1>3, <1>5 DEF room
<1>7. CASE S = {}
  BY <1>4, <1>6, <1>7
<1>8. CASE S # {}
  <2>1. S \in SUBSET Nat
    BY <1>4, <1>5
  <2>2. Least(S) \in S
    BY <1>8, <2>1, LeastIsLeast
  <2>3. PICK i : i = room(c, x, f) /\ i \in s .. Len(c.que)
    BY <1>5, <1>6, <1>8, <2>2
  <2>4. i \in 1 .. Len(c.que) /\ (i = s \/ s < i)
    BY <1>1, <1>4, <2>3
  <2>5. ~c.que[i].matched
    BY <1>4, <2>4 DEF First
  <2> QED BY <2>3, <2>4, <2>5
<1> QED BY <1>7, <1>8

LEMMA Add ==
  ASSUME NEW l, NEW x, NEW f, NEW m, Arrives(l, x, f, m),
         NEW g, NEW h, Holds(g, h, x),
         NEW c, Sound(c, g, l), Refused(c, x, f)
  PROVE  Sound(add(c, x, f), h, m) /\ add(c, x, f).sent = c.sent
<1>1. l \in Lasts /\ m \in Lasts /\ \A y \in Streams : l[y] <= m[y]
  BY ArrivesIs
<1>2. /\ c \in Channel /\ c.que \in Seq(Node) /\ Len(c.que) \in Nat /\ Rough(c, l) /\ Books(c, g) /\ First(c.que)
      /\ Hits(c.que, Unmatched) <= c.attr.max_unmatched + 1
      /\ c.attr.max_unmatched \in Int
  BY LenProperties DEF Sound, Sane, Rough, Channel, Attributes
<1>3. Hits(c.que, Unmatched) \in Nat
  BY <1>2, HitsOf
<1>4. PICK full \in BOOLEAN : full <=> Hits(c.que, Unmatched) > c.attr.max_unmatched
  OBVIOUS
<1>5. Cardinality(passed(c, x, f)) > c.attr.max_unmatched <=> full
  <2>1. passed(c, x, f) = {i \in 1 .. Len(c.que) : c.que[i] \in Unmatched}
    BY <1>2, PassedAll
  <2>2. Cardinality(passed(c, x, f)) = Hits(c.que, Unmatched)
    BY <2>1 DEF Hits
  <2> QED BY <1>4, <2>2
<1>6. CASE full /\ older(c, x, f) = {}
  <2>1. add(c, x, f) = qbuf(c, x)
    BY <1>5, <1>6 DEF add
  <2>2. Sound(qbuf(c, x), h, l) /\ qbuf(c, x).sent = c.sent
    BY Returned
  <2>3. Sound(qbuf(c, x), h, m)
    BY <1>1, <2>2, SoundLater
  <2> QED BY <2>1, <2>2, <2>3
<1>7. CASE full /\ older(c, x, f) # {}
  <2>1. PICK i \in 1 .. Len(c.que) : i = room(c, x, f) /\ ~c.que[i].matched
    BY <1>2, <1>7, RoomIs
  <2>2. PICK d : d = remove(c, i)
    OBVIOUS
  <2>3. g \in [Streams -> Int]
    BY DEF Holds
  <2>4. /\ Rough(d, l) /\ Books(d, g) /\ Limits(c, d) /\ Cut(c.que, i, d.que) /\ d.attr = c.attr /\ d.sent = c.sent
        /\ Hits(d.que, Unmatched) = Hits(c.que, Unmatched) - 1 /\ Len(d.que) = Len(c.que) - 1
    BY <1>2, <2>1, <2>2, <2>3, RemoveOne
  <2>5. d.que \in Seq(Node)
    BY <2>4 DEF Limits, Channel
  <2>6. First(d.que)
    BY <1>2, <2>4, <2>5, FirstCut
  <2>7. Sound(d, g, l)
    BY <2>4, <2>6 DEF Sound, Sane
  <2>8. Refused(d, x, f)
    <3> SUFFICES ASSUME NEW k \in 1 .. Len(d.que)
                 PROVE  ~takes(d, d.que[k], x, f)
      BY DEF Refused
    <3>1. PICK j \in 1 .. Len(c.que) : d.que[k] = c.que[j]
      <4>1. d.que[k] = c.que[IF k < i THEN k ELSE k + 1]
        BY <2>4 DEF Cut
      <4>2. (IF k < i THEN k ELSE k + 1) \in 1 .. Len(c.que)
        BY <1>2, <2>1, <2>4
      <4> QED BY <4>1, <4>2
    <3>2. ~takes(c, c.que[j], x, f)
      BY DEF Refused
    <3> QED BY <2>4, <3>1, <3>2 DEF takes
  <2>9. Hits(d.que, Unmatched) <= d.attr.max_unmatched
    BY <1>2, <1>3, <2>4
  <2>10. Sound(insert(d, x, f), h, m) /\ insert(d, x, f).sent = d.sent
    BY <2>7, <2>8, <2>9, Insert
  <2>11. add(c, x, f) = insert(d, x, f)
    BY <1>5, <1>7, <2>1, <2>2 DEF add
  <2> QED BY <2>4, <2>10, <2>11
<1>8. CASE ~full
  <2>1. add(c, x, f) = insert(c, x, f)
    BY <1>5, <1>8 DEF add
  <2>2. Hits(c.que, Unmatched) <= c.attr.max_unmatched
    BY <1>2, <1>3, <1>4, <1>8
  <2> QED BY <2>1, <2>2, Insert
<1> QED BY <1>6, <1>7, <1>8

\* mm_channel_superbuf_comp_and_enqueue: the buffer of x comes in, and is
\* then in the queue or returned.
LEMMA CompEnqueue ==
  ASSUME NEW l, NEW x, NEW f, NEW m, Arrives(l, x, f, m),
         NEW h \in [Streams -> Nat], NEW c, Sound(c, h, l), NEW md \in News
  PROVE  Sound(comp_and_enqueue(c, x, f, md), h, m) /\ comp_and_enqueue(c, x, f, md).sent = c.sent
<1>1. /\ l \in Lasts /\ m \in Lasts /\ x \in Streams /\ f \in Frames
      /\ \A y \in Streams : l[y] <= m[y]
  BY ArrivesIs DEF Arrives
<1>2. c \in Channel /\ Sane(c, l) /\ Books(c, h)
  BY DEF Sound, Sane, Rough
<1>3. PICK g \in [Streams -> Nat] : \A y \in Streams : g[y] = h[y] + Bit(y = x)
  <2>1. [y \in Streams |-> h[y] + Bit(y = x)] \in [Streams -> Nat]
    BY DEF Bit
  <2> QED BY <2>1
<1>4. Holds(g, h, x)
  BY <1>3 DEF Holds
<1>5. PICK o \in [Streams -> Int] : /\ o = [c.owed EXCEPT ![x] = @ + 1]
                                    /\ \A y \in Streams : o[y] = c.owed[y] + Bit(y = x)
  <2>1. c.owed \in [Streams -> Int]
    BY <1>2 DEF Channel
  <2>2. [c.owed EXCEPT ![x] = @ + 1] \in [Streams -> Int]
    <3>1. x \in Streams /\ c.owed[x] + 1 \in Int
      BY <1>1, <2>1
    <3> QED BY <2>1, <3>1
  <2>3. \A y \in Streams : [c.owed EXCEPT ![x] = @ + 1][y] = c.owed[y] + Bit(y = x)
    BY <2>1 DEF Bit
  <2> QED BY <2>2, <2>3
<1>6. PICK b : b = [c EXCEPT !.owed = o]
  OBVIOUS
<1>7. [c EXCEPT !.owed[x] = @ + 1] = b
  BY <1>5, <1>6
<1>8. b \in Channel
  BY <1>2, <1>6 DEF Channel
<1>9. /\ Limits(c, b) /\ b.attr = c.attr /\ b.que = c.que /\ b.match_cnt = c.match_cnt
      /\ b.owed = o /\ b.sent = c.sent
  BY <1>2, <1>6, <1>8 DEF Channel, Limits
<1>10. Sound(b, g, l)
  <2>1. Sane(b, l)
    BY <1>2, <1>9 DEF Sane, Rough, Limits
  <2>2. ASSUME NEW y \in Streams
        PROVE  b.owed[y] = b.lost[y] + Hits(b.que, Fills(y)) + g[y]
    <3>1. c.owed[y] = c.lost[y] + Hits(c.que, Fills(y)) + h[y] /\ b.lost = c.lost
      BY <1>2, <1>9 DEF Books, Limits
    <3>2. c.lost[y] \in Int /\ Hits(c.que, Fills(y)) \in Int
      BY <1>2, HitsOf DEF Channel
    <3>3. PICK e \in Int : e = Bit(y = x)
      BY DEF Bit
    <3>4. o[y] = c.owed[y] + e /\ g[y] = h[y] + e /\ h[y] \in Int
      BY <1>3, <1>5, <3>3
    <3> QED BY <1>9, <3>1, <3>2, <3>4
  <2>3. Books(b, g)
    BY <2>2 DEF Books
  <2> QED BY <2>1, <2>3 DEF Sound
<1>11. PICK d : d = handle_metadata(b, x, f, md) /\ Sound(d, g, l) /\ d.sent = b.sent
  BY <1>1, <1>10, Handled
<1>12. d.que \in Seq(Node) /\ Len(d.que) \in Nat /\ DOMAIN d.que = 1 .. Len(d.que)
  BY <1>11, LenProperties DEF Sound, Sane, Rough, Channel
<1>13. PICK H : H = {i \in 1 .. Len(d.que) : takes(d, d.que[i], x, f)}
  OBVIOUS
<1>14. comp_and_enqueue(c, x, f, md) =
         IF f < d.expected /\ ~validate_super_buf(d, f) THEN qbuf(d, x)
         ELSE IF H # {} THEN fill(d, Least(H), x, f)
         ELSE add(d, x, f)
  BY <1>7, <1>11, <1>12, <1>13 DEF comp_and_enqueue
<1>15. PICK e : e = comp_and_enqueue(c, x, f, md)
  OBVIOUS
<1>16. CASE f < d.expected /\ ~validate_super_buf(d, f)
  <2>1. Sound(qbuf(d, x), h, l) /\ qbuf(d, x).sent = d.sent
    BY <1>4, <1>11, Returned
  <2>2. Sound(qbuf(d, x), h, m)
    BY <1>1, <2>1, SoundLater
  <2> QED BY <1>9, <1>11, <1>14, <1>16, <2>1, <2>2
<1>17. CASE ~(f < d.expected /\ ~validate_super_buf(d, f)) /\ H # {}
  <2>1. H \in SUBSET Nat
    BY <1>13
  <2>2. PICK p : p = Least(H) /\ p \in H /\ \A i \in H : p <= i
    BY <1>17, <2>1, LeastIsLeast
  <2>3. p \in 1 .. Len(d.que) /\ takes(d, d.que[p], x, f)
    BY <1>13, <2>2
  <2>4. ASSUME NEW i \in 1 .. Len(d.que), i < p
        PROVE  ~takes(d, d.que[i], x, f)
    <3>1. i \notin H
      BY <1>12, <2>2, <2>3, <2>4
    <3> QED BY <1>13, <3>1
  <2>5. FirstTaker(d, p, x, f)
    BY <2>3, <2>4 DEF FirstTaker
  <2>6. Sound(fill(d, p, x, f), h, m) /\ fill(d, p, x, f).sent = d.sent
    BY <1>4, <1>11, <2>5, Fill
  <2> QED BY <1>9, <1>11, <1>14, <1>17, <2>2, <2>6
<1>18. CASE ~(f < d.expected /\ ~validate_super_buf(d, f)) /\ H = {}
  <2>1. Refused(d, x, f)
    BY <1>13, <1>18 DEF Refused
  <2>2. Sound(add(d, x, f), h, m) /\ add(d, x, f).sent = d.sent
    BY <1>4, <1>11, <2>1, Add
  <2> QED BY <1>9, <1>11, <1>14, <1>18, <2>2
<1> QED BY <1>16, <1>17, <1>18

-----------------------------------------------------------------------------
(* After every command: room is made and what is due is sent.                *)

LEMMA StartZslIs ==
  ASSUME NEW c \in Channel
  PROVE  Alike(c, startZsl(c)) /\ startZsl(c).attr = c.attr
<1>1. startZsl(c) \in Channel
  BY ZenonT(40) DEF Channel, startZsl
<1>2. /\ startZsl(c).attr = c.attr /\ startZsl(c).que = c.que /\ startZsl(c).match_cnt = c.match_cnt
      /\ startZsl(c).owed = c.owed /\ startZsl(c).lost = c.lost /\ startZsl(c).sent = c.sent
  BY DEF Channel, startZsl
<1> QED BY <1>1, <1>2 DEF Alike, Limits

LEMMA TriggerIs ==
  ASSUME NEW c \in Channel
  PROVE  Alike(c, triggerZsl(c)) /\ triggerZsl(c).attr = c.attr
<1>1. Alike(c, startZsl(c)) /\ startZsl(c).attr = c.attr
  BY StartZslIs
<1>2. PICK d : d = stopZsl(c) /\ Alike(c, d) /\ d.attr = c.attr
  BY StopZslIs
<1>3. PICK e : e = [d EXCEPT !.wait_prep = FALSE]
  OBVIOUS
<1>4. Alike(d, e) /\ e.attr = d.attr
  <2>1. d \in Channel
    BY <1>2 DEF Alike, Limits
  <2>2. e \in Channel
    BY <1>3, <2>1, ZenonT(40) DEF Channel
  <2> QED BY <1>3, <2>1, <2>2 DEF Channel, Alike, Limits
<1>5. Alike(c, e) /\ e.attr = c.attr
  BY <1>2, <1>4, AlikeTrans
<1>6. Alike(c, c)
  BY AlikeSelf
<1>7. triggerZsl(c) \in {startZsl(c), e, c}
  BY <1>2, <1>3 DEF triggerZsl
<1> QED BY <1>1, <1>5, <1>6, <1>7

Drained(c) == burst(c) => c.match_cnt <= c.attr.water_mark

\* What process leaves of c.
processed(c) == dispatch(superbuf_bufdone_overflow(triggerZsl(c)))

LEMMA Processed ==
  ASSUME NEW c, NEW h \in [Streams -> Int], NEW l \in Lasts, Sound(c, h, l)
  PROVE  /\ Sound(processed(c), h, l)
         /\ Drained(processed(c))
         /\ processed(c).sent >= c.sent
<1>1. c \in Channel
  BY DEF Sound, Sane, Rough
<1>2. PICK d : d = triggerZsl(c) /\ Alike(c, d) /\ d.attr = c.attr
  BY <1>1, TriggerIs
<1>3. Sound(d, h, l) /\ d.sent = c.sent
  BY <1>2, AlikeSound DEF Alike
<1>4. PICK e : e = superbuf_bufdone_overflow(d)
  OBVIOUS
<1>5. Sound(e, h, l) /\ Drained(e) /\ e.sent = c.sent
  <2>1. CASE burst(d)
    <3>1. PICK n \in Nat : n = d.attr.water_mark
      BY <1>3 DEF Sound, Sane, Rough, Channel, Attributes
    <3>2. /\ Sound(dropDownTo(d, n), h, l) /\ dropDownTo(d, n).attr = d.attr
          /\ dropDownTo(d, n).sent = d.sent /\ dropDownTo(d, n).match_cnt <= n
      BY <1>3, DropDownTo
    <3>3. e = dropDownTo(d, n)
      BY <1>4, <2>1, <3>1 DEF superbuf_bufdone_overflow
    <3> QED BY <1>3, <3>1, <3>2, <3>3 DEF Drained
  <2>2. CASE ~burst(d)
    <3>1. e = d
      BY <1>4, <2>2 DEF superbuf_bufdone_overflow
    <3> QED BY <1>3, <2>2, <3>1 DEF Drained
  <2> QED BY <2>1, <2>2
<1>6. PICK r : r = dispatch(e)
  OBVIOUS
<1>7. Sound(r, h, l) /\ r.attr = e.attr /\ r.match_cnt <= e.match_cnt /\ r.sent >= e.sent
  BY <1>5, <1>6, Dispatch
<1>8. Drained(r)
  <2>1. r.match_cnt \in Int /\ e.match_cnt \in Int /\ e.attr.water_mark \in Int
    BY <1>5, <1>7 DEF Sound, Sane, Rough, Channel, Attributes
  <2>2. burst(r) <=> burst(e)
    BY <1>7 DEF burst
  <2> QED BY <1>5, <1>7, <2>1, <2>2 DEF Drained
<1>9. processed(c) = r
  BY <1>2, <1>4, <1>6 DEF processed
<1> QED BY <1>5, <1>7, <1>8, <1>9

-----------------------------------------------------------------------------
(* The invariant: between two commands no buffer is on its way.              *)

None == [y \in Streams |-> 0]

LEMMA NoneIs == None \in [Streams -> Nat] /\ None \in [Streams -> Int] /\ \A y \in Streams : None[y] = 0
BY DEF None

States == {"starting", "active", "stopped", "failed"}

Inv ==
  /\ last \in Lasts
  /\ Sound(ch, None, last)
  /\ Drained(ch)
  /\ state \in States
  /\ events \in 0 .. MaxEvents
  /\ state \in {"stopped", "failed"} => ch.que = <<>>

\* An empty queue has no matches, and is always within its limits.
LEMMA Emptied ==
  ASSUME NEW c \in Channel, c.que = <<>>
  PROVE  /\ \A T : Hits(c.que, T) = 0
         /\ c.match_cnt = 0 => Drained(c)
         /\ \A l \in Lasts : c.match_cnt = 0 /\ (\A y \in Streams : c.sent <= l[y]) => Sane(c, l)
<1>1. c.que \in Seq(Node) /\ Len(c.que) = 0 /\ 1 .. Len(c.que) = {}
  BY EmptySeq
<1>2. \A T : Hits(c.que, T) = 0
  BY <1>1, HitsOf
<1>3. c.attr.max_unmatched \in Nat /\ c.attr.water_mark \in Nat
  BY DEF Channel, Attributes
<1>4. c.match_cnt = 0 => Drained(c)
  BY <1>3 DEF Drained
<1>5. ASSUME NEW l \in Lasts, c.match_cnt = 0, \A y \in Streams : c.sent <= l[y]
      PROVE  Sane(c, l)
  <2>1. First(c.que)
    BY <1>1 DEF First
  <2>2. Loose(c.que, c.attr.low, c.sent, l)
    BY <1>1 DEF Loose
  <2> QED BY <1>2, <1>3, <1>5, <2>1, <2>2 DEF Sane, Rough
<1> QED BY <1>2, <1>4, <1>5

LEMMA InitInv ==
  ASSUME Init
  PROVE  Inv
<1>1. PICK a \in Attrs :
        ch = [attr |-> a, que |-> <<>>, match_cnt |-> 0,
              expected |-> a.user_expected, good |-> 0, without_led |-> 0,
              led_off |-> 0, led_skip |-> 0, once |-> FALSE,
              diverted |-> 0, pending |-> 0, retro |-> 0, wait_prep |-> FALSE,
              need_led |-> FALSE, bracketing |-> "OFF", flash_br |-> FALSE,
              zoom1x |-> FALSE, start_zsl |-> FALSE, stop_zsl |-> FALSE,
              manual_zsl |-> FALSE, burst_num |-> 0, unlock_aec |-> FALSE,
              zsl |-> FALSE,
              owed |-> [x \in Streams |-> 0],
              lost |-> [x \in Streams |-> 0],
              sent |-> 0]
  BY DEF Init
<1>2. last = [x \in Streams |-> 0] /\ state = "starting" /\ events = 0
  BY DEF Init
<1>3. a \in Attributes
  BY SuperbufQueueAssumption DEF Attributes, Num
<1>4. 0 \in Num /\ 0 \in 0 .. MaxFrame /\ 0 \in 0 .. MaxEvents /\ a.user_expected \in Num
  BY <1>3, SuperbufQueueAssumption DEF Num, Attributes
<1>5. PICK z \in [Streams -> Nat] : z = [x \in Streams |-> 0]
  OBVIOUS
<1>6. z \in [Streams -> Int] /\ z \in Lasts /\ \A y \in Streams : z[y] = 0
  BY <1>4, <1>5 DEF Lasts
<1>7. PICK q \in Seq(Node) : q = <<>>
  BY EmptySeq
<1>8. ch \in Channel
  BY <1>1, <1>3, <1>4, <1>5, <1>6, <1>7 DEF Channel
<1>9. ch.que = <<>> /\ ch.match_cnt = 0 /\ ch.sent = 0 /\ ch.owed = z /\ ch.lost = z
  BY <1>1, <1>5
<1>10. Sane(ch, last) /\ Drained(ch)
  <2>1. last \in Lasts /\ \A y \in Streams : ch.sent <= last[y]
    BY <1>2, <1>5, <1>6, <1>9
  <2> QED BY <1>8, <1>9, <2>1, Emptied
<1>11. Books(ch, None)
  <2>1. \A y \in Streams : Hits(ch.que, Fills(y)) = 0
    BY <1>8, <1>9, Emptied
  <2> QED BY <1>6, <1>9, <2>1, NoneIs DEF Books
<1> QED BY <1>2, <1>4, <1>5, <1>6, <1>9, <1>10, <1>11 DEF Inv, Sound, States

\* What a step keeps: the invariant, and superbufs are sent in order.
Step == Inv' /\ (ch'.sent >= ch.sent \/ ch'.sent = 0)

\* A command that ends in process, after c.
LEMMA CommandEnds ==
  ASSUME Inv, NEW c, Sound(c, None, last'), c.sent = ch.sent, process(c),
         last' \in Lasts, state' \in {"starting", "active"}, events' \in 0 .. MaxEvents
  PROVE  Step
<1>1. PICK d : d = processed(c) /\ Sound(d, None, last') /\ Drained(d) /\ d.sent >= c.sent
  BY NoneIs, Processed
<1>2. ch' = d
  BY <1>1 DEF process, processed
<1>3. Sound(ch', None, last') /\ Drained(ch') /\ ch'.sent >= ch.sent
  BY <1>1, <1>2
<1>4. Drained(ch)'
  BY <1>3 DEF Drained, burst
<1>5. Sound(ch, None, last)'
  BY <1>3 DEF Sound, Sane, Rough, Books, None
<1> QED BY <1>3 DEF Step, Inv, States, Drained, burst

\* What process starts from in a command of an active channel.
LEMMA ActiveCommand ==
  ASSUME Inv, NEW c, Alike(ch, c) \/ (Sound(c, None, last) /\ c.sent = ch.sent),
         process(c), last' = last, state' = state, state = "active", events' \in 0 .. MaxEvents
  PROVE  Step
<1>1. Sound(ch, None, last) /\ last \in Lasts
  BY DEF Inv
<1>2. Sound(c, None, last) /\ c.sent = ch.sent
  <2>1. CASE Alike(ch, c)
    BY <1>1, <2>1, AlikeSound DEF Alike
  <2> QED BY <2>1
<1>3. Sound(c, None, last') /\ last' \in Lasts /\ state' \in {"starting", "active"}
  BY <1>1, <1>2
<1> QED BY <1>2, <1>3, CommandEnds

LEMMA EventIs ==
  ASSUME Inv, event
  PROVE  events' \in 0 .. MaxEvents
<1>1. events \in Nat /\ MaxEvents \in Nat /\ events < MaxEvents /\ events' = events + 1
  BY SuperbufQueueAssumption DEF Inv, event
<1> QED BY <1>1

LEMMA ChannelIs ==
  ASSUME Inv
  PROVE  ch \in Channel /\ last \in Lasts /\ Sound(ch, None, last) /\ Sane(ch, last) /\ events \in 0 .. MaxEvents
BY DEF Inv, Sound, Sane, Rough

LEMMA DataCbKeeps ==
  ASSUME Inv, NEW x \in Streams, NEW f \in Frames, DataCb(x, f)
  PROVE  Step
<1>1. /\ state \in {"starting", "active"} /\ f > last[x]
      /\ last' = [last EXCEPT ![x] = f] /\ state' = state
  BY DEF DataCb
<1>2. last \in Lasts /\ Sound(ch, None, last) /\ events \in 0 .. MaxEvents
  BY ChannelIs
<1>3. f \in 0 .. MaxFrame
  BY SuperbufQueueAssumption DEF Frames
<1>4. last' \in Lasts
  BY <1>1, <1>2, <1>3 DEF Lasts
<1>5. Arrives(last, x, f, last')
  BY <1>1, <1>2, <1>4 DEF Arrives
<1>6. ASSUME NEW md \in News, process(comp_and_enqueue(ch, x, f, md)), events' \in 0 .. MaxEvents
      PROVE  Step
  <2>1. PICK c : /\ c = comp_and_enqueue(ch, x, f, md)
                 /\ Sound(c, None, last') /\ c.sent = ch.sent
    BY <1>2, <1>5, NoneIs, CompEnqueue
  <2>2. process(c)
    BY <1>6, <2>1
  <2>3. state' \in {"starting", "active"}
    BY <1>1
  <2> QED BY <1>4, <1>6, <2>1, <2>2, <2>3, CommandEnds
<1>7. CASE process(comp_and_enqueue(ch, x, f, NoNews)) /\ UNCHANGED events
  <2>1. NoNews \in News
    BY DEF NoNews, News
  <2>2. events' \in 0 .. MaxEvents
    BY <1>2, <1>7
  <2> QED BY <1>6, <1>7, <2>1, <2>2
<1>8. CASE event /\ \E md \in Metadata : process(comp_and_enqueue(ch, x, f, md))
  <2>1. PICK md \in Metadata : process(comp_and_enqueue(ch, x, f, md))
    BY <1>8
  <2>2. md \in News
    BY SuperbufQueueAssumption DEF News, GoodNews, Num
  <2>3. events' \in 0 .. MaxEvents
    BY <1>8, EventIs
  <2> QED BY <1>6, <2>1, <2>2, <2>3
<1> QED BY <1>7, <1>8 DEF DataCb

LEMMA RequestKeeps ==
  ASSUME Inv, NEW r \in Requests, RequestSuperBuf(r[1], r[2])
  PROVE  Step
<1>1. PICK n \in Nat : n = r[1]
  BY SuperbufQueueAssumption
<1>2. PICK t \in Nat : t = IF r[2] > r[1] THEN r[1] ELSE r[2]
  BY SuperbufQueueAssumption
<1>3. PICK b \in BOOLEAN : b = (ch.need_led /\ t = 0)
  OBVIOUS
<1>4. PICK d : d = [ch EXCEPT !.pending = n, !.retro = t, !.wait_prep = FALSE, !.need_led = b,
                              !.stop_zsl = FALSE, !.unlock_aec = FALSE]
  OBVIOUS
<1>5. process(superbuf_skip(d)) /\ last' = last /\ state' = state /\ state = "active" /\ event
  BY <1>1, <1>2, <1>3, <1>4 DEF RequestSuperBuf
<1>6. ch \in Channel /\ Sound(ch, None, last)
  BY ChannelIs
<1>7. d \in Channel
  BY <1>4, <1>6, ZenonT(40) DEF Channel
<1>8. Alike(ch, d)
  BY <1>4, <1>6, <1>7 DEF Channel, Alike, Limits
<1>9. Sound(d, None, last) /\ d.sent = ch.sent
  BY <1>6, <1>8, AlikeSound DEF Alike
<1>10. PICK e : e = superbuf_skip(d)
  OBVIOUS
<1>11. Sound(e, None, last) /\ e.sent = ch.sent
  <2>1. CASE burst(d)
    <3>1. PICK k \in Nat : k = d.attr.look_back
      BY <1>7 DEF Channel, Attributes
    <3>2. Sound(dropDownTo(d, k), None, last) /\ dropDownTo(d, k).sent = d.sent
      BY <1>9, NoneIs, DropDownTo
    <3> QED BY <1>9, <1>10, <2>1, <3>1, <3>2 DEF superbuf_skip
  <2>2. CASE ~burst(d)
    BY <1>9, <1>10, <2>2 DEF superbuf_skip
  <2> QED BY <2>1, <2>2
<1>12. process(e)
  BY <1>5, <1>10
<1>13. events' \in 0 .. MaxEvents
  BY <1>5, EventIs
<1> QED BY <1>5, <1>11, <1>12, <1>13, ActiveCommand

\* The client's flush, the other commands' and that of a stop.
LEMMA Flushed ==
  ASSUME NEW c, NEW l, Sound(c, None, l), NEW d, d = superbuf_flush(c, Streams)
  PROVE  Sound(d, None, l) /\ Drained(d) /\ d.que = <<>> /\ d.match_cnt = 0 /\ d.sent = c.sent
<1>1. Sound(d, None, l) /\ d.que = <<>> /\ d.sent = c.sent
  BY NoneIs, Flush
<1>2. d \in Channel /\ d.match_cnt = Hits(d.que, Matched)
  BY <1>1 DEF Sound, Sane, Rough
<1> QED BY <1>1, <1>2, Emptied

LEMMA FlushQueueKeeps ==
  ASSUME Inv, NEW f \in 0 .. MaxFrame, FlushQueue(f)
  PROVE  Step
<1>1. ch \in Channel /\ Sound(ch, None, last) /\ last \in Lasts
  BY ChannelIs
<1>2. f \in Num
  BY SuperbufQueueAssumption DEF Num
<1>3. PICK c : c = [ch EXCEPT !.expected = f] /\ Alike(ch, c)
  BY <1>1, <1>2, ExpectedSet
<1>4. Sound(c, None, last) /\ c.sent = ch.sent
  BY <1>1, <1>3, AlikeSound DEF Alike
<1>5. ch' = superbuf_flush(c, Streams) /\ last' = last /\ state' = state /\ state = "active" /\ event
  BY <1>3 DEF FlushQueue
<1>6. Sound(ch', None, last) /\ Drained(ch') /\ ch'.sent = ch.sent
  BY <1>4, <1>5, Flushed
<1>7. Sound(ch, None, last)'
  BY <1>5, <1>6 DEF Sound, Sane, Rough, Books, None
<1>8. ch.sent \in Int
  BY <1>1, ChannelNumbers
<1>9. events' \in 0 .. MaxEvents
  BY <1>5, EventIs
<1> QED BY <1>1, <1>5, <1>6, <1>7, <1>8, <1>9 DEF Step, Inv, States, Drained, burst

\* A failed start gives up what it did not return.
LEMMA StartFailsKeeps ==
  ASSUME Inv, NEW x \in Own, StartFails(x)
  PROVE  Step
<1>1. ch \in Channel /\ Sound(ch, None, last) /\ last \in Lasts /\ events \in 0 .. MaxEvents
  BY ChannelIs
<1>2. PICK b : b = [ch EXCEPT !.expected = 0] /\ Alike(ch, b)
  <2>1. 0 \in Num
    BY NumIs
  <2> QED BY <1>1, <2>1, ExpectedSet
<1>3. Sound(b, None, last) /\ b.sent = ch.sent
  BY <1>1, <1>2, AlikeSound DEF Alike
<1>4. PICK c : c = superbuf_flush(b, {x})
  OBVIOUS
<1>5. Sane(c, last) /\ c.que = <<>> /\ c.sent = b.sent /\ Covered(c)
  BY <1>3, <1>4, NoneIs, Flush
<1>6. c \in Channel /\ c.match_cnt = Hits(c.que, Matched) /\ \A y \in Streams : c.sent <= last[y]
  BY <1>5 DEF Sane, Rough
<1>7. \A T : Hits(c.que, T) = 0
  BY <1>5, <1>6, Emptied
<1>8. c.owed \in [Streams -> Nat]
  <2>1. c.owed \in [Streams -> Int]
    BY <1>6 DEF Channel
  <2>2. ASSUME NEW y \in Streams
        PROVE  c.owed[y] \in Nat
    <3>1. c.owed[y] >= c.lost[y] + Hits(c.que, Fills(y)) /\ c.lost[y] \in Nat /\ Hits(c.que, Fills(y)) = 0
      BY <1>5, <1>6, <1>7 DEF Covered, Channel
    <3>2. c.owed[y] \in Int
      BY <2>1
    <3> QED BY <3>1, <3>2
  <2> QED BY <2>1, <2>2
<1>9. PICK o \in [Streams -> Nat] : o = c.owed
  BY <1>8
<1>10. PICK a \in Attributes : a = Zero /\ a.water_mark = 0
  <2>1. Zero \in Attributes /\ Zero.water_mark = 0
    BY SuperbufQueueAssumption DEF Zero, Attributes, Num
  <2> QED BY <2>1
<1>11. PICK d : d = [c EXCEPT !.lost = o, !.attr = a, !.good = 0, !.without_led = 0, !.led_off = 0,
                              !.led_skip = 0, !.once = FALSE, !.wait_prep = FALSE]
  OBVIOUS
<1>12. ch' = d /\ state' = "failed" /\ last' = last /\ events' = events
  BY <1>2, <1>4, <1>9, <1>10, <1>11 DEF StartFails
<1>13. d \in Channel
  <2>1. 0 \in Num
    BY NumIs
  <2> QED BY <1>6, <1>11, <2>1, ZenonT(40) DEF Channel
<1>14. d.que = <<>> /\ d.match_cnt = 0 /\ d.sent = ch.sent /\ d.owed = o /\ d.lost = o
  <2>1. d.que = c.que /\ d.match_cnt = c.match_cnt /\ d.sent = c.sent /\ d.owed = c.owed /\ d.lost = o
    BY <1>6, <1>11 DEF Channel
  <2> QED BY <1>3, <1>5, <1>6, <1>7, <1>9, <2>1
<1>15. Sane(d, last) /\ Drained(d)
  <2>1. \A y \in Streams : d.sent <= last[y]
    BY <1>3, <1>5, <1>6, <1>14
  <2> QED BY <1>1, <1>13, <1>14, <2>1, Emptied
<1>16. Books(d, None)
  <2>1. \A y \in Streams : Hits(d.que, Fills(y)) = 0
    BY <1>13, <1>14, Emptied
  <2>2. \A y \in Streams : o[y] = o[y] + 0 + 0
    OBVIOUS
  <2> QED BY <1>14, <2>1, <2>2, NoneIs DEF Books
<1>17. Sound(ch, None, last)'
  BY <1>12, <1>15, <1>16 DEF Sound, Sane, Rough, Books, None
<1>18. ch.sent \in Int
  BY <1>1, ChannelNumbers
<1> QED BY <1>1, <1>12, <1>14, <1>15, <1>17, <1>18 DEF Step, Inv, States, Drained, burst

LEMMA StopKeeps ==
  ASSUME Inv, Stop
  PROVE  Step
<1>1. ch \in Channel /\ Sound(ch, None, last) /\ last \in Lasts
  BY ChannelIs
<1>0. 0 \in Num
  BY NumIs
<1>2. PICK b : b = [ch EXCEPT !.expected = 0] /\ Alike(ch, b)
  BY <1>0, <1>1, ExpectedSet
<1>3. Sound(b, None, last) /\ b.sent = ch.sent
  BY <1>1, <1>2, AlikeSound DEF Alike
<1>4. PICK c : c = superbuf_flush(b, Streams)
  OBVIOUS
<1>5. Sound(c, None, last) /\ Drained(c) /\ c.que = <<>> /\ c.match_cnt = 0 /\ c.sent = ch.sent
  BY <1>3, <1>4, Flushed
<1>6. PICK d : d = [c EXCEPT !.good = 0, !.match_cnt = 0]
  OBVIOUS
<1>7. ch' = d /\ state' = "stopped" /\ last' = last /\ event
  BY <1>2, <1>4, <1>6 DEF Stop
<1>8. c \in Channel
  BY <1>5 DEF Sound, Sane, Rough
<1>9. d \in Channel
  <2>1. PICK z \in Num : z = 0
    BY <1>0
  <2>2. PICK k \in Int : k = 0
    OBVIOUS
  <2>3. d = [c EXCEPT !.good = z, !.match_cnt = k]
    BY <1>6, <2>1, <2>2
  <2> HIDE DEF Num
  <2> QED BY <1>8, <2>3 DEF Channel
<1>10. Alike(c, d)
  BY <1>5, <1>6, <1>8, <1>9 DEF Channel, Alike, Limits
<1>11. Sound(d, None, last) /\ d.que = <<>> /\ d.match_cnt = 0 /\ d.sent = ch.sent
  BY <1>5, <1>10, AlikeSound DEF Alike
<1>12. Drained(d)
  BY <1>9, <1>11, Emptied
<1>13. Sound(ch, None, last)'
  BY <1>7, <1>11 DEF Sound, Sane, Rough, Books, None
<1>14. ch.sent \in Int
  BY <1>1, ChannelNumbers
<1>15. events' \in 0 .. MaxEvents
  BY <1>7, EventIs
<1> QED BY <1>1, <1>7, <1>11, <1>12, <1>13, <1>14, <1>15 DEF Step, Inv, States, Drained, burst

LEMMA StartKeeps ==
  ASSUME Inv, Start
  PROVE  Step
<1>1. ch \in Channel /\ Sound(ch, None, last) /\ events \in 0 .. MaxEvents /\ state = "stopped"
  BY ChannelIs DEF Start
<1>2. ch.que = <<>>
  BY <1>1 DEF Inv
<1>3. ch.match_cnt = 0
  <2>1. ch.match_cnt = Hits(ch.que, Matched)
    BY <1>1 DEF Sound, Sane, Rough
  <2> QED BY <1>1, <1>2, <2>1, Emptied
<1>4. PICK z \in Num : z = 0
  BY SuperbufQueueAssumption DEF Num
<1>5. PICK e \in Num : e = ch.attr.user_expected
  BY <1>1 DEF Channel, Attributes
<1>6. PICK d : d = [ch EXCEPT !.expected = e, !.without_led = z, !.led_off = z, !.good = z, !.sent = z]
  OBVIOUS
<1>7. ch' = d /\ last' = [x \in Streams |-> 0] /\ state' = "starting" /\ events' = events
  BY <1>4, <1>5, <1>6 DEF Start
<1>8. d \in Channel
  BY <1>1, <1>6 DEF Channel
<1>9. d.que = <<>> /\ d.match_cnt = 0 /\ d.sent = 0 /\ d.owed = ch.owed /\ d.lost = ch.lost
  BY <1>1, <1>2, <1>3, <1>4, <1>6 DEF Channel
<1>10. last' \in Lasts /\ \A y \in Streams : last'[y] = 0
  BY <1>7, SuperbufQueueAssumption DEF Lasts
<1>11. Sane(d, last') /\ Drained(d)
  <2>1. \A y \in Streams : d.sent <= last'[y]
    BY <1>9, <1>10
  <2> QED BY <1>8, <1>9, <1>10, <2>1, Emptied
<1>12. Books(d, None)
  <2>1. \A y \in Streams : Hits(d.que, Fills(y)) = 0 /\ Hits(ch.que, Fills(y)) = 0
    BY <1>1, <1>2, <1>8, <1>9, Emptied
  <2>2. Books(ch, None)
    BY <1>1 DEF Sound
  <2> QED BY <1>9, <2>1, <2>2 DEF Books
<1>13. Sound(ch, None, last)'
  BY <1>7, <1>11, <1>12 DEF Sound, Sane, Rough, Books, None
<1> QED BY <1>1, <1>7, <1>9, <1>10, <1>11, <1>13 DEF Step, Inv, States, Drained, burst

LEMMA StartedKeeps ==
  ASSUME Inv, Started
  PROVE  Step
<1>1. ch \in Channel /\ Sound(ch, None, last) /\ last \in Lasts /\ events \in 0 .. MaxEvents /\ Drained(ch)
  BY ChannelIs DEF Inv
<1>2. PICK d : d = [ch EXCEPT !.wait_prep = FALSE]
  OBVIOUS
<1>3. ch' = d /\ last' = last /\ state' = "active" /\ events' = events
  BY <1>2 DEF Started
<1>4. d \in Channel
  BY <1>1, <1>2 DEF Channel
<1>5. Alike(ch, d) /\ d.attr = ch.attr /\ d.match_cnt = ch.match_cnt
  BY <1>1, <1>2, <1>4 DEF Channel, Alike, Limits
<1>6. Sound(d, None, last) /\ d.sent = ch.sent
  BY <1>1, <1>5, AlikeSound DEF Alike
<1>7. Drained(d)
  BY <1>1, <1>5 DEF Drained, burst
<1>8. Sound(ch, None, last)'
  BY <1>3, <1>6 DEF Sound, Sane, Rough, Books, None
<1>9. ch.sent \in Int
  BY <1>1, ChannelNumbers
<1> QED BY <1>1, <1>3, <1>6, <1>7, <1>8, <1>9 DEF Step, Inv, States, Drained, burst

LEMMA SwitchKeeps ==
  ASSUME Inv, StartZsl \/ StopZsl
  PROVE  Step
<1>1. ch \in Channel
  BY ChannelIs
<1>2. ASSUME NEW s \in BOOLEAN, process([ch EXCEPT !.manual_zsl = s, !.zsl = s]),
             last' = last, state' = state, state = "active", event
      PROVE  Step
  <2>1. PICK d : d = [ch EXCEPT !.manual_zsl = s, !.zsl = s]
    OBVIOUS
  <2>2. d \in Channel
    BY <1>1, <2>1, ZenonT(40) DEF Channel
  <2>3. Alike(ch, d)
    BY <1>1, <2>1, <2>2 DEF Channel, Alike, Limits
  <2>4. process(d)
    BY <1>2, <2>1
  <2>5. events' \in 0 .. MaxEvents
    BY <1>2, EventIs
  <2> QED BY <1>2, <2>3, <2>4, <2>5, ActiveCommand
<1>3. CASE StartZsl
  <2>1. process([ch EXCEPT !.manual_zsl = TRUE, !.zsl = TRUE]) /\ last' = last /\ state' = state /\ state = "active" /\ event
    BY <1>3 DEF StartZsl
  <2> QED BY <1>2, <2>1
<1>4. CASE StopZsl
  <2>1. process([ch EXCEPT !.manual_zsl = FALSE, !.zsl = FALSE]) /\ last' = last /\ state' = state /\ state = "active" /\ event
    BY <1>4 DEF StopZsl
  <2> QED BY <1>2, <2>1
<1> QED BY <1>3, <1>4

LEMMA NotifyKeeps ==
  ASSUME Inv, NEW mode \in {"BURST", "CONTINUOUS"}, ConfigNotify(mode)
  PROVE  Step
<1>1. ch \in Channel
  BY ChannelIs
<1>2. PICK a : a = [ch.attr EXCEPT !.notify_mode = mode]
  OBVIOUS
<1>3. ch.attr \in Attributes
  BY <1>1 DEF Channel
<1>4. a \in Attributes /\ a.low = ch.attr.low /\ a.max_unmatched = ch.attr.max_unmatched
  BY <1>2, <1>3 DEF Attributes
<1>5. PICK d : d = [ch EXCEPT !.attr = a]
  OBVIOUS
<1>6. d \in Channel
  BY <1>1, <1>4, <1>5 DEF Channel
<1>7. Alike(ch, d)
  <2>1. d.attr = a /\ d.que = ch.que /\ d.match_cnt = ch.match_cnt /\ d.owed = ch.owed /\ d.lost = ch.lost /\ d.sent = ch.sent
    BY <1>1, <1>5 DEF Channel
  <2> QED BY <1>4, <1>6, <2>1 DEF Alike, Limits
<1>8. [ch EXCEPT !.attr.notify_mode = mode] = d
  BY <1>2, <1>5
<1>9. process(d) /\ last' = last /\ state' = state /\ state = "active" /\ event
  BY <1>8 DEF ConfigNotify
<1>10. events' \in 0 .. MaxEvents
  BY <1>9, EventIs
<1> QED BY <1>7, <1>9, <1>10, ActiveCommand

LEMMA GeneralKeeps ==
  ASSUME Inv, NEW type \in {"AE", "FLASH", "ZOOM_1X"}, NEW start \in BOOLEAN, General(type, start)
  PROVE  Step
<1>1. Sound(ch, None, last)
  BY ChannelIs
<1>2. PICK c : c = superbuf_flush(ch, Streams) /\ Sound(c, None, last) /\ c.sent = ch.sent
  BY <1>1, Flushed
<1>3. c \in Channel
  BY <1>2 DEF Sound, Sane, Rough
<1>4. PICK b \in {"OFF", "WAIT_GOOD_FRAME_IDX", "ACTIVE"} : b = IF start THEN "WAIT_GOOD_FRAME_IDX" ELSE "OFF"
  OBVIOUS
<1>5. PICK d : d = CASE type = "AE" -> [c EXCEPT !.bracketing = b]
                     [] type = "FLASH" -> [c EXCEPT !.flash_br = start]
                     [] type = "ZOOM_1X" -> [c EXCEPT !.zoom1x = start]
  OBVIOUS
<1>6. process(d) /\ last' = last /\ state' = state /\ state = "active" /\ event
  BY <1>2, <1>4, <1>5 DEF General
<1>7. Alike(c, d)
  <2>1. CASE type = "AE"
    <3>1. d = [c EXCEPT !.bracketing = b]
      BY <1>5, <2>1
    <3>2. d \in Channel
      BY <1>3, <3>1 DEF Channel
    <3> QED BY <1>3, <3>1, <3>2 DEF Channel, Alike, Limits
  <2>2. CASE type = "FLASH"
    <3>1. d = [c EXCEPT !.flash_br = start]
      BY <1>5, <2>2
    <3>2. d \in Channel
      BY <1>3, <3>1 DEF Channel
    <3> QED BY <1>3, <3>1, <3>2 DEF Channel, Alike, Limits
  <2>3. CASE type = "ZOOM_1X"
    <3>1. d = [c EXCEPT !.zoom1x = start]
      BY <1>5, <2>3
    <3>2. d \in Channel
      BY <1>3, <3>1 DEF Channel
    <3> QED BY <1>3, <3>1, <3>2 DEF Channel, Alike, Limits
  <2> QED BY <2>1, <2>2, <2>3
<1>8. Sound(d, None, last) /\ d.sent = ch.sent
  BY <1>2, <1>7, AlikeSound DEF Alike
<1>9. events' \in 0 .. MaxEvents
  BY <1>6, EventIs
<1> QED BY <1>6, <1>8, <1>9, ActiveCommand

LEMMA NextKeeps ==
  ASSUME Inv, [Next]_vars
  PROVE  Inv' /\ (ch'.sent # ch.sent => ch'.sent = 0 \/ ch'.sent > ch.sent)
<1>1. ASSUME Next
      PROVE  Step
  <2>1. CASE \E x \in Streams, f \in Frames : DataCb(x, f)
    BY <2>1, DataCbKeeps
  <2>2. CASE \E r \in Requests : RequestSuperBuf(r[1], r[2])
    BY <2>2, RequestKeeps
  <2>3. CASE \E f \in 0 .. MaxFrame : FlushQueue(f)
    BY <2>3, FlushQueueKeeps
  <2>4. CASE \E x \in Own : StartFails(x)
    BY <2>4, StartFailsKeeps
  <2>5. CASE StartZsl \/ StopZsl
    BY <2>5, SwitchKeeps
  <2>6. CASE \E mode \in {"BURST", "CONTINUOUS"} : ConfigNotify(mode)
    BY <2>6, NotifyKeeps
  <2>7. CASE \E type \in {"AE", "FLASH", "ZOOM_1X"}, start \in BOOLEAN : General(type, start)
    BY <2>7, GeneralKeeps
  <2>8. CASE Stop
    BY <2>8, StopKeeps
  <2>9. CASE Start
    BY <2>9, StartKeeps
  <2>10. CASE Started
    BY <2>10, StartedKeeps
  <2> QED BY <1>1, <2>1, <2>2, <2>3, <2>4, <2>5, <2>6, <2>7, <2>8, <2>9, <2>10 DEF Next
<1>2. CASE Next
  <2>1. Inv' /\ (ch'.sent >= ch.sent \/ ch'.sent = 0)
    BY <1>1, <1>2 DEF Step
  <2>2. ch \in Channel /\ ch' \in Channel
    BY <2>1 DEF Inv, Sound, Sane, Rough, Channel, Attributes, Node, Num, Frames
  <2>3. ch.sent \in Int /\ ch'.sent \in Int
    BY <2>2, ChannelNumbers
  <2> QED BY <2>1, <2>3
<1>3. CASE UNCHANGED vars
  <2>1. ch' = ch /\ last' = last /\ state' = state /\ events' = events
    BY <1>3 DEF vars
  <2>2. Inv'
    BY <2>1 DEF Inv, Sound, Sane, Rough, Books, Drained, burst, None
  <2> QED BY <2>1, <2>2
<1> QED BY <1>2, <1>3

LEMMA Invariant == Spec => []Inv
<1>1. Init => Inv
  BY InitInv
<1>2. Inv /\ [Next]_vars => Inv'
  BY NextKeeps
<1> QED BY <1>1, <1>2, PTL DEF Spec

-----------------------------------------------------------------------------
(* What the invariant says of the queue.                                      *)

\* Every node of the queue is a matched or an unmatched one.
LEMMA NodesSplit ==
  ASSUME Inv
  PROVE  /\ ch.que \in Seq(Node) /\ DOMAIN ch.que = 1 .. Len(ch.que)
         /\ {i \in DOMAIN ch.que : ch.que[i].matched} = {i \in 1 .. Len(ch.que) : ch.que[i] \in Matched}
         /\ unmatched(ch) = {i \in 1 .. Len(ch.que) : ch.que[i] \in Unmatched}
         /\ \A y \in Streams : {i \in DOMAIN ch.que : ch.que[i].buf[y] # 0} =
                               {i \in 1 .. Len(ch.que) : ch.que[i] \in Fills(y)}
<1>1. ch.que \in Seq(Node)
  BY ChannelIs DEF Channel
<1>2. DOMAIN ch.que = 1 .. Len(ch.que) /\ \A i \in 1 .. Len(ch.que) : ch.que[i] \in Node
  BY <1>1, LenProperties, ElementOfSeq
<1> QED BY <1>1, <1>2 DEF Matched, Unmatched, Fills, unmatched

\* The channel, its queue and the counts have their types: no count of
\* requests, matches or buffers that are out wraps below zero.
THEOREM Typed == Spec => []TypeOK
<1>1. ASSUME Inv
      PROVE  TypeOK
  <2>1. /\ ch \in Channel /\ last \in Lasts /\ Books(ch, None) /\ ch.match_cnt = Hits(ch.que, Matched)
        /\ state \in States /\ events \in 0 .. MaxEvents
    BY <1>1 DEF Inv, Sound, Sane, Rough
  <2>2. ch.que \in Seq(Node)
    BY <2>1 DEF Channel
  <2>3. {ch.match_cnt, ch.pending, ch.retro, ch.burst_num} \subseteq Nat
    BY <2>1, <2>2, HitsOf DEF Channel
  <2>4. {ch.expected, ch.good, ch.without_led, ch.led_off, ch.diverted, ch.sent} \subseteq 0 .. MaxFrame + 1
    BY <2>1 DEF Channel, Num
  <2>5. {ch.wait_prep, ch.need_led, ch.flash_br, ch.zoom1x, ch.start_zsl, ch.stop_zsl,
         ch.manual_zsl, ch.once, ch.unlock_aec, ch.zsl} \subseteq BOOLEAN
    BY <2>1 DEF Channel
  <2>6. ch.bracketing \in {"OFF", "WAIT_GOOD_FRAME_IDX", "ACTIVE"}
    BY <2>1 DEF Channel
  <2>7. {ch.owed, ch.lost} \subseteq [Streams -> Nat]
    <3>1. ch.owed \in [Streams -> Int] /\ ch.lost \in [Streams -> Nat]
      BY <2>1 DEF Channel
    <3>2. ASSUME NEW y \in Streams
          PROVE  ch.owed[y] \in Nat
      <4>1. ch.owed[y] = ch.lost[y] + Hits(ch.que, Fills(y)) + 0
        BY <2>1, NoneIs DEF Books
      <4>2. ch.lost[y] \in Nat /\ Hits(ch.que, Fills(y)) \in Nat
        BY <2>2, <3>1, HitsOf
      <4> QED BY <4>1, <4>2
    <3> QED BY <3>1, <3>2
  <2> QED BY <2>1, <2>2, <2>3, <2>4, <2>5, <2>6, <2>7 DEF TypeOK, Lasts, States
<1> QED BY <1>1, Invariant, PTL

\* Those who take from the head only what is matched (dispatch, overflow,
\* skip) find every matched superbuf there, and match_cnt is their number.
THEOREM MatchedAreFirst == Spec => []MatchedFirst
<1>1. ASSUME Inv
      PROVE  MatchedFirst
  <2>1. First(ch.que) /\ ch.match_cnt = Hits(ch.que, Matched)
    BY <1>1 DEF Inv, Sound, Sane, Rough
  <2>2. ch.match_cnt = Cardinality({i \in DOMAIN ch.que : ch.que[i].matched})
    BY <1>1, <2>1, NodesSplit DEF Hits
  <2>3. \A i, j \in DOMAIN ch.que : i < j /\ ch.que[j].matched => ch.que[i].matched
    BY <1>1, <2>1, NodesSplit DEF First
  <2> QED BY <2>2, <2>3 DEF MatchedFirst
<1> QED BY <1>1, Invariant, PTL

\* The loop of mm_channel_superbuf_bufdone_overflow always gets down to the
\* water mark, and there is never more than one unmatched superbuf too many.
THEOREM RoomIsAlwaysMade == Spec => []RoomIsMade
<1>1. ASSUME Inv
      PROVE  RoomIsMade
  <2>1. Drained(ch) /\ Hits(ch.que, Unmatched) <= ch.attr.max_unmatched + 1
    BY <1>1 DEF Inv, Sound, Sane, Rough
  <2>2. Cardinality(unmatched(ch)) <= ch.attr.max_unmatched + 1
    BY <1>1, <2>1, NodesSplit DEF Hits
  <2> QED BY <2>1, <2>2 DEF RoomIsMade, Drained
<1> QED BY <1>1, Invariant, PTL

\* No buffer is returned twice, sent and also returned, or forgotten, however
\* the commands follow one another.
THEOREM BuffersInOnePlace == Spec => []BuffersAccounted
<1>1. ASSUME Inv
      PROVE  BuffersAccounted
  <2>1. Books(ch, None) /\ ch \in Channel /\ ch.que \in Seq(Node)
    BY <1>1 DEF Inv, Sound, Sane, Rough, Channel
  <2>2. ASSUME NEW y \in Streams
        PROVE  ch.owed[y] = ch.lost[y] + Cardinality({i \in DOMAIN ch.que : ch.que[i].buf[y] # 0})
    <3>1. ch.owed[y] = ch.lost[y] + Hits(ch.que, Fills(y)) + 0
      BY <2>1, NoneIs DEF Books
    <3>2. Hits(ch.que, Fills(y)) = Cardinality({i \in DOMAIN ch.que : ch.que[i].buf[y] # 0})
      BY <1>1, NodesSplit DEF Hits
    <3>3. ch.lost[y] \in Int /\ Hits(ch.que, Fills(y)) \in Int
      BY <2>1, HitsOf DEF Channel
    <3> QED BY <3>1, <3>2, <3>3
  <2> QED BY <2>2 DEF BuffersAccounted
<1> QED BY <1>1, Invariant, PTL

\* A client is never handed an older superbuf after a newer one, until the
\* channel is started again.
THEOREM SentOnlyInOrder == Spec => SentInOrder
<1>1. Inv /\ [Next]_vars => (ch'.sent # ch.sent => ch'.sent = 0 \/ ch'.sent > ch.sent)
  BY NextKeeps
<1>2. Inv /\ [Next]_vars => [ch'.sent # ch.sent => ch'.sent = 0 \/ ch'.sent > ch.sent]_vars
  BY <1>1
<1> QED BY <1>2, Invariant, PTL DEF Spec, SentInOrder
=============================================================================
