--------------------------- MODULE TlpBeatsProofs ---------------------------
(***************************************************************************)
(* Lemmas about the dwords of a beat, for every width: InOrder lists a set *)
(* of dwords in increasing order and is the only list that does, and on a  *)
(* legal beat the gearbox's walk over the marks finds a packet open where  *)
(* counting starts and ends does.                                          *)
(***************************************************************************)
EXTENDS TlpBeats, FiniteSetTheorems, SequenceTheorems, TLAPS

-----------------------------------------------------------------------------
(* Lists.                                                                  *)

LEMMA SeqOfMore ==
  ASSUME NEW S, NEW T, S \subseteq T, NEW q \in Seq(S)
  PROVE  q \in Seq(T)
<1>1. Len(q) \in Nat /\ q = [i \in 1 .. Len(q) |-> q[i]]
      /\ \A i \in 1 .. Len(q) : q[i] \in T
  OBVIOUS
<1> QED BY <1>1

LEMMA EmptyRight ==
  ASSUME NEW W, NEW q \in Seq(W)
  PROVE  q \o <<>> = q /\ <<>> \o q = q
BY ConcatEmptySeq

LEMMA TwoLists ==
  ASSUME NEW S, NEW a \in Seq(S), NEW c \in Seq(S),
         NEW n, n = Len(a), NEW m, m = Len(c)
  PROVE  /\ a \o c \in Seq(S) /\ Len(a \o c) = n + m
         /\ DOMAIN (a \o c) = 1 .. n + m
         /\ a \o c = [i \in 1 .. n + m |-> (a \o c)[i]]
         /\ \A i \in 1 .. n : (a \o c)[i] = a[i]
         /\ \A i \in 1 .. m : (a \o c)[n + i] = c[i]
<1>1. n \in Nat /\ m \in Nat
  OBVIOUS
<1>2. /\ a \o c \in Seq(S) /\ Len(a \o c) = n + m
      /\ \A i \in 1 .. Len(a) + Len(c) :
           (a \o c)[i] = IF i <= Len(a) THEN a[i] ELSE c[i - Len(a)]
  BY ConcatProperties
<1> DEFINE t == a \o c
<1>3. /\ t \in Seq(S) /\ Len(t) = n + m
      /\ \A i \in 1 .. n + m : t[i] = IF i <= n THEN a[i] ELSE c[i - n]
  BY <1>2
<1> HIDE DEF t
<1>4. DOMAIN t = 1 .. n + m /\ t = [i \in 1 .. n + m |-> t[i]]
  BY <1>3
<1>5. \A i \in 1 .. n : t[i] = a[i]
  BY <1>1, <1>3
<1>6. \A i \in 1 .. m : t[n + i] = c[i]
  <2> TAKE i \in 1 .. m
  <2>1. n + i \in 1 .. n + m /\ ~(n + i <= n) /\ n + i - n = i
    BY <1>1
  <2> QED BY <1>3, <2>1
<1> QED BY <1>3, <1>4, <1>5, <1>6 DEF t

\* The beginning of a list, and what is left without it.
LEMMA Beginning ==
  ASSUME NEW W, NEW q \in Seq(W), NEW k \in Nat, k <= Len(q)
  PROVE  /\ SubSeq(q, 1, k) \in Seq(W) /\ Len(SubSeq(q, 1, k)) = k
         /\ SubSeq(q, 1, k) = [i \in 1 .. k |-> q[i]]
<1> DEFINE u == SubSeq(q, 1, k)
<1>1. \A i \in 1 .. k : q[i] \in W
  OBVIOUS
<1>2. k \in Int /\ k - 1 + 1 = k /\ (~(1 <= k) => k = 0)
      /\ \A i \in 1 .. k : 1 + i - 1 = i
  OBVIOUS
<1>3. /\ u \in Seq(W) /\ Len(u) = IF 1 <= k THEN k - 1 + 1 ELSE 0
      /\ \A i \in 1 .. k - 1 + 1 : u[i] = q[1 + i - 1]
  BY <1>1, <1>2, SubSeqProperties
<1> HIDE DEF u
<1>4. u \in Seq(W) /\ Len(u) = k /\ \A i \in 1 .. k : u[i] = q[i]
  BY <1>2, <1>3
<1>5. u = [i \in 1 .. k |-> q[i]]
  BY <1>4
<1> QED BY <1>4, <1>5 DEF u

LEMMA Remainder ==
  ASSUME NEW W, NEW q \in Seq(W), NEW k \in Nat, k <= Len(q),
         NEW n, n = Len(q)
  PROVE  /\ SubSeq(q, k + 1, n) \in Seq(W)
         /\ Len(SubSeq(q, k + 1, n)) = n - k
         /\ SubSeq(q, k + 1, n) = [i \in 1 .. n - k |-> q[k + i]]
<1> DEFINE u == SubSeq(q, k + 1, n)
           a == k + 1
<1>1. n \in Nat /\ \A i \in 1 .. n : q[i] \in W
  OBVIOUS
<1>2. /\ a \in Int /\ n \in Int /\ n - a + 1 = n - k
      /\ (~(a <= n) => n - k = 0)
      /\ \A i \in 1 .. n - k : a + i - 1 = k + i
      /\ \A i \in a .. n : i \in 1 .. n
      /\ n - k \in Nat
  BY <1>1
<1>3. u = SubSeq(q, a, n)
  OBVIOUS
<1> HIDE DEF u, a
<1>4. \A i \in a .. n : q[i] \in W
  BY ONLY <1>1, <1>2
<1>5. /\ u \in Seq(W) /\ Len(u) = IF a <= n THEN n - a + 1 ELSE 0
      /\ \A i \in 1 .. n - a + 1 : u[i] = q[a + i - 1]
  BY ONLY <1>2, <1>3, <1>4, SubSeqProperties
<1>6. u \in Seq(W) /\ Len(u) = n - k /\ \A i \in 1 .. n - k : u[i] = q[k + i]
  BY ONLY <1>2, <1>5
<1>7. u = [i \in 1 .. n - k |-> q[k + i]]
  BY ONLY <1>2, <1>6
<1> QED BY <1>6, <1>7 DEF u

\* Of two lists after each other, the beginning of the first goes.
LEMMA CutFirst ==
  ASSUME NEW W, NEW p \in Seq(W), NEW r \in Seq(W), NEW k \in Nat,
         k <= Len(p)
  PROVE  /\ SubSeq(p \o r, k + 1, Len(p \o r))
              = SubSeq(p, k + 1, Len(p)) \o r
         /\ SubSeq(p \o r, 1, k) = SubSeq(p, 1, k)
         /\ SubSeq(p, k + 1, Len(p)) \in Seq(W)
<1> DEFINE n == Len(p)
           m == Len(r)
           t == p \o r
           v == SubSeq(p, k + 1, n)
           g == n + m
           u == SubSeq(t, k + 1, g)
           x == v \o r
<1>1. n \in Nat /\ m \in Nat /\ k <= n
  OBVIOUS
<1>2. /\ t \in Seq(W) /\ Len(t) = n + m
      /\ \A i \in 1 .. n : t[i] = p[i]
      /\ \A i \in 1 .. m : t[n + i] = r[i]
  BY TwoLists
<1>3. /\ v \in Seq(W) /\ Len(v) = n - k /\ v = [i \in 1 .. n - k |-> p[k + i]]
  BY Remainder
<1>4. SubSeq(p, 1, k) = [i \in 1 .. k |-> p[i]]
  BY Beginning
<1> HIDE DEF n, m, t, v
<1>5. /\ n - k \in Nat /\ n - k + m = g - k /\ g \in Nat /\ k <= g
      /\ g = Len(t)
  BY <1>1, <1>2
<1> HIDE DEF g
<1>6. /\ u \in Seq(W) /\ Len(u) = g - k
      /\ u = [i \in 1 .. g - k |-> t[k + i]]
  BY <1>2, <1>5, Remainder
<1> DEFINE l == n - k
<1> HIDE DEF l
<1>7. l = Len(v) /\ m = Len(r) /\ l \in Nat /\ g - k = l + m
  BY <1>3, <1>5 DEF l, m
<1>8. /\ x = [i \in 1 .. l + m |-> x[i]]
      /\ \A i \in 1 .. l : x[i] = v[i]
      /\ \A i \in 1 .. m : x[l + i] = r[i]
  <2>1. v \in Seq(W) /\ r \in Seq(W) /\ l = Len(v) /\ m = Len(r)
    BY <1>3, <1>7
  <2> HIDE DEF u, x
  <2>2. /\ v \o r = [i \in 1 .. l + m |-> (v \o r)[i]]
        /\ \A i \in 1 .. l : (v \o r)[i] = v[i]
        /\ \A i \in 1 .. m : (v \o r)[l + i] = r[i]
    <3> USE ONLY <2>1
    <3>1. v \o r = [i \in 1 .. l + m |-> (v \o r)[i]]
      BY TwoLists
    <3>2. \A i \in 1 .. l : (v \o r)[i] = v[i]
      BY TwoLists
    <3>3. \A i \in 1 .. m : (v \o r)[l + i] = r[i]
      BY TwoLists
    <3> QED BY ONLY <3>1, <3>2, <3>3
  <2> QED BY ONLY <2>2 DEF x
<1> HIDE DEF u, x
<1>9. ASSUME NEW i \in 1 .. l + m PROVE x[i] = u[i]
  <2>1. u[i] = t[k + i]
    BY <1>6, <1>7
  <2>2. CASE i \in 1 .. l
    <3>1. x[i] = p[k + i]
      BY <1>3, <1>8, <2>2 DEF l
    <3>2. k + i \in 1 .. n
      BY <1>1, <2>2 DEF l
    <3>3. t[k + i] = p[k + i]
      BY <1>2, <3>2
    <3> QED BY <2>1, <3>1, <3>3
  <2>3. CASE i \notin 1 .. l
    <3> DEFINE j == i - l
    <3>1. j \in 1 .. m /\ i = l + j /\ k + i = n + j
      BY <1>1, <1>7, <2>3 DEF l
    <3> HIDE DEF j
    <3>2. x[l + j] = r[j] /\ t[n + j] = r[j]
      BY ONLY <1>2, <1>8, <3>1
    <3> QED BY ONLY <2>1, <3>1, <3>2
  <2> QED BY <2>2, <2>3
<1>10. x = u
  BY ONLY <1>6, <1>7, <1>8, <1>9
<1>11. SubSeq(t, 1, k) = SubSeq(p, 1, k)
  <2>1. SubSeq(t, 1, k) = [i \in 1 .. k |-> t[i]]
    BY <1>2, <1>5, Beginning
  <2>2. \A i \in 1 .. k : t[i] = p[i]
    BY <1>1, <1>2
  <2> QED BY <1>4, <2>1, <2>2
<1>12. Len(p \o r) = g
  BY <1>5 DEF t
<1> QED BY <1>3, <1>10, <1>11, <1>12 DEF u, x, t, v, n

\* All of a list is its beginning, and nothing is left.
LEMMA WholeList ==
  ASSUME NEW W, NEW q \in Seq(W)
  PROVE  /\ SubSeq(q, 1, Len(q)) = q
         /\ SubSeq(q, Len(q) + 1, Len(q)) = <<>>
         /\ SubSeq(q, 0 + 1, Len(q)) = q
<1> DEFINE n == Len(q)
<1>1. n \in Nat /\ q = [i \in 1 .. n |-> q[i]]
  OBVIOUS
<1>2. SubSeq(q, 1, n) = [i \in 1 .. n |-> q[i]]
  BY <1>1, Beginning
<1>3. SubSeq(q, n + 1, n) \in Seq(W) /\ Len(SubSeq(q, n + 1, n)) = n - n
  BY <1>1, Remainder
<1>4. SubSeq(q, n + 1, n) = <<>>
  BY <1>1, <1>3
<1>5. SubSeq(q, 0 + 1, n) = [i \in 1 .. n - 0 |-> q[0 + i]]
  BY <1>1, Remainder
<1>6. n - 0 = n /\ \A i \in 1 .. n : 0 + i = i
  BY <1>1
<1> QED BY <1>1, <1>2, <1>4, <1>5, <1>6

\* What is left of two lists without the first.
LEMMA DropFirst ==
  ASSUME NEW W, NEW p \in Seq(W), NEW r \in Seq(W)
  PROVE  /\ SubSeq(p \o r, Len(p) + 1, Len(p \o r)) = r
         /\ SubSeq(p \o r, 1, Len(p)) = p
<1>1. Len(p) \in Nat /\ Len(p) <= Len(p)
  OBVIOUS
<1>2. SubSeq(p, Len(p) + 1, Len(p)) = <<>> /\ SubSeq(p, 1, Len(p)) = p
  BY WholeList
<1> QED BY <1>1, <1>2, CutFirst, EmptyRight

LEMMA MarksOfTwo ==
  ASSUME NEW a \in Seq(Nat), NEW c \in Seq(Nat)
  PROVE  Marks(a \o c) = Marks(a) \cup Marks(c)
<1> DEFINE n == Len(a)
           m == Len(c)
           t == a \o c
<1>1. n \in Nat /\ m \in Nat /\ DOMAIN a = 1 .. n /\ DOMAIN c = 1 .. m
  OBVIOUS
<1>2. /\ DOMAIN t = 1 .. n + m
      /\ \A i \in 1 .. n : t[i] = a[i]
      /\ \A i \in 1 .. m : t[n + i] = c[i]
  BY TwoLists
<1> HIDE DEF n, m, t
<1>3. \A i \in 1 .. n : i \in 1 .. n + m
  BY <1>1
<1>4. \A i \in 1 .. m : n + i \in 1 .. n + m
  BY <1>1
<1>5. \A i \in 1 .. n + m : i \in 1 .. n \/ \E j \in 1 .. m : i = n + j
  <2> SUFFICES ASSUME NEW i \in 1 .. n + m, i \notin 1 .. n
               PROVE  \E j \in 1 .. m : i = n + j
    OBVIOUS
  <2>1. i - n \in 1 .. m /\ i = n + (i - n)
    BY <1>1
  <2> QED BY <2>1
<1>6. \A x \in Marks(a) : x \in Marks(t)
  BY <1>1, <1>2, <1>3 DEF Marks
<1>7. \A x \in Marks(c) : x \in Marks(t)
  BY <1>1, <1>2, <1>4 DEF Marks
<1>8. \A x \in Marks(t) : x \in Marks(a) \cup Marks(c)
  <2> SUFFICES ASSUME NEW i \in 1 .. n + m
               PROVE  t[i] \in Marks(a) \cup Marks(c)
    BY <1>2 DEF Marks
  <2>1. CASE i \in 1 .. n
    BY <1>1, <1>2, <2>1 DEF Marks
  <2>2. ASSUME NEW j \in 1 .. m, i = n + j
        PROVE  t[i] \in Marks(c)
    BY <1>1, <1>2, <2>2 DEF Marks
  <2> QED BY <1>5, <2>1, <2>2
<1>9. Marks(t) = Marks(a) \cup Marks(c)
  BY <1>6, <1>7, <1>8
<1> QED BY <1>9 DEF t

\* A list whose marks are moved up.
LEMMA MarksMoved ==
  ASSUME NEW a \in Seq(Nat), NEW k \in Nat
  PROVE  /\ [i \in DOMAIN a |-> a[i] + k] \in Seq(Nat)
         /\ Marks([i \in DOMAIN a |-> a[i] + k]) = {x + k : x \in Marks(a)}
<1> DEFINE n == Len(a)
           t == [i \in DOMAIN a |-> a[i] + k]
<1>1. n \in Nat /\ DOMAIN a = 1 .. n /\ \A i \in 1 .. n : a[i] + k \in Nat
  OBVIOUS
<1>2. t \in Seq(Nat)
  BY <1>1
<1>3. DOMAIN t = DOMAIN a /\ \A i \in DOMAIN a : t[i] = a[i] + k
  OBVIOUS
<1> HIDE DEF t
<1>4. Marks(t) = {x + k : x \in Marks(a)}
  BY <1>3 DEF Marks
<1> QED BY <1>2, <1>4 DEF t

-----------------------------------------------------------------------------
(* Dwords in increasing order.                                             *)

Enumerates(s, D) ==
  /\ s \in Seq(Nat)
  /\ D = Marks(s)
  /\ \A i, j \in DOMAIN s : i < j => s[i] < s[j]

\* How many of D come before d.
Rank(D, d) == Cardinality({e \in D : e < d})

LEMMA RankIsNat ==
  ASSUME NEW D \in SUBSET Nat, IsFiniteSet(D), NEW d \in D
  PROVE  Rank(D, d) \in Nat /\ Rank(D, d) < Cardinality(D)
<1> DEFINE B == {e \in D : e < d}
<1>1. B \in SUBSET D
  OBVIOUS
<1>2. /\ IsFiniteSet(B) /\ Cardinality(B) <= Cardinality(D)
      /\ Cardinality(B) = Cardinality(D) => D = B
  BY <1>1, FS_Subset
<1>3. d \notin B
  OBVIOUS
<1>4. Cardinality(B) \in Nat /\ Cardinality(D) \in Nat
  BY <1>2, FS_CardinalityType
<1> HIDE DEF B
<1>5. Cardinality(B) < Cardinality(D)
  BY <1>2, <1>3, <1>4
<1> QED BY <1>4, <1>5 DEF Rank, B

LEMMA RankClimbs ==
  ASSUME NEW D \in SUBSET Nat, IsFiniteSet(D), NEW c \in D, NEW d \in D, c < d
  PROVE  Rank(D, c) < Rank(D, d)
<1> DEFINE B == {e \in D : e < d}
<1>1. IsFiniteSet(B) /\ B \in SUBSET Nat
  <2>1. B \in SUBSET D
    OBVIOUS
  <2> QED BY <2>1, FS_Subset
<1>2. c \in B /\ {e \in B : e < c} = {e \in D : e < c}
  <2>1. \A e \in D : e < c => e < d
    OBVIOUS
  <2> QED BY <2>1
<1> HIDE DEF B
<1>3. Rank(B, c) < Cardinality(B)
  BY <1>1, <1>2, RankIsNat
<1> QED BY <1>2, <1>3 DEF Rank, B

\* InOrder lists each dword of D, lowest first.
LEMMA InOrderEnumerates ==
  ASSUME NEW D \in SUBSET Nat, IsFiniteSet(D)
  PROVE  /\ Enumerates(InOrder(D), D)
         /\ InOrder(D) \in Seq(D) /\ Len(InOrder(D)) = Cardinality(D)
<1> DEFINE n == Cardinality(D)
           s == InOrder(D)
           f == [d \in D |-> Rank(D, d) + 1]
<1>1. n \in Nat
  BY FS_CardinalityType
<1> HIDE DEF n
<1>2. \A d \in D : Rank(D, d) \in Nat /\ Rank(D, d) + 1 \in 1 .. n
  BY <1>1, RankIsNat DEF n
<1>3. \A c, d \in D : Rank(D, c) = Rank(D, d) => c = d
  <2> SUFFICES ASSUME NEW c \in D, NEW d \in D, Rank(D, c) = Rank(D, d), c # d
               PROVE  FALSE
    OBVIOUS
  <2>1. c < d \/ d < c
    OBVIOUS
  <2> QED BY <1>2, <2>1, RankClimbs
<1>4. f \in Injection(D, 1 .. n)
  BY <1>2, <1>3 DEF Injection, IsInjective
<1>5. f \in Surjection(D, 1 .. n)
  <2>1. IsFiniteSet(1 .. n) /\ Cardinality(1 .. n) = n
    BY <1>1, FS_Interval
  <2> QED BY <1>4, <2>1, FS_Injection DEF n
<1>6. \A i \in 1 .. n : \E d \in D : Rank(D, d) = i - 1
  <2> TAKE i \in 1 .. n
  <2>1. PICK d \in D : f[d] = i
    BY <1>5 DEF Surjection
  <2> QED BY <1>2, <2>1
<1>7. /\ DOMAIN s = 1 .. n
      /\ \A i \in 1 .. n : s[i] = CHOOSE d \in D : Rank(D, d) = i - 1
  BY DEF InOrder, Rank, n
<1>8. s \in Seq(D) /\ Len(s) = n
  <2>1. s = [i \in 1 .. n |-> CHOOSE d \in D : Rank(D, d) = i - 1]
    BY DEF InOrder, Rank, n
  <2>2. \A i \in 1 .. n : (CHOOSE d \in D : Rank(D, d) = i - 1) \in D
    BY <1>6
  <2> QED BY <1>1, <2>1, <2>2
<1> HIDE DEF s, f
<1>9. \A i \in 1 .. n : s[i] \in D /\ Rank(D, s[i]) = i - 1
  BY <1>6, <1>7
<1>10. \A i, j \in 1 .. n : i < j => s[i] < s[j]
  <2> SUFFICES ASSUME NEW i \in 1 .. n, NEW j \in 1 .. n, i < j,
                      ~(s[i] < s[j])
               PROVE  FALSE
    OBVIOUS
  <2>1. s[i] \in D /\ s[j] \in D /\ Rank(D, s[i]) = i - 1
          /\ Rank(D, s[j]) = j - 1
    BY <1>9
  <2>2. s[j] < s[i] \/ s[j] = s[i]
    <3>1. s[i] \in Nat /\ s[j] \in Nat
      BY <2>1
    <3> QED BY <3>1
  <2>3. Rank(D, s[j]) < Rank(D, s[i]) \/ s[j] = s[i]
    BY <2>1, <2>2, RankClimbs
  <2> QED BY <2>1, <2>3
<1>11. D = Marks(s)
  <2>1. ASSUME NEW d \in D
        PROVE  \E i \in 1 .. n : s[i] = d
    <3>1. Rank(D, d) + 1 \in 1 .. n /\ Rank(D, d) \in Nat
      BY <1>2
    <3>2. Rank(D, s[Rank(D, d) + 1]) = Rank(D, d)
      BY <1>9, <3>1
    <3> QED BY <1>3, <1>9, <3>1, <3>2
  <2> QED BY <1>7, <1>9, <2>1 DEF Marks
<1>12. s \in Seq(Nat)
  <2>1. \A i \in 1 .. n : s[i] \in Nat
    BY <1>9
  <2>2. s = [i \in 1 .. n |-> s[i]]
    BY <1>7, <1>8
  <2> QED BY <1>1, <2>1, <2>2
<1>13. Enumerates(s, D)
  BY <1>7, <1>10, <1>11, <1>12 DEF Enumerates
<1> QED BY <1>8, <1>13 DEF s, n

\* The first i of the numbers 1 .. n, listed by an injection, are i.
LEMMA PrefixCount ==
  ASSUME NEW s \in Seq(Nat), NEW n \in 0 .. Len(s),
         \A i, j \in DOMAIN s : i < j => s[i] < s[j]
  PROVE  Cardinality({s[j] : j \in 1 .. n}) = n
<1> DEFINE P == {s[j] : j \in 1 .. n}
           f == [j \in 1 .. n |-> s[j]]
<1>1. DOMAIN s = 1 .. Len(s) /\ Len(s) \in Nat
      /\ \A i \in 1 .. Len(s) : s[i] \in Nat
  OBVIOUS
<1>2. f \in Surjection(1 .. n, P)
  BY DEF Surjection
<1>3. f \in Injection(1 .. n, P)
  <2>1. \A i, j \in 1 .. n : s[i] = s[j] => i = j
    <3> SUFFICES ASSUME NEW i \in 1 .. n, NEW j \in 1 .. n, s[i] = s[j], i < j
                 PROVE  FALSE
      OBVIOUS
    <3>1. i \in DOMAIN s /\ j \in DOMAIN s
      BY <1>1
    <3>2. s[i] < s[j] /\ s[i] \in Nat
      BY <1>1, <3>1
    <3> QED BY <3>2
  <2> QED BY <2>1 DEF Injection, IsInjective
<1>4. IsFiniteSet(1 .. n) /\ Cardinality(1 .. n) = n
  BY FS_Interval
<1> QED BY <1>2, <1>3, <1>4, FS_Surjection

\* There is no other increasing list of the same dwords.
LEMMA EnumerationIsInOrder ==
  ASSUME NEW s, NEW D, Enumerates(s, D)
  PROVE  /\ s = InOrder(D) /\ IsFiniteSet(D) /\ Cardinality(D) = Len(s)
         /\ D \in SUBSET Nat
<1> DEFINE n == Len(s)
<1>1. /\ s \in Seq(Nat) /\ n \in Nat /\ DOMAIN s = 1 .. n
      /\ s = [i \in 1 .. n |-> s[i]]
      /\ \A i \in 1 .. n : s[i] \in Nat
      /\ \A i, j \in 1 .. n : i < j => s[i] < s[j]
  BY DEF Enumerates
<1>2. D = {s[j] : j \in 1 .. n} /\ D \in SUBSET Nat
  BY <1>1 DEF Enumerates, Marks
<1>3. Cardinality(D) = n
  <2>1. n \in 0 .. Len(s)
    BY <1>1
  <2> QED BY <1>1, <1>2, <2>1, PrefixCount
<1>4. IsFiniteSet(D)
  <2> DEFINE f == [j \in 1 .. n |-> s[j]]
  <2>1. f \in Surjection(1 .. n, D)
    BY <1>2 DEF Surjection
  <2>2. IsFiniteSet(1 .. n)
    <3>1. n \in Int
      BY <1>1
    <3> HIDE DEF n
    <3> QED BY <3>1, FS_Interval
  <2> QED BY <2>1, <2>2, FS_Surjection
<1>5. ASSUME NEW i \in 1 .. n
      PROVE  s[i] \in D /\ Rank(D, s[i]) = i - 1
  <2>1. {e \in D : e < s[i]} = {s[j] : j \in 1 .. i - 1}
    <3>1. \A j \in 1 .. n : s[j] < s[i] <=> j < i
      <4> TAKE j \in 1 .. n
      <4>1. j < i \/ j = i \/ i < j
        OBVIOUS
      <4> QED BY <1>1, <4>1
    <3>2. \A j \in 1 .. n : j < i <=> j \in 1 .. i - 1
      BY <1>1
    <3>3. \A j \in 1 .. i - 1 : j \in 1 .. n
      BY <1>1
    <3> QED BY <1>2, <3>1, <3>2, <3>3
  <2>2. i - 1 \in 0 .. Len(s)
    BY <1>1
  <2>3. Cardinality({s[j] : j \in 1 .. i - 1}) = i - 1
    BY <1>1, <2>2, PrefixCount
  <2> QED BY <1>2, <2>1, <2>3 DEF Rank
<1> HIDE DEF n
<1>6. ASSUME NEW i \in 1 .. n
      PROVE  s[i] = CHOOSE d \in D : Rank(D, d) = i - 1
  <2>1. \A d \in D : Rank(D, d) = i - 1 => d = s[i]
    <3> SUFFICES ASSUME NEW j \in 1 .. n, Rank(D, s[j]) = i - 1
                 PROVE  s[j] = s[i]
      BY <1>2
    <3> QED BY <1>1, <1>5
  <2> QED BY <1>5, <2>1
<1>7. InOrder(D) = [i \in 1 .. n |-> CHOOSE d \in D : Rank(D, d) = i - 1]
  BY <1>3 DEF InOrder, Rank
<1> QED BY <1>1, <1>2, <1>3, <1>4, <1>6, <1>7 DEF n

\* The dwords below and those above, listed one after the other.
LEMMA InOrderJoined ==
  ASSUME NEW A \in SUBSET Nat, IsFiniteSet(A),
         NEW B \in SUBSET Nat, IsFiniteSet(B),
         \A x \in A, y \in B : x < y
  PROVE  InOrder(A \cup B) = InOrder(A) \o InOrder(B)
<1> DEFINE a == InOrder(A)
           c == InOrder(B)
           n == Len(a)
           m == Len(c)
           t == a \o c
<1>1. Enumerates(a, A) /\ a \in Seq(A) /\ Enumerates(c, B) /\ c \in Seq(B)
  BY InOrderEnumerates
<1> HIDE DEF a, c
<1>2. /\ a \in Seq(Nat) /\ n \in Nat /\ DOMAIN a = 1 .. n
      /\ \A i \in 1 .. n : a[i] \in A
      /\ \A i, j \in 1 .. n : i < j => a[i] < a[j]
  BY <1>1 DEF Enumerates
<1>3. /\ c \in Seq(Nat) /\ m \in Nat /\ DOMAIN c = 1 .. m
      /\ \A i \in 1 .. m : c[i] \in B
      /\ \A i, j \in 1 .. m : i < j => c[i] < c[j]
  BY <1>1 DEF Enumerates
<1>4. /\ t \in Seq(Nat) /\ DOMAIN t = 1 .. n + m
      /\ \A i \in 1 .. n : t[i] = a[i]
      /\ \A i \in 1 .. m : t[n + i] = c[i]
  <2>1. a \in Seq(Nat) /\ c \in Seq(Nat) /\ n = Len(a) /\ m = Len(c)
    BY <1>2, <1>3
  <2> HIDE DEF n, m
  <2> QED BY ONLY <2>1, TwoLists
<1>5. A \cup B = Marks(t)
  <2>1. a \in Seq(Nat) /\ c \in Seq(Nat)
    BY <1>2, <1>3
  <2>2. Marks(t) = Marks(a) \cup Marks(c)
    BY ONLY <2>1, MarksOfTwo
  <2> QED BY <1>1, <2>2 DEF Enumerates
<1> HIDE DEF n, m, t
<1>6. \A i \in DOMAIN t : i \in 1 .. n \/ \E j \in 1 .. m : i = n + j
  <2> SUFFICES ASSUME NEW i \in 1 .. n + m, i \notin 1 .. n
               PROVE  \E j \in 1 .. m : i = n + j
    BY <1>4
  <2>1. i - n \in 1 .. m /\ i = n + (i - n)
    BY <1>2, <1>3
  <2> QED BY <2>1
<1>7. \A i, j \in DOMAIN t : i < j => t[i] < t[j]
  <2> SUFFICES ASSUME NEW i \in DOMAIN t, NEW j \in DOMAIN t, i < j
               PROVE  t[i] < t[j]
    OBVIOUS
  <2>1. CASE i \in 1 .. n /\ j \in 1 .. n
    BY <1>2, <1>4, <2>1
  <2>2. ASSUME i \in 1 .. n, NEW l \in 1 .. m, j = n + l
        PROVE  t[i] < t[j]
    BY <1>2, <1>3, <1>4, <2>2
  <2>3. ASSUME NEW k \in 1 .. m, i = n + k, NEW l \in 1 .. m, j = n + l
        PROVE  t[i] < t[j]
    <3>1. k < l
      BY <1>2, <2>3
    <3> QED BY <1>3, <1>4, <2>3, <3>1
  <2>4. ASSUME NEW k \in 1 .. m, i = n + k, j \in 1 .. n
        PROVE  FALSE
    BY <1>2, <1>3, <2>4
  <2> QED BY <1>6, <2>1, <2>2, <2>3, <2>4
<1>8. t = InOrder(A \cup B)
  BY <1>4, <1>5, <1>7, EnumerationIsInOrder DEF Enumerates
<1> QED BY <1>8 DEF a, c, t

\* The same dwords a number of dwords up.
LEMMA InOrderRaised ==
  ASSUME NEW B \in SUBSET Nat, IsFiniteSet(B), NEW k \in Nat
  PROVE  InOrder({d + k : d \in B})
           = [i \in 1 .. Cardinality(B) |-> InOrder(B)[i] + k]
<1> DEFINE o == InOrder(B)
           t == [i \in DOMAIN o |-> o[i] + k]
<1>1. /\ Enumerates(o, B) /\ o \in Seq(B) /\ Len(o) = Cardinality(B)
      /\ DOMAIN o = 1 .. Cardinality(B)
  BY InOrderEnumerates
<1> HIDE DEF o
<1>2. t \in Seq(Nat) /\ Marks(t) = {d + k : d \in B}
  BY <1>1, MarksMoved DEF Enumerates
<1>3. \A i, j \in DOMAIN t : i < j => t[i] < t[j]
  <2>1. \A i \in DOMAIN o : o[i] \in Nat
    BY <1>1 DEF Enumerates
  <2> QED BY <1>1, <2>1 DEF Enumerates
<1>4. t = InOrder({d + k : d \in B})
  <2> HIDE DEF t
  <2> QED BY <1>2, <1>3, EnumerationIsInOrder DEF Enumerates
<1> QED BY <1>1, <1>4 DEF o

\* The first n dwords.
LEMMA InOrderFromZero ==
  ASSUME NEW n \in Nat
  PROVE  InOrder(0 .. n - 1) = [i \in 1 .. n |-> i - 1]
<1> DEFINE t == [i \in 1 .. n |-> i - 1]
<1>1. t \in Seq(Nat)
  OBVIOUS
<1>2. Marks(t) = 0 .. n - 1
  <2>1. \A d \in 0 .. n - 1 : d + 1 \in 1 .. n /\ (d + 1) - 1 = d
    OBVIOUS
  <2>2. \A d \in 0 .. n - 1 : t[d + 1] = d
    BY <2>1
  <2>3. \A i \in 1 .. n : t[i] \in 0 .. n - 1
    OBVIOUS
  <2>4. DOMAIN t = 1 .. n
    OBVIOUS
  <2> HIDE DEF t
  <2>5. \A x : x \in Marks(t) <=> \E i \in 1 .. n : t[i] = x
    BY <2>4 DEF Marks
  <2>6. \A d \in 0 .. n - 1 : d \in Marks(t)
    BY <2>1, <2>2, <2>5
  <2>7. \A d \in Marks(t) : d \in 0 .. n - 1
    BY <2>3, <2>5
  <2> QED BY <2>6, <2>7
<1>3. Enumerates(t, 0 .. n - 1)
  BY <1>1, <1>2 DEF Enumerates
<1> QED BY <1>3, EnumerationIsInOrder

-----------------------------------------------------------------------------
(* Starts and ends that take turns.                                        *)

\* The start of the packet that the j-th end ends, and the end before the
\* j-th start.
LEMMA SlotOfStart ==
  ASSUME NEW k \in 0 .. 1, NEW n \in Nat, NEW j \in Nat, k < j, j <= n + k
  PROVE  j - k \in 1 .. n /\ (j - k) + k = j
OBVIOUS

LEMMA SlotOfEnd ==
  ASSUME NEW k \in 0 .. 1, NEW n \in Nat, NEW m \in Nat, n + k <= m + 1,
         NEW i \in Nat, NEW j \in Nat, 1 <= i, i < j, j <= n
  PROVE  /\ j - 1 + k \in 1 .. m
         /\ j - 1 + k < j + k /\ ~(j - 1 + k < i + k)
OBVIOUS

\* Successive starts are different dwords, and successive packets do not
\* share one: an end lies between.
LEMMA AlternateClimbs ==
  ASSUME NEW open, NEW S \in Seq(Nat), NEW E \in Seq(Nat),
         Alternate(open, S, E),
         NEW k \in 0 .. 1, k = IF open THEN 1 ELSE 0
  PROVE  /\ \A i, j \in DOMAIN S : i < j => S[i] < S[j]
         /\ \A j \in DOMAIN E :
              j > k => j - k \in DOMAIN S /\ S[j - k] <= E[j]
         /\ \A i, j \in DOMAIN E :
              i < j => j - k \in DOMAIN S /\ E[i] < S[j - k]
         /\ \A i, j \in DOMAIN E : i < j => E[i] < E[j]
<1>1. /\ DOMAIN S = 1 .. Len(S) /\ Len(S) \in Nat
      /\ DOMAIN E = 1 .. Len(E) /\ Len(E) \in Nat
      /\ \A i \in DOMAIN S : S[i] \in Nat
      /\ \A i \in DOMAIN E : E[i] \in Nat
  OBVIOUS
<1>2. \A i \in DOMAIN S, j \in DOMAIN E :
        IF j < i + k THEN E[j] < S[i] ELSE S[i] <= E[j]
  BY DEF Alternate
<1>3. /\ k \in Nat /\ k <= 1 /\ Len(S) \in Nat /\ Len(E) \in Nat
      /\ Len(E) <= Len(S) + k /\ Len(S) + k <= Len(E) + 1
  <2>1. Len(E) <= Len(S) + k /\ Len(S) + k <= Len(E) + 1
    BY DEF Alternate
  <2> QED BY <2>1
<1>4. ASSUME NEW i \in DOMAIN S, NEW j \in DOMAIN S, i < j
      PROVE  S[i] < S[j]
  <2>1. j - 1 + k \in DOMAIN E /\ j - 1 + k < j + k /\ ~(j - 1 + k < i + k)
    <3>1. i \in Nat /\ j \in Nat /\ 1 <= i /\ j <= Len(S)
      BY <1>1
    <3> QED BY <1>1, <1>3, <1>4, <3>1, SlotOfEnd
  <2>2. E[j - 1 + k] < S[j] /\ S[i] <= E[j - 1 + k]
    BY <1>2, <2>1
  <2>3. S[i] \in Nat /\ S[j] \in Nat /\ E[j - 1 + k] \in Nat
    BY <1>1, <2>1
  <2> QED BY <2>2, <2>3
<1>5. ASSUME NEW j \in DOMAIN E, j > k
      PROVE  j - k \in DOMAIN S /\ S[j - k] <= E[j]
  <2>1. j - k \in DOMAIN S /\ ~(j < (j - k) + k)
    <3>1. j \in Nat /\ j <= Len(S) + k
      BY <1>1, <1>3
    <3>2. j - k \in 1 .. Len(S) /\ (j - k) + k = j
      BY <1>3, <1>5, <3>1, SlotOfStart
    <3> QED BY <1>1, <3>1, <3>2
  <2> QED BY <1>2, <2>1
<1>6. ASSUME NEW i \in DOMAIN E, NEW j \in DOMAIN E, i < j
      PROVE  j - k \in DOMAIN S /\ E[i] < S[j - k]
  <2>1. j - k \in DOMAIN S /\ i < (j - k) + k
    <3>1. i \in Nat /\ j \in Nat /\ 1 <= i /\ j <= Len(S) + k
      BY <1>1, <1>3
    <3>2. k < j
      BY <1>3, <1>6, <3>1
    <3>3. j - k \in 1 .. Len(S) /\ (j - k) + k = j
      BY <1>3, <3>1, <3>2, SlotOfStart
    <3> QED BY <1>1, <1>6, <3>3
  <2> QED BY <1>2, <2>1
<1>7. ASSUME NEW i \in DOMAIN E, NEW j \in DOMAIN E, i < j
      PROVE  E[i] < E[j]
  <2>1. j > k
    <3>1. i \in Nat /\ j \in Nat /\ 1 <= i
      BY <1>1
    <3> QED BY <1>3, <1>7, <3>1
  <2>2. j - k \in DOMAIN S /\ E[i] < S[j - k] /\ S[j - k] <= E[j]
    BY <1>5, <1>6, <1>7, <2>1
  <2>3. E[i] \in Nat /\ E[j] \in Nat /\ S[j - k] \in Nat
    BY <1>1, <2>2
  <2> QED BY <2>2, <2>3
<1> QED BY <1>4, <1>5, <1>6, <1>7

\* A set of slots that has every slot before one it has is the first so many.
LEMMA FirstSoMany ==
  ASSUME NEW n \in Nat, NEW I \in SUBSET (1 .. n),
         \A i \in I : \A j \in 1 .. n : j < i => j \in I
  PROVE  Cardinality(I) \in 0 .. n /\ I = 1 .. Cardinality(I)
<1> DEFINE T == {u \in Nat : \A i \in I : i <= u}
<1>1. \E m \in T : \A x \in T : m <= x
  <2>1. n \in T /\ T \subseteq Nat
    OBVIOUS
  <2> HIDE DEF T
  <2>2. PICK m \in T : \A x \in T : <<x, m>> \notin OpToRel(<, Nat)
    BY <2>1, NatLessThanWellFounded, WFMin
  <2>3. ASSUME NEW x \in T, ~(m <= x)
        PROVE  FALSE
    <3>1. <<x, m>> \in OpToRel(<, Nat)
      BY <2>1, <2>3 DEF OpToRel
    <3> QED BY <2>2, <3>1
  <2> QED BY <2>3
<1>2. PICK m \in T : \A x \in T : m <= x
  BY <1>1
<1>3. /\ m \in Nat /\ (\A i \in I : i <= m) /\ m <= n
      /\ m = 0 \/ m \in I
  <2>1. m \in Nat /\ (\A i \in I : i <= m) /\ m <= n
    BY <1>2
  <2>2. ASSUME m # 0, m \notin I
        PROVE  FALSE
    <3>1. m - 1 \in T
      BY <2>1, <2>2
    <3> QED BY <1>2, <2>1, <3>1
  <2> QED BY <2>1, <2>2
<1>4. I = 1 .. m
  <2> HIDE DEF T
  <2>1. \A i \in 1 .. m : i \in I
    BY <1>3
  <2>2. \A i \in I : i \in 1 .. m
    BY <1>3
  <2> QED BY <2>1, <2>2
<1>5. Cardinality(1 .. m) = m
  <2>1. m \in Int
    BY <1>3
  <2> HIDE DEF T
  <2> QED BY <1>3, <2>1, FS_Interval
<1> QED BY <1>3, <1>4, <1>5

\* The starts up to a dword, and the ends before one, are the first so many.
LEMMA CountsArePrefixes ==
  ASSUME NEW S \in Seq(Nat), NEW E \in Seq(Nat), NEW d \in Nat,
         \A i, j \in DOMAIN S : i < j => S[i] < S[j],
         \A i, j \in DOMAIN E : i < j => E[i] < E[j]
  PROVE  /\ Begun(S, d) \in 0 .. Len(S)
         /\ \A i \in DOMAIN S : S[i] <= d <=> i <= Begun(S, d)
         /\ Ended(E, d) \in 0 .. Len(E)
         /\ \A j \in DOMAIN E : E[j] < d <=> j <= Ended(E, d)
<1>1. /\ DOMAIN S = 1 .. Len(S) /\ Len(S) \in Nat
      /\ DOMAIN E = 1 .. Len(E) /\ Len(E) \in Nat
      /\ \A i \in DOMAIN S : S[i] \in Nat
      /\ \A i \in DOMAIN E : E[i] \in Nat
  OBVIOUS
<1>2. DEFINE I == {i \in DOMAIN S : S[i] <= d}
             J == {j \in DOMAIN E : E[j] < d}
<1>3. Cardinality(I) \in 0 .. Len(S) /\ I = 1 .. Cardinality(I)
  <2>1. I \in SUBSET (1 .. Len(S))
    BY <1>1
  <2>2. ASSUME NEW i \in I, NEW j \in 1 .. Len(S), j < i
        PROVE  j \in I
    <3>1. i \in DOMAIN S /\ j \in DOMAIN S /\ S[j] < S[i] /\ S[i] <= d
      BY <1>1, <2>2
    <3>2. S[i] \in Nat /\ S[j] \in Nat
      BY <3>1
    <3> QED BY <3>1, <3>2
  <2> HIDE DEF I
  <2> QED BY <1>1, <2>1, <2>2, FirstSoMany
<1>4. Cardinality(J) \in 0 .. Len(E) /\ J = 1 .. Cardinality(J)
  <2>1. J \in SUBSET (1 .. Len(E))
    BY <1>1
  <2>2. ASSUME NEW i \in J, NEW j \in 1 .. Len(E), j < i
        PROVE  j \in J
    <3>1. i \in DOMAIN E /\ j \in DOMAIN E /\ E[j] < E[i] /\ E[i] < d
      BY <1>1, <2>2
    <3>2. E[i] \in Nat /\ E[j] \in Nat
      BY <3>1
    <3> QED BY <3>1, <3>2
  <2> HIDE DEF J
  <2> QED BY <1>1, <2>1, <2>2, FirstSoMany
<1>5. \A i \in DOMAIN S : S[i] <= d <=> i <= Cardinality(I)
  <2>1. \A i \in DOMAIN S : S[i] <= d <=> i \in I
    OBVIOUS
  <2> HIDE DEF I
  <2> QED BY <1>1, <1>3, <2>1
<1>6. \A j \in DOMAIN E : E[j] < d <=> j <= Cardinality(J)
  <2>1. \A j \in DOMAIN E : E[j] < d <=> j \in J
    OBVIOUS
  <2> HIDE DEF J
  <2> QED BY <1>1, <1>4, <2>1
<1> QED BY <1>3, <1>4, <1>5, <1>6 DEF Begun, Ended

\* On a legal beat the walk over the marks and the counting agree.
LEMMA WalkCounts ==
  ASSUME NEW open, NEW S \in Seq(Nat), NEW E \in Seq(Nat),
         Alternate(open, S, E), NEW d \in Nat
  PROVE  Carries(Marks(S), Marks(E), open, d) <=> InPacket(open, S, E, d)
<1> DEFINE k == IF open THEN 1 ELSE 0
           a == Begun(S, d)
           c == Ended(E, d)
<1>1. /\ DOMAIN S = 1 .. Len(S) /\ Len(S) \in Nat
      /\ DOMAIN E = 1 .. Len(E) /\ Len(E) \in Nat
      /\ \A i \in DOMAIN S : S[i] \in Nat
      /\ \A i \in DOMAIN E : E[i] \in Nat
  OBVIOUS
<1>2. \A i \in DOMAIN S, j \in DOMAIN E :
        IF j < i + k THEN E[j] < S[i] ELSE S[i] <= E[j]
  BY DEF Alternate
<1>3. /\ \A i, j \in DOMAIN S : i < j => S[i] < S[j]
      /\ \A i, j \in DOMAIN E : i < j => E[i] < E[j]
  <2>1. k \in 0 .. 1 /\ k = IF open THEN 1 ELSE 0
    OBVIOUS
  <2> HIDE DEF k, a, c
  <2> QED BY <2>1, AlternateClimbs
<1>4. /\ a \in 0 .. Len(S) /\ c \in 0 .. Len(E)
      /\ \A i \in DOMAIN S : S[i] <= d <=> i <= a
      /\ \A j \in DOMAIN E : E[j] < d <=> j <= c
  BY <1>3, CountsArePrefixes
<1>5. /\ InPacket(open, S, E, d) <=> k + a > c
      /\ Carries(Marks(S), Marks(E), open, d)
           <=> \/ \E i \in DOMAIN S : S[i] = d
               \/ open /\ \A j \in DOMAIN E : E[j] >= d
               \/ \E i \in DOMAIN S :
                    S[i] < d /\ \A j \in DOMAIN E : E[j] < S[i] \/ E[j] >= d
  BY DEF InPacket, Carries, OpenBefore, Marks
<1>6. k \in {0, 1} /\ (open <=> k = 1)
  OBVIOUS
<1> HIDE DEF k, a, c
\* A packet is counted: its start is the last one up to d, or the beat's
\* beginning.
<1>7. ASSUME k + a > c, a = 0
      PROVE  open /\ \A j \in DOMAIN E : E[j] >= d
  <2>1. c = 0 /\ k = 1
    BY <1>4, <1>6, <1>7
  <2>2. \A j \in DOMAIN E : ~(E[j] < d)
    BY <1>1, <1>4, <2>1
  <2> QED BY <1>1, <1>6, <2>1, <2>2
<1>8. ASSUME k + a > c, a # 0, S[a] # d
      PROVE  /\ a \in DOMAIN S /\ S[a] < d
             /\ \A j \in DOMAIN E : E[j] < S[a] \/ E[j] >= d
  <2>1. a \in DOMAIN S /\ S[a] < d
    <3>1. a \in DOMAIN S
      BY <1>1, <1>4, <1>8
    <3>2. S[a] <= d /\ S[a] \in Nat
      BY <1>1, <1>4, <3>1
    <3> QED BY <1>8, <3>1, <3>2
  <2>2. ASSUME NEW j \in DOMAIN E, E[j] < d
        PROVE  E[j] < S[a]
    <3>1. j <= c /\ j < a + k
      BY <1>1, <1>4, <1>6, <1>8, <2>2
    <3> QED BY <1>2, <2>1, <3>1
  <2> QED BY <1>1, <2>1, <2>2
\* A packet is walked into: its start is counted and its end is not.
<1>9. ASSUME NEW i \in DOMAIN S, S[i] <= d,
             \A j \in DOMAIN E : E[j] < S[i] \/ E[j] >= d
      PROVE  k + a > c
  <2>1. i <= a /\ i \in Nat /\ i >= 1
    BY <1>1, <1>4, <1>9
  <2>2. ASSUME c \in DOMAIN E
        PROVE  c < i + k
    <3>1. E[c] < d
      BY <1>4, <2>2
    <3>2. E[c] < S[i]
      BY <1>1, <1>9, <2>2, <3>1
    <3> QED BY <1>1, <1>2, <2>2, <3>2
  <2>3. c = 0 \/ c \in DOMAIN E
    BY <1>1, <1>4
  <2> QED BY <1>1, <1>4, <1>6, <2>1, <2>2, <2>3
<1>10. ASSUME open, \A j \in DOMAIN E : E[j] >= d
       PROVE  k + a > c
  <2>1. c \notin DOMAIN E
    BY <1>1, <1>4, <1>10
  <2> QED BY <1>1, <1>4, <1>6, <1>10, <2>1
<1>11. ASSUME NEW i \in DOMAIN S, S[i] = d
       PROVE  k + a > c
  <2>1. \A j \in DOMAIN E : E[j] < S[i] \/ E[j] >= d
    BY <1>1, <1>11
  <2> QED BY <1>1, <1>9, <1>11, <2>1
<1>12. k + a > c => Carries(Marks(S), Marks(E), open, d)
  <2>1. a # 0 => a \in DOMAIN S
    BY <1>1, <1>4
  <2> QED BY <1>5, <1>7, <1>8, <2>1
<1>13. Carries(Marks(S), Marks(E), open, d) => k + a > c
  <2>1. \A i \in DOMAIN S : S[i] < d => S[i] <= d
    BY <1>1
  <2> QED BY <1>5, <1>9, <1>10, <1>11, <2>1
<1> QED BY <1>5, <1>12, <1>13

\* All starts and ends are counted at the end of a beat.
LEMMA AllCounted ==
  ASSUME NEW q \in Seq(Nat), NEW n \in Nat, NEW d \in Nat, d >= n,
         \A x \in Marks(q) : x < n
  PROVE  Begun(q, d) = Len(q) /\ Ended(q, d) = Len(q)
<1>1. DOMAIN q = 1 .. Len(q) /\ Len(q) \in Nat
  OBVIOUS
<1>2. \A i \in DOMAIN q : q[i] <= d /\ q[i] < d
  <2> TAKE i \in DOMAIN q
  <2>1. q[i] \in Nat /\ q[i] < n
    BY DEF Marks
  <2> QED BY <2>1
<1>3. /\ {i \in DOMAIN q : q[i] <= d} = 1 .. Len(q)
      /\ {i \in DOMAIN q : q[i] < d} = 1 .. Len(q)
  BY <1>1, <1>2
<1>4. Cardinality(1 .. Len(q)) = Len(q)
  <2> DEFINE m == Len(q)
  <2>1. m \in Int /\ m \in Nat
    BY <1>1
  <2> HIDE DEF m
  <2>2. Cardinality(1 .. m) = m
    BY <2>1, FS_Interval
  <2> QED BY <2>2 DEF m
<1> QED BY <1>3, <1>4 DEF Begun, Ended

=============================================================================
