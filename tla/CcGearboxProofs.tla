--------------------------- MODULE CcGearboxProofs ---------------------------
(***************************************************************************)
(* Proofs about the completer-completion gearbox, for every width of a     *)
(* beat and of the core's grid and all legal traffic of the shim: the core *)
(* reads every dword once, in order and framed as it was sent, and a beat  *)
(* is held back only in the middle of a packet.                            *)
(***************************************************************************)
EXTENDS CcGearbox, TlpBeatsProofs

-----------------------------------------------------------------------------
(* Arithmetic of the grid.                                                 *)

LEMMA Quotient ==
  ASSUME NEW x \in Nat, NEW w \in Nat \ {0}
  PROVE  /\ x \div w \in Nat /\ (x \div w) * w <= x
         /\ x % w = 0 => (x \div w) * w = x
OBVIOUS

LEMMA ModHalf ==
  ASSUME NEW n \in Nat \ {0}, NEW d \in 0 .. n - 1
  PROVE  d % n = d /\ (d + n) % n = d
OBVIOUS

LEMMA Cancel ==
  ASSUME NEW a \in Nat, NEW q \in Nat, NEW w \in Nat \ {0}, a * w < q * w
  PROVE  a < q
OBVIOUS

LEMMA Spread ==
  ASSUME NEW a \in Nat, NEW q \in Nat, NEW w \in Nat
  PROVE  (a + q) * w = a * w + q * w
OBVIOUS

\* A start goes to the core's grid and, where the grid has it, comes back.
LEMMA OnGrid ==
  ASSUME NEW x \in 0 .. Half - 1
  PROVE  /\ x \div SopDw \in 0 .. Half \div SopDw - 1
         /\ x % SopDw = 0 => (x \div SopDw) * SopDw = x
<1>1. /\ x \in Nat /\ Half \in Nat /\ SopDw \in Nat \ {0} /\ x < Half
      /\ Half % SopDw = 0
  BY WidthAssumption
<1>2. /\ x \div SopDw \in Nat /\ (x \div SopDw) * SopDw <= x
      /\ x % SopDw = 0 => (x \div SopDw) * SopDw = x
  BY <1>1, Quotient
<1>3. Half \div SopDw \in Nat /\ (Half \div SopDw) * SopDw = Half
  BY <1>1, Quotient
<1> DEFINE a == x \div SopDw
           q == Half \div SopDw
<1>4. a \in Nat /\ q \in Nat /\ a * SopDw <= x /\ q * SopDw = Half
  BY <1>2, <1>3
<1> HIDE DEF a, q
<1>5. a * SopDw < q * SopDw
  <2>1. a * SopDw \in Nat
    BY <1>1, <1>4
  <2> QED BY <1>1, <1>4, <2>1
<1>6. a < q
  BY <1>1, <1>4, <1>5, Cancel
<1> QED BY <1>2, <1>4, <1>6 DEF a, q

\* In the high half it comes back that much higher.
LEMMA OnGridAbove ==
  ASSUME NEW p \in Nat
  PROVE  /\ (p + Half \div SopDw) * SopDw = p * SopDw + Half
         /\ p + Half \div SopDw \in Nat
<1>1. /\ Half \in Nat /\ SopDw \in Nat \ {0} /\ Half % SopDw = 0
  BY WidthAssumption
<1>2. Half \div SopDw \in Nat /\ (Half \div SopDw) * SopDw = Half
  BY <1>1, Quotient
<1> DEFINE q == Half \div SopDw
<1>3. q \in Nat /\ q * SopDw = Half
  BY <1>2
<1> HIDE DEF q
<1>4. (p + q) * SopDw = p * SopDw + q * SopDw
  BY <1>1, <1>3, Spread
<1> QED BY <1>3, <1>4 DEF q

-----------------------------------------------------------------------------
(* What a beat of the shim carries, straddled (s) or not.                  *)

Beat(s, b) ==
  /\ b = [open |-> b.open, starts |-> b.starts, ends |-> b.ends,
          keep |-> b.keep, last |-> b.last, tag |-> b.tag]
  /\ b.open \in BOOLEAN /\ LegalBeat(s, b)

\* The dwords its packets start and end on, and those it carries.
StartsOf(s, b) ==
  IF s THEN Marks(b.starts) ELSE IF b.open THEN {} ELSE {0}

EndsOf(s, b) ==
  IF s THEN Marks(b.ends) ELSE IF b.last THEN {b.keep - 1} ELSE {}

Carried(s, b) ==
  IF s THEN {d \in 0 .. Half - 1 :
               Carries(StartsOf(s, b), EndsOf(s, b), b.open, d)}
       ELSE 0 .. b.keep - 1

Token(s, b, d) ==
  [tag |-> b.tag, dw |-> d, sop |-> d \in StartsOf(s, b),
   eop |-> d \in EndsOf(s, b)]

LEMMA BeatTypes ==
  ASSUME NEW s \in BOOLEAN, NEW b, Beat(s, b)
  PROVE  /\ b.keep \in 1 .. Half /\ b.keep \in Nat /\ Half \in Nat
         /\ b.starts \in Seq(Nat) /\ b.ends \in Seq(Nat)
         /\ \A x \in Marks(b.starts) \cup Marks(b.ends) : x \in 0 .. Half - 1
         /\ s => Alternate(b.open, b.starts, b.ends)
         /\ s => b.open \/ b.starts # <<>>
         /\ ~s => b.last \/ b.keep = Half
BY WidthAssumption DEF Beat, LegalBeat, Marks

LEMMA CarriedFinite ==
  ASSUME NEW s \in BOOLEAN, NEW b, Beat(s, b)
  PROVE  /\ Carried(s, b) \in SUBSET (0 .. Half - 1)
         /\ IsFiniteSet(Carried(s, b)) /\ Cardinality(Carried(s, b)) <= Half
         /\ Cardinality(Carried(s, b)) \in Nat
         /\ Enumerates(InOrder(Carried(s, b)), Carried(s, b))
         /\ InOrder(Carried(s, b)) \in Seq(Carried(s, b))
         /\ Len(InOrder(Carried(s, b))) = Cardinality(Carried(s, b))
<1>1. Carried(s, b) \in SUBSET (0 .. Half - 1)
  BY BeatTypes DEF Carried
<1>2. Half \in Nat /\ IsFiniteSet(0 .. Half - 1)
        /\ Cardinality(0 .. Half - 1) = Half
  BY WidthAssumption, FS_Interval
<1>3. /\ IsFiniteSet(Carried(s, b)) /\ Cardinality(Carried(s, b)) <= Half
      /\ Cardinality(Carried(s, b)) \in Nat
  BY <1>1, <1>2, FS_Subset, FS_CardinalityType
<1>4. Carried(s, b) \in SUBSET Nat
  BY <1>1, <1>2
<1> QED BY <1>1, <1>3, <1>4, InOrderEnumerates

\* What the shim means by the beat, dword by dword.
LEMMA BeatTokens ==
  ASSUME NEW s \in BOOLEAN, NEW b, Beat(s, b)
  PROVE  Tokens(s, b) = [i \in 1 .. Cardinality(Carried(s, b)) |->
                           Token(s, b, InOrder(Carried(s, b))[i])]
<1> DEFINE D == Carried(s, b)
           o == InOrder(D)
<1>1. /\ Len(o) = Cardinality(D) /\ DOMAIN o = 1 .. Len(o)
      /\ \A i \in 1 .. Cardinality(D) : o[i] \in D
  BY CarriedFinite
<1>2. CASE s
  <2>1. {d \in 0 .. Half - 1 : InPacket(b.open, b.starts, b.ends, d)} = D
    <3>1. \A d \in 0 .. Half - 1 :
            InPacket(b.open, b.starts, b.ends, d)
              <=> Carries(Marks(b.starts), Marks(b.ends), b.open, d)
      <4>1. /\ b.starts \in Seq(Nat) /\ b.ends \in Seq(Nat) /\ Half \in Nat
            /\ Alternate(b.open, b.starts, b.ends)
        BY <1>2, BeatTypes
      <4> TAKE d \in 0 .. Half - 1
      <4>2. d \in Nat
        BY <4>1
      <4> QED BY <4>1, <4>2, WalkCounts
    <3> QED BY <1>2, <3>1 DEF Carried, StartsOf, EndsOf
  <2>2. Tokens(s, b) = [i \in DOMAIN o |->
                         [tag |-> b.tag, dw |-> o[i],
                          sop |-> o[i] \in Marks(b.starts),
                          eop |-> o[i] \in Marks(b.ends)]]
    BY <1>2, <2>1 DEF Tokens
  <2>3. \A d : Token(s, b, d) = [tag |-> b.tag, dw |-> d,
                                 sop |-> d \in Marks(b.starts),
                                 eop |-> d \in Marks(b.ends)]
    BY <1>2 DEF Token, StartsOf, EndsOf
  <2> HIDE DEF D, o
  <2> QED BY <1>1, <2>2, <2>3 DEF D, o
<1>3. CASE ~s
  <2>1. D = 0 .. b.keep - 1 /\ b.keep \in Nat \ {0}
    BY <1>3, BeatTypes DEF Carried
  <2>2. o = [i \in 1 .. b.keep |-> i - 1]
    BY <2>1, InOrderFromZero
  <2>3. Cardinality(D) = b.keep /\ Len(o) = b.keep /\ DOMAIN o = 1 .. b.keep
    BY <1>1, <2>1, <2>2
  <2>4. Tokens(s, b) = [i \in 1 .. b.keep |->
                         [tag |-> b.tag, dw |-> o[i],
                          sop |-> i = 1 /\ ~b.open,
                          eop |-> b.last /\ i = b.keep]]
    <3>1. Tokens(s, b) = [i \in DOMAIN o |->
                           [tag |-> b.tag, dw |-> o[i],
                            sop |-> i = 1 /\ ~b.open,
                            eop |-> b.last /\ i = Len(o)]]
      BY <1>3, <2>1 DEF Tokens
    <3> QED BY <2>3, <3>1
  <2>5. ASSUME NEW i \in 1 .. b.keep
        PROVE  Token(s, b, o[i]) = [tag |-> b.tag, dw |-> o[i],
                                    sop |-> i = 1 /\ ~b.open,
                                    eop |-> b.last /\ i = b.keep]
    <3>1. o[i] = i - 1
      BY <2>2
    <3>2. (o[i] = 0 <=> i = 1) /\ (o[i] = b.keep - 1 <=> i = b.keep)
      BY <2>1, <3>1
    <3>3. (o[i] \in StartsOf(s, b) <=> i = 1 /\ ~b.open)
            /\ (o[i] \in EndsOf(s, b) <=> b.last /\ i = b.keep)
      BY <1>3, <3>2 DEF StartsOf, EndsOf
    <3>4. (o[i] \in StartsOf(s, b)) = (i = 1 /\ ~b.open)
            /\ (o[i] \in EndsOf(s, b)) = (b.last /\ i = b.keep)
      BY <3>3
    <3> HIDE DEF o
    <3> QED BY <3>4 DEF Token
  <2> HIDE DEF D, o
  <2> QED BY <2>3, <2>4, <2>5 DEF D, o
<1> QED BY <1>2, <1>3

-----------------------------------------------------------------------------
(* Where a beat ends.                                                      *)

\* Past the beat, the walk finds a packet open exactly when the shim has
\* left one open.
LEMMA WalkEnd ==
  ASSUME NEW b, Beat(TRUE, b), NEW d \in Nat, d >= Half
  PROVE  /\ OpenBefore(Marks(b.starts), Marks(b.ends), b.open, d)
              <=> OpenAfter(TRUE, b)
         /\ Carries(Marks(b.starts), Marks(b.ends), b.open, d)
              <=> OpenAfter(TRUE, b)
<1>1. /\ Half \in Nat /\ b.starts \in Seq(Nat) /\ b.ends \in Seq(Nat)
      /\ \A x \in Marks(b.starts) \cup Marks(b.ends) : x \in 0 .. Half - 1
      /\ Alternate(b.open, b.starts, b.ends)
  BY BeatTypes
<1>2. \A x \in Marks(b.starts) \cup Marks(b.ends) : x < Half /\ x # d
  BY <1>1
<1>3. Begun(b.starts, d) = Len(b.starts) /\ Ended(b.ends, d) = Len(b.ends)
  BY <1>1, <1>2, AllCounted
<1>4. Carries(Marks(b.starts), Marks(b.ends), b.open, d)
        <=> OpenAfter(TRUE, b)
  BY <1>1, <1>3, WalkCounts DEF InPacket, OpenAfter
<1>5. d \notin Marks(b.starts)
  BY <1>2
<1> QED BY <1>4, <1>5 DEF Carries

-----------------------------------------------------------------------------
(* One beat above another.                                                 *)

Above(D) == {d + Half : d \in D}

\* The marks of a held beat h below those of the next one b.
StartsJoined(s, h, b) == StartsOf(s, h) \cup Above(StartsOf(s, b))
EndsJoined(s, h, b) == EndsOf(s, h) \cup Above(EndsOf(s, b))

LEMMA MarksInHalf ==
  ASSUME NEW s \in BOOLEAN, NEW b, Beat(s, b)
  PROVE  \A x \in StartsOf(s, b) \cup EndsOf(s, b) : x \in 0 .. Half - 1
<1>1. /\ Half \in Nat \ {0} /\ b.keep \in 1 .. Half
      /\ \A x \in Marks(b.starts) \cup Marks(b.ends) : x \in 0 .. Half - 1
  BY BeatTypes, WidthAssumption
<1>2. 0 \in 0 .. Half - 1 /\ b.keep - 1 \in 0 .. Half - 1
  BY <1>1
<1> QED BY <1>1, <1>2 DEF StartsOf, EndsOf

\* In the low half the core walks as over the held beat alone.
LEMMA JoinedLow ==
  ASSUME NEW h, NEW b, Beat(TRUE, h), Beat(TRUE, b), NEW d \in 0 .. Half - 1
  PROVE  Carries(StartsJoined(TRUE, h, b), EndsJoined(TRUE, h, b), h.open, d)
           <=> Carries(StartsOf(TRUE, h), EndsOf(TRUE, h), h.open, d)
<1> DEFINE S == StartsOf(TRUE, h)
           E == EndsOf(TRUE, h)
           T == Above(StartsOf(TRUE, b))
           F == Above(EndsOf(TRUE, b))
<1>1. /\ TRUE \in BOOLEAN /\ Half \in Nat
      /\ \A x \in StartsOf(TRUE, b) \cup EndsOf(TRUE, b) : x \in 0 .. Half - 1
  BY MarksInHalf, WidthAssumption
<1>2. \A x \in T \cup F : \E y \in 0 .. Half - 1 : x = y + Half
  BY <1>1 DEF Above
<1> HIDE DEF S, E, T, F
<1>3. \A x \in T \cup F : x > d /\ x >= d /\ ~(x < d) /\ x # d
  BY <1>1, <1>2
<1>4. Carries(S \cup T, E \cup F, h.open, d) <=> Carries(S, E, h.open, d)
  BY <1>3 DEF Carries, OpenBefore
<1> QED BY <1>4 DEF S, E, T, F, StartsJoined, EndsJoined

\* In the high half it walks as over the next beat alone.
LEMMA JoinedHigh ==
  ASSUME NEW h, NEW b, Beat(TRUE, h), Beat(TRUE, b),
         OpenAfter(TRUE, h), b.open, NEW d \in 0 .. Half - 1
  PROVE  Carries(StartsJoined(TRUE, h, b), EndsJoined(TRUE, h, b), h.open,
                 d + Half)
           <=> Carries(StartsOf(TRUE, b), EndsOf(TRUE, b), b.open, d)
<1> DEFINE S == StartsOf(TRUE, h)
           E == EndsOf(TRUE, h)
           T == StartsOf(TRUE, b)
           F == EndsOf(TRUE, b)
<1>0. /\ TRUE \in BOOLEAN /\ Half \in Nat
      /\ \A x \in S \cup E : x \in 0 .. Half - 1
      /\ \A x \in T \cup F : x \in 0 .. Half - 1
  BY MarksInHalf, WidthAssumption
<1>1. /\ Half \in Nat /\ d \in Nat /\ Half >= Half
      /\ \A x \in S \cup E : x \in Nat /\ x < Half
      /\ \A x \in T \cup F : x \in Nat
  <2> HIDE DEF S, E, T, F
  <2> QED BY <1>0
<1>2. OpenBefore(S, E, h.open, Half)
  <2>1. S = Marks(h.starts) /\ E = Marks(h.ends)
    BY DEF StartsOf, EndsOf
  <2> HIDE DEF S, E, T, F
  <2> QED BY <1>1, <2>1, WalkEnd
<1> HIDE DEF S, E, T, F
\* The held beat's last packet reaches the next one.
<1>3. (h.open /\ E = {}) \/ \E x \in S : \A e \in E : e < x
  BY <1>1, <1>2 DEF OpenBefore
<1>4. /\ \A x \in T : (x + Half = d + Half <=> x = d)
                      /\ (x + Half < d + Half <=> x < d)
      /\ \A x \in S : x # d + Half /\ x < d + Half
      /\ \A e \in F : (e + Half >= d + Half <=> e >= d)
      /\ \A e \in E : ~(e >= d + Half)
      /\ \A x \in S, e \in F : ~(e + Half < x)
      /\ \A x \in T, e \in E : e < x + Half
      /\ \A x \in T, e \in F : e + Half < x + Half <=> e < x
  BY <1>1
<1>5. d + Half \in S \cup Above(T) <=> d \in T
  <2>1. d + Half \in Above(T) <=> \E x \in T : x + Half = d + Half
    BY DEF Above
  <2> QED BY <1>4, <2>1
<1>6. OpenBefore(S \cup Above(T), E \cup Above(F), h.open, d + Half)
        <=> \/ h.open /\ E = {} /\ \A e \in F : e >= d
            \/ \E x \in S : /\ \A e \in E : e < x
                            /\ \A e \in F : e >= d
            \/ \E x \in T : x < d /\ \A e \in F : e < x \/ e >= d
  <2>1. (\A e \in E \cup Above(F) : e >= d + Half)
          <=> E = {} /\ \A e \in F : e >= d
    BY <1>4 DEF Above
  <2>2. \A x \in S :
          x < d + Half
            /\ (\A e \in E \cup Above(F) : e < x \/ e >= d + Half)
          <=> (\A e \in E : e < x) /\ (\A e \in F : e >= d)
    BY <1>4 DEF Above
  <2>3. \A x \in T :
          x + Half < d + Half
            /\ (\A e \in E \cup Above(F) : e < x + Half \/ e >= d + Half)
          <=> x < d /\ \A e \in F : e < x \/ e >= d
    BY <1>4 DEF Above
  <2>4. (\E x \in S \cup Above(T) :
           x < d + Half
             /\ \A e \in E \cup Above(F) : e < x \/ e >= d + Half)
          <=> \/ \E x \in S :
                   x < d + Half
                     /\ \A e \in E \cup Above(F) : e < x \/ e >= d + Half
              \/ \E x \in T :
                   x + Half < d + Half
                     /\ \A e \in E \cup Above(F) :
                          e < x + Half \/ e >= d + Half
    BY DEF Above
  <2> QED BY <2>1, <2>2, <2>3, <2>4 DEF OpenBefore
<1>7. OpenBefore(S \cup Above(T), E \cup Above(F), h.open, d + Half)
        <=> OpenBefore(T, F, TRUE, d)
  BY <1>3, <1>6 DEF OpenBefore
<1> QED BY <1>5, <1>7 DEF Carries, S, E, T, F, StartsJoined, EndsJoined

\* So the core finds the dwords of both.
LEMMA CarriedJoined ==
  ASSUME NEW h, NEW b, Beat(TRUE, h), Beat(TRUE, b),
         OpenAfter(TRUE, h), b.open
  PROVE  {d \in 0 .. 2 * Half - 1 :
            Carries(StartsJoined(TRUE, h, b), EndsJoined(TRUE, h, b),
                    h.open, d)}
           = Carried(TRUE, h) \cup Above(Carried(TRUE, b))
<1> DEFINE In(d) == Carries(StartsJoined(TRUE, h, b), EndsJoined(TRUE, h, b),
                            h.open, d)
<1>1. \A d \in 0 .. Half - 1 : In(d) <=> d \in Carried(TRUE, h)
  BY JoinedLow DEF Carried
<1>2. \A d \in 0 .. Half - 1 : In(d + Half) <=> d \in Carried(TRUE, b)
  BY JoinedHigh DEF Carried
<1>3. /\ Carried(TRUE, h) \in SUBSET (0 .. Half - 1)
      /\ Carried(TRUE, b) \in SUBSET (0 .. Half - 1)
      /\ Half \in Nat
  BY WidthAssumption DEF Carried
<1> DEFINE C == Carried(TRUE, h)
           B == Carried(TRUE, b)
<1> HIDE DEF In, C, B
<1>4. {d \in 0 .. 2 * Half - 1 : In(d)} = C \cup Above(B)
  <2>1. ASSUME NEW d \in 0 .. 2 * Half - 1, In(d)
        PROVE  d \in C \cup Above(B)
    <3>1. CASE d < Half
      <4>1. d \in 0 .. Half - 1
        BY <1>3, <3>1
      <4> QED BY <1>1, <2>1, <4>1 DEF C
    <3>2. CASE ~(d < Half)
      <4>1. d - Half \in 0 .. Half - 1 /\ (d - Half) + Half = d
        BY <1>3, <3>2
      <4>2. d - Half \in B
        BY <1>2, <2>1, <4>1 DEF B
      <4> QED BY <4>1, <4>2 DEF Above
    <3> QED BY <3>1, <3>2
  <2>2. ASSUME NEW d \in C
        PROVE  d \in 0 .. 2 * Half - 1 /\ In(d)
    <3>1. d \in 0 .. Half - 1
      BY <1>3 DEF C
    <3>2. d \in 0 .. 2 * Half - 1
      BY <1>3, <3>1
    <3> QED BY <1>1, <3>1, <3>2 DEF C
  <2>3. ASSUME NEW d \in B
        PROVE  d + Half \in 0 .. 2 * Half - 1 /\ In(d + Half)
    <3>1. d \in 0 .. Half - 1
      BY <1>3 DEF B
    <3>2. d + Half \in 0 .. 2 * Half - 1
      BY <1>3, <3>1
    <3> QED BY <1>2, <3>1, <3>2 DEF B
  <2> QED BY <2>1, <2>2, <2>3 DEF Above
<1> QED BY <1>4 DEF In, C, B

LEMMA HalvesInOrder ==
  ASSUME NEW A \in SUBSET (0 .. Half - 1), NEW B \in SUBSET (0 .. Half - 1)
  PROVE  /\ InOrder(A) \in Seq(A) /\ InOrder(B) \in Seq(B)
         /\ Len(InOrder(A)) = Cardinality(A)
         /\ Len(InOrder(B)) = Cardinality(B)
         /\ InOrder(A \cup Above(B))
              = InOrder(A)
                  \o [i \in 1 .. Cardinality(B) |-> InOrder(B)[i] + Half]
<1>1. Half \in Nat /\ A \in SUBSET Nat /\ B \in SUBSET Nat
  BY WidthAssumption
<1>2. IsFiniteSet(A) /\ IsFiniteSet(B)
  <2>1. IsFiniteSet(0 .. Half - 1)
    BY <1>1, FS_Interval
  <2> QED BY <2>1, FS_Subset
<1>3. Above(B) \in SUBSET Nat /\ \A x \in A, y \in Above(B) : x < y
  <2>1. ASSUME NEW x \in A, NEW d \in B
        PROVE  x < d + Half
    BY <1>1
  <2> QED BY <1>1, <2>1 DEF Above
<1>4. IsFiniteSet(Above(B))
  <2> DEFINE f == [d \in B |-> d + Half]
  <2>1. f \in Surjection(B, Above(B))
    BY DEF Surjection, Above
  <2> QED BY <1>2, <2>1, FS_Surjection
<1>5. InOrder(Above(B)) = [i \in 1 .. Cardinality(B) |-> InOrder(B)[i] + Half]
  BY <1>1, <1>2, InOrderRaised DEF Above
<1>6. InOrder(A \cup Above(B)) = InOrder(A) \o InOrder(Above(B))
  BY <1>1, <1>2, <1>3, <1>4, InOrderJoined
<1> QED BY <1>1, <1>2, <1>5, <1>6, InOrderEnumerates

-----------------------------------------------------------------------------
(* What the core reads.                                                    *)

\* A dword the core reads: beat t's, below, or beat b's.
Read(t, b, S, E, d) ==
  [tag |-> IF d < Half THEN t ELSE b, dw |-> d % Half,
   sop |-> d \in S, eop |-> d \in E]

ReadAll(t, b, S, E, D) ==
  [i \in DOMAIN InOrder(D) |-> Read(t, b, S, E, InOrder(D)[i])]

LEMMA ReadLow ==
  ASSUME NEW s \in BOOLEAN, NEW h, NEW b, Beat(s, h), Beat(s, b), NEW t,
         NEW d \in 0 .. Half - 1
  PROVE  Read(h.tag, t, StartsJoined(s, h, b), EndsJoined(s, h, b), d)
           = Token(s, h, d)
<1>1. Half \in Nat \ {0} /\ d < Half
  BY WidthAssumption
<1>2. d % Half = d
  BY <1>1, ModHalf
<1>3. \A x \in StartsOf(s, b) \cup EndsOf(s, b) : x + Half # d
  <2>1. \A x \in StartsOf(s, b) \cup EndsOf(s, b) : x \in 0 .. Half - 1
    BY MarksInHalf
  <2>2. \A x \in 0 .. Half - 1 : x + Half # d
    BY <1>1
  <2> QED BY <2>1, <2>2
<1>4. /\ (d \in StartsJoined(s, h, b)) = (d \in StartsOf(s, h))
      /\ (d \in EndsJoined(s, h, b)) = (d \in EndsOf(s, h))
  BY <1>3 DEF StartsJoined, EndsJoined, Above
<1> QED BY <1>1, <1>2, <1>4 DEF Read, Token

LEMMA ReadHigh ==
  ASSUME NEW s \in BOOLEAN, NEW h, NEW b, Beat(s, h), Beat(s, b), NEW t,
         NEW d \in 0 .. Half - 1
  PROVE  Read(t, b.tag, StartsJoined(s, h, b), EndsJoined(s, h, b), d + Half)
           = Token(s, b, d)
<1>1. Half \in Nat \ {0} /\ ~(d + Half < Half) /\ d \in Int
  BY WidthAssumption
<1>2. (d + Half) % Half = d
  BY <1>1, ModHalf
<1>3. /\ \A x \in StartsOf(s, h) \cup EndsOf(s, h) : x # d + Half
      /\ \A x \in StartsOf(s, b) \cup EndsOf(s, b) :
           d + Half = x + Half <=> d = x
  <2>1. /\ \A x \in StartsOf(s, h) \cup EndsOf(s, h) : x \in 0 .. Half - 1
        /\ \A x \in StartsOf(s, b) \cup EndsOf(s, b) : x \in 0 .. Half - 1
    BY MarksInHalf
  <2>2. \A x \in 0 .. Half - 1 :
          x # d + Half /\ (d + Half = x + Half <=> d = x)
    BY <1>1
  <2> QED BY <2>1, <2>2
<1>4. /\ d + Half \in StartsJoined(s, h, b) <=> d \in StartsOf(s, b)
      /\ d + Half \in EndsJoined(s, h, b) <=> d \in EndsOf(s, b)
  BY <1>3 DEF StartsJoined, EndsJoined, Above
<1>5. /\ (d + Half \in StartsJoined(s, h, b)) = (d \in StartsOf(s, b))
      /\ (d + Half \in EndsJoined(s, h, b)) = (d \in EndsOf(s, b))
  BY <1>4
<1> QED BY <1>1, <1>2, <1>5 DEF Read, Token

\* A held beat and the next one read as the shim meant them.
LEMMA ReadJoined ==
  ASSUME NEW s \in BOOLEAN, NEW h, NEW b, Beat(s, h), Beat(s, b)
  PROVE  ReadAll(h.tag, b.tag, StartsJoined(s, h, b), EndsJoined(s, h, b),
                 Carried(s, h) \cup Above(Carried(s, b)))
           = Tokens(s, h) \o Tokens(s, b)
<1> DEFINE A == Carried(s, h)
           B == Carried(s, b)
           n == Cardinality(A)
           m == Cardinality(B)
           a == InOrder(A)
           o == InOrder(B)
           c == [i \in 1 .. m |-> o[i] + Half]
           t == a \o c
           R(d) == Read(h.tag, b.tag, StartsJoined(s, h, b),
                        EndsJoined(s, h, b), d)
<1>1. /\ A \in SUBSET (0 .. Half - 1) /\ B \in SUBSET (0 .. Half - 1)
      /\ n \in Nat /\ m \in Nat
      /\ Half \in Nat
  BY CarriedFinite, WidthAssumption
<1>2. /\ a \in Seq(A) /\ o \in Seq(B) /\ Len(a) = n /\ Len(o) = m
      /\ InOrder(A \cup Above(B)) = t
  <2> HIDE DEF A, B
  <2> QED BY <1>1, HalvesInOrder
<1>3. \A d \in A : R(d) = Token(s, h, d)
  BY <1>1, ReadLow
<1>4. \A d \in B : R(d + Half) = Token(s, b, d)
  BY <1>1, ReadHigh
<1>5. /\ Tokens(s, h) = [i \in 1 .. n |-> Token(s, h, a[i])]
      /\ Tokens(s, b) = [i \in 1 .. m |-> Token(s, b, o[i])]
  BY BeatTokens
<1> HIDE DEF A, B, a, o, n, m, R
<1>6. /\ a \in Seq(Nat) /\ c \in Seq(Nat) /\ n = Len(a) /\ m = Len(c)
  <2>1. A \in SUBSET Nat /\ B \in SUBSET Nat
    BY <1>1
  <2>2. a \in Seq(Nat) /\ o \in Seq(Nat)
    <3>1. a \in Seq(A) /\ o \in Seq(B)
      BY <1>2
    <3> QED BY ONLY <2>1, <3>1, SeqOfMore
  <2>3. \A i \in 1 .. m : o[i] + Half \in Nat
    BY <1>1, <1>2, <2>2
  <2> QED BY <1>1, <1>2, <2>2, <2>3
<1>7. \A i \in 1 .. m : c[i] = o[i] + Half
  OBVIOUS
<1> HIDE DEF c
<1>8. /\ DOMAIN t = 1 .. n + m
      /\ \A i \in 1 .. n : t[i] = a[i]
      /\ \A i \in 1 .. m : t[n + i] = c[i]
  BY ONLY <1>6, TwoLists
<1> HIDE DEF t
<1> DEFINE u == Tokens(s, h)
           v == Tokens(s, b)
           W == {u[i] : i \in 1 .. n} \cup {v[i] : i \in 1 .. m}
<1>9. /\ u \in Seq(W) /\ v \in Seq(W) /\ n = Len(u) /\ m = Len(v)
      /\ \A i \in 1 .. n : u[i] = Token(s, h, a[i])
      /\ \A i \in 1 .. m : v[i] = Token(s, b, o[i])
  <2>1. u = [i \in 1 .. n |-> Token(s, h, a[i])]
    BY <1>5
  <2>2. v = [i \in 1 .. m |-> Token(s, b, o[i])]
    BY <1>5
  <2> HIDE DEF u, v
  <2> QED BY <1>1, <2>1, <2>2
<1> HIDE DEF u, v, W
<1>10. /\ u \o v = [i \in 1 .. n + m |-> (u \o v)[i]]
       /\ \A i \in 1 .. n : (u \o v)[i] = u[i]
       /\ \A i \in 1 .. m : (u \o v)[n + i] = v[i]
  <2>1. u \in Seq(W) /\ v \in Seq(W) /\ n = Len(u) /\ m = Len(v)
    BY <1>9
  <2> QED BY ONLY <2>1, TwoLists
<1>11. ASSUME NEW i \in 1 .. n + m
       PROVE  R(t[i]) = (u \o v)[i]
  <2>1. CASE i \in 1 .. n
    <3>1. a[i] \in A
      BY <1>2, <1>1, <2>1
    <3> QED BY <1>3, <1>8, <1>9, <1>10, <2>1, <3>1
  <2>2. CASE i \notin 1 .. n
    <3>1. PICK j \in 1 .. m : i = n + j
      <4>1. i - n \in 1 .. m /\ i = n + (i - n)
        BY <1>1, <2>2
      <4> QED BY <4>1
    <3>2. o[j] \in B /\ c[j] = o[j] + Half
      BY <1>2, <1>1, <1>7
    <3>3. t[i] = o[j] + Half /\ (u \o v)[i] = Token(s, b, o[j])
      BY <1>8, <1>9, <1>10, <3>1, <3>2
    <3> QED BY <1>4, <3>2, <3>3
  <2> QED BY <2>1, <2>2
<1>12. u \o v = [i \in 1 .. n + m |-> R(t[i])]
  BY <1>10, <1>11
<1>13. ReadAll(h.tag, b.tag, StartsJoined(s, h, b), EndsJoined(s, h, b),
               A \cup Above(B)) = [i \in DOMAIN t |-> R(t[i])]
  BY <1>2 DEF ReadAll, R
<1> QED BY <1>8, <1>12, <1>13 DEF u, v, A, B

\* A beat that goes out alone does, too.
LEMMA ReadAlone ==
  ASSUME NEW s \in BOOLEAN, NEW b, Beat(s, b), NEW t
  PROVE  ReadAll(b.tag, t, StartsOf(s, b), EndsOf(s, b), Carried(s, b))
           = Tokens(s, b)
<1> DEFINE D == Carried(s, b)
           o == InOrder(D)
           n == Cardinality(D)
<1>1. /\ D \in SUBSET (0 .. Half - 1) /\ o \in Seq(D) /\ Len(o) = n
      /\ Half \in Nat \ {0}
  BY CarriedFinite, WidthAssumption
<1>2. \A d \in D : Read(b.tag, t, StartsOf(s, b), EndsOf(s, b), d)
                     = Token(s, b, d)
  <2> TAKE d \in D
  <2>1. d \in 0 .. Half - 1 /\ d < Half
    BY <1>1
  <2>2. d % Half = d
    BY <1>1, <2>1, ModHalf
  <2> QED BY <2>1, <2>2 DEF Read, Token
<1>3. Tokens(s, b) = [i \in 1 .. n |-> Token(s, b, o[i])]
  BY BeatTokens
<1> HIDE DEF D, o, n
<1>4. DOMAIN o = 1 .. n /\ \A i \in 1 .. n : o[i] \in D
  BY <1>1
<1> QED BY <1>2, <1>3, <1>4 DEF ReadAll, o, D

-----------------------------------------------------------------------------
(* A beat's last dword.                                                    *)

LEMMA OpenAfterBoolean ==
  ASSUME NEW s \in BOOLEAN, NEW b, Beat(s, b)
  PROVE  OpenAfter(s, b) \in BOOLEAN
<1>1. b.starts \in Seq(Nat) /\ b.ends \in Seq(Nat)
  BY BeatTypes
<1>2. CASE s
  BY <1>1, <1>2 DEF OpenAfter
<1>3. CASE ~s
  BY <1>3 DEF OpenAfter
<1> QED BY <1>2, <1>3

LEMMA SomeDword ==
  ASSUME NEW s \in BOOLEAN, NEW b, Beat(s, b)
  PROVE  Carried(s, b) # {}
<1>1. /\ Half \in Nat \ {0} /\ b.keep \in 1 .. Half
      /\ b.starts \in Seq(Nat)
      /\ \A x \in Marks(b.starts) \cup Marks(b.ends) : x \in 0 .. Half - 1
      /\ s => b.open \/ b.starts # <<>>
  BY BeatTypes, WidthAssumption
<1>2. CASE ~s
  <2>1. 0 \in 0 .. b.keep - 1
    BY <1>1
  <2> QED BY <1>2, <2>1 DEF Carried
<1>3. CASE s /\ b.starts # <<>>
  <2>1. b.starts[1] \in Marks(b.starts)
    BY <1>1, <1>3 DEF Marks
  <2>2. b.starts[1] \in Carried(s, b)
    BY <1>1, <1>3, <2>1 DEF Carried, Carries, StartsOf
  <2> QED BY <2>2
<1>4. CASE s /\ b.open
  <2>1. /\ 0 \in 0 .. Half - 1
        /\ \A x \in 0 .. Half - 1 : x >= 0
    BY <1>1
  <2>2. \A x \in Marks(b.ends) : x >= 0
    BY <1>1, <2>1
  <2>3. 0 \in Carried(s, b)
    BY <1>4, <2>1, <2>2 DEF Carried, Carries, OpenBefore, EndsOf
  <2> QED BY <2>3
<1> QED BY <1>1, <1>2, <1>3, <1>4

\* It ends a packet unless the beat leaves one open.
LEMMA LastDword ==
  ASSUME NEW s \in BOOLEAN, NEW b, Beat(s, b), NEW d \in Carried(s, b),
         \A c \in Carried(s, b) : c <= d
  PROVE  d \in EndsOf(s, b) <=> ~OpenAfter(s, b)
<1>1. /\ Half \in Nat \ {0} /\ b.keep \in 1 .. Half
      /\ \A x \in Marks(b.starts) \cup Marks(b.ends) : x \in 0 .. Half - 1
  BY BeatTypes, WidthAssumption
<1>2. CASE ~s
  <2>1. b.keep - 1 \in 0 .. b.keep - 1 /\ d \in 0 .. b.keep - 1
    BY <1>1, <1>2 DEF Carried
  <2>2. b.keep - 1 <= d
    BY <1>2, <2>1 DEF Carried
  <2>3. d = b.keep - 1
    BY <1>1, <2>1, <2>2
  <2> QED BY <1>2, <2>3 DEF EndsOf, OpenAfter
<1>3. CASE s
  <2> DEFINE S == Marks(b.starts)
             E == Marks(b.ends)
  <2>1. /\ \A x \in S \cup E : x \in Nat /\ x <= Half - 1
        /\ Half \in Nat /\ Half >= Half /\ Half - 1 \in 0 .. Half - 1
        /\ d \in 0 .. Half - 1
    <3>1. d \in 0 .. Half - 1
      BY <1>3 DEF Carried
    <3>2. \A x \in 0 .. Half - 1 : x \in Nat /\ x <= Half - 1
      BY <1>1
    <3> QED BY <1>1, <3>1, <3>2
  <2>2. OpenBefore(S, E, b.open, Half) <=> OpenAfter(s, b)
    <3>1. s = TRUE
      BY <1>3
    <3> QED BY <2>1, <3>1, WalkEnd
  <2>3. \A c \in 0 .. Half - 1 :
          c \in Carried(s, b) <=> c \in S \/ OpenBefore(S, E, b.open, c)
    BY <1>3 DEF Carried, Carries, StartsOf, EndsOf
  <2> HIDE DEF S, E
  <2>4. ASSUME OpenAfter(s, b)
        PROVE  d \notin E
    <3>1. Half - 1 \notin E /\ Half - 1 \in Carried(s, b)
      <4>1. CASE b.open /\ \A e \in E : e >= Half
        <5>1. E = {}
          BY <2>1, <4>1
        <5> QED BY <2>1, <2>3, <4>1, <5>1 DEF OpenBefore
      <4>2. ASSUME NEW x \in S, x < Half, \A e \in E : e < x \/ e >= Half
            PROVE  Half - 1 \notin E /\ Half - 1 \in Carried(s, b)
        <5>1. \A e \in E : e < x /\ e # Half - 1
          BY <2>1, <4>2
        <5>2. x = Half - 1 \/ x < Half - 1
          BY <2>1
        <5> QED BY <2>1, <2>3, <5>1, <5>2 DEF OpenBefore
      <4> QED BY <2>2, <2>4, <4>1, <4>2 DEF OpenBefore
    <3>2. Half - 1 <= d
      BY <3>1
    <3>3. d = Half - 1
      BY <2>1, <3>2
    <3> QED BY <3>1, <3>3
  <2>5. ASSUME d \notin E
        PROVE  OpenAfter(s, b)
    <3>1. /\ d + 1 \in Nat /\ d < d + 1
          /\ \A e \in E : e >= d => e >= d + 1
          /\ \A e \in E : e < d \/ e >= d + 1
          /\ \A x \in S : x < d => x < d + 1
      BY <2>1, <2>5
    <3>2. OpenBefore(S, E, b.open, d + 1)
      <4>1. CASE d \in S
        BY <3>1, <4>1 DEF OpenBefore
      <4>2. CASE OpenBefore(S, E, b.open, d)
        <5>1. CASE b.open /\ \A e \in E : e >= d
          BY <3>1, <5>1 DEF OpenBefore
        <5>2. ASSUME NEW x \in S, x < d, \A e \in E : e < x \/ e >= d
              PROVE  OpenBefore(S, E, b.open, d + 1)
          BY <3>1, <5>2 DEF OpenBefore
        <5> QED BY <4>2, <5>1, <5>2 DEF OpenBefore
      <4> QED BY <2>1, <2>3, <4>1, <4>2
    <3>3. CASE d = Half - 1
      <4>1. d + 1 = Half
        BY <2>1, <3>3
      <4> QED BY <2>2, <3>2, <4>1
    <3>4. CASE d # Half - 1
      <4>1. d + 1 \in 0 .. Half - 1 /\ ~(d + 1 <= d)
        BY <2>1, <3>4
      <4>2. d + 1 \in Carried(s, b)
        BY <2>3, <3>2, <4>1
      <4> QED BY <4>1, <4>2
    <3> QED BY <3>3, <3>4
  <2>6. EndsOf(s, b) = E
    BY <1>3 DEF EndsOf, E
  <2> QED BY <2>4, <2>5, <2>6
<1> QED BY <1>2, <1>3

LEMMA LastToken ==
  ASSUME NEW s \in BOOLEAN, NEW b, Beat(s, b)
  PROVE  /\ \E W : Tokens(s, b) \in Seq(W)
         /\ Len(Tokens(s, b)) \in 1 .. Half
         /\ Tokens(s, b)[Len(Tokens(s, b))].eop = ~OpenAfter(s, b)
<1> DEFINE D == Carried(s, b)
           o == InOrder(D)
           n == Cardinality(D)
           t == Tokens(s, b)
<1>1. /\ D \in SUBSET (0 .. Half - 1) /\ D # {} /\ o \in Seq(D) /\ Len(o) = n
      /\ Enumerates(o, D) /\ Half \in Nat \ {0} /\ n \in Nat /\ n <= Half
  BY CarriedFinite, SomeDword, WidthAssumption
<1>2. t = [i \in 1 .. n |-> Token(s, b, o[i])]
  BY BeatTokens
<1>3. \A d \in D : (\A c \in D : c <= d)
                     => (d \in EndsOf(s, b)) = ~OpenAfter(s, b)
  <2> TAKE d \in D
  <2> HAVE \A c \in D : c <= d
  <2>1. d \in EndsOf(s, b) <=> ~OpenAfter(s, b)
    BY LastDword
  <2> QED BY <2>1
<1> HIDE DEF D, o, n, t
<1>4. /\ DOMAIN o = 1 .. n /\ \A i \in 1 .. n : o[i] \in D /\ o[i] \in Nat
      /\ \A i, j \in 1 .. n : i < j => o[i] < o[j]
      /\ \A d \in D : \E i \in 1 .. n : o[i] = d
  <2>1. DOMAIN o = 1 .. n /\ \A i \in 1 .. n : o[i] \in D
    BY <1>1
  <2>2. o \in Seq(Nat) /\ D = Marks(o)
        /\ \A i, j \in DOMAIN o : i < j => o[i] < o[j]
    BY <1>1 DEF Enumerates
  <2>3. \A i \in 1 .. n : o[i] \in Nat
    <3>1. D \in SUBSET Nat
      BY <1>1
    <3> QED BY <2>1, <3>1
  <2>4. \A d \in D : \E i \in 1 .. n : o[i] = d
    BY <2>1, <2>2 DEF Marks
  <2> QED BY <2>1, <2>2, <2>3, <2>4
<1>5. n \in 1 .. n
  <2>1. PICK i \in 1 .. n : TRUE
    BY <1>1, <1>4
  <2> QED BY <1>1, <2>1
<1>6. \A c \in D : c <= o[n]
  <2> SUFFICES ASSUME NEW i \in 1 .. n
               PROVE  o[i] <= o[n]
    BY <1>4
  <2>1. i = n \/ i < n
    BY <1>1
  <2> QED BY <1>4, <1>5, <2>1
<1>7. (o[n] \in EndsOf(s, b)) = ~OpenAfter(s, b)
  BY <1>3, <1>4, <1>5, <1>6
<1>8. /\ t \in Seq({t[i] : i \in 1 .. n}) /\ Len(t) = n
      /\ t[n] = Token(s, b, o[n])
  BY <1>1, <1>2, <1>5
<1>9. t[n].eop = ~OpenAfter(s, b)
  BY <1>7, <1>8 DEF Token
<1>10. n \in 1 .. Half
  BY <1>1, <1>5
<1> QED BY <1>8, <1>9, <1>10 DEF t

-----------------------------------------------------------------------------
(* The invariant.                                                          *)

CcTypes ==
  /\ straddle \in BOOLEAN
  /\ cc_hold_valid_reg \in BOOLEAN /\ cc_open_reg \in BOOLEAN
  /\ m_axis_cc_tready \in BOOLEAN /\ bus_open \in BOOLEAN
  /\ core_open \in BOOLEAN /\ flagged \in BOOLEAN
  /\ cc_hold_reg.sop \in Seq(Nat) /\ cc_hold_reg.eop \in Seq(Nat)
  /\ Marks(cc_hold_reg.sop) \subseteq 0 .. Half \div SopDw - 1
  /\ Marks(cc_hold_reg.eop) \subseteq 0 .. Half - 1
  /\ cc_hold_reg.keep \in 0 .. Half

\* The shim and the gearbox agree on whether a packet is open.
BusAgrees ==
  /\ cc_open_reg = core_open
  /\ s_axis_cc_tvalid =>
       /\ Beat(straddle, s_axis_cc)
       /\ s_axis_cc.open <=> cc_open_in
       /\ bus_open <=> OpenAfter(straddle, s_axis_cc)
  /\ ~s_axis_cc_tvalid => (bus_open <=> cc_open_in)

Offering ==
  IF s_axis_cc_tvalid THEN Tokens(straddle, s_axis_cc) ELSE <<>>

\* The held registers stand for beat h of the shim.
HeldAs(h) ==
  /\ Beat(straddle, h) /\ h.open = core_open /\ OpenAfter(straddle, h)
  /\ cc_hold_reg.keep = h.keep /\ cc_hold_reg.tag = h.tag
  /\ Marks(cc_hold_reg.eop) = EndsOf(straddle, h)
  /\ flagged \/ {p * SopDw : p \in Marks(cc_hold_reg.sop)}
                  = StartsOf(straddle, h)
  /\ owed = Tokens(straddle, h) \o Offering

OwedIsHeld ==
  /\ cc_hold_valid_reg => \E h : HeldAs(h)
  /\ ~cc_hold_valid_reg => owed = Offering /\ ~flagged

Inv == CcTypes /\ BusAgrees /\ OwedIsHeld

-----------------------------------------------------------------------------
(* The map of the beat on offer.                                           *)

\* What the registers keep of it stays on the core's grid.
LEMMA MapOnGrid ==
  ASSUME Inv, s_axis_cc_tvalid
  PROVE  /\ cc_map.sop \in Seq(Nat) /\ cc_map.eop \in Seq(Nat)
         /\ Marks(cc_map.sop) \subseteq 0 .. Half \div SopDw - 1
         /\ Marks(cc_map.eop) = EndsOf(straddle, s_axis_cc)
         /\ ~cc_map_align_err =>
              {p * SopDw : p \in Marks(cc_map.sop)}
                = StartsOf(straddle, s_axis_cc)
<1> DEFINE b == s_axis_cc
           S == b.starts
<1>1. /\ straddle \in BOOLEAN /\ Beat(straddle, b) /\ (b.open <=> cc_open_in)
  BY DEF Inv, CcTypes, BusAgrees
<1>2. /\ b.keep \in 1 .. Half /\ Half \in Nat
      /\ S \in Seq(Nat) /\ b.ends \in Seq(Nat)
      /\ \A x \in Marks(S) : x \in 0 .. Half - 1
  BY <1>1, BeatTypes
<1>3. CASE straddle
  <2> DEFINE q == [i \in DOMAIN S |-> S[i] \div SopDw]
  <2>1. cc_map.sop = q /\ cc_map.eop = b.ends
    BY <1>3 DEF cc_map
  <2>2. \A i \in DOMAIN S :
          /\ S[i] \div SopDw \in 0 .. Half \div SopDw - 1
          /\ S[i] % SopDw = 0 => (S[i] \div SopDw) * SopDw = S[i]
    BY <1>2, OnGrid DEF Marks
  <2>3. \A i \in DOMAIN S : S[i] \div SopDw \in Nat
    BY <2>2
  <2>4. q \in Seq(Nat)
    <3>1. DOMAIN S = 1 .. Len(S) /\ Len(S) \in Nat
      BY <1>2
    <3> QED BY <2>3, <3>1
  <2>5. Marks(q) \subseteq 0 .. Half \div SopDw - 1
    BY <2>2 DEF Marks
  <2>6. ASSUME ~cc_map_align_err
        PROVE  {p * SopDw : p \in Marks(q)} = Marks(S)
    <3>1. \A i \in DOMAIN S : S[i] % SopDw = 0
      BY <1>3, <2>6 DEF cc_map_align_err, Marks
    <3>2. \A i \in DOMAIN S : q[i] * SopDw = S[i]
      BY <2>2, <3>1
    <3>3. DOMAIN q = DOMAIN S
      OBVIOUS
    <3> HIDE DEF q
    <3> QED BY <3>2, <3>3 DEF Marks
  <2> HIDE DEF q
  <2>7. StartsOf(straddle, b) = Marks(S) /\ EndsOf(straddle, b) = Marks(b.ends)
    BY <1>3 DEF StartsOf, EndsOf
  <2> QED BY <1>2, <2>1, <2>4, <2>5, <2>6, <2>7
<1>4. CASE ~straddle
  <2>1. /\ cc_map.sop = IF cc_open_in THEN <<>> ELSE <<0>>
        /\ cc_map.eop = IF b.last THEN <<b.keep - 1>> ELSE <<>>
    BY <1>4 DEF cc_map
  <2>2. b.keep - 1 \in Nat
    BY <1>2
  <2>3. cc_map.sop \in Seq(Nat) /\ cc_map.eop \in Seq(Nat)
    BY <2>1, <2>2
  <2>4. \A x : Marks(<<x>>) = {x}
    BY DEF Marks
  <2>5. Marks(<<>>) = {}
    BY DEF Marks
  <2>6. /\ Marks(cc_map.sop) = StartsOf(straddle, b)
        /\ Marks(cc_map.eop) = EndsOf(straddle, b)
    BY <1>1, <1>4, <2>1, <2>4, <2>5 DEF StartsOf, EndsOf
  <2>7. 0 \in 0 .. Half \div SopDw - 1 /\ 0 * SopDw = 0
    <3>1. 0 \in 0 .. Half - 1 /\ 0 \div SopDw = 0
      BY WidthAssumption
    <3>2. 0 \div SopDw \in 0 .. Half \div SopDw - 1
      BY <3>1, OnGrid
    <3> QED BY <3>1, <3>2, WidthAssumption
  <2>8. \A x \in Marks(cc_map.sop) : x = 0
    BY <1>4, <2>6 DEF StartsOf
  <2>9. Marks(cc_map.sop) \subseteq 0 .. Half \div SopDw - 1
    BY <2>7, <2>8
  <2>10. {p * SopDw : p \in Marks(cc_map.sop)} = Marks(cc_map.sop)
    BY <2>7, <2>8
  <2> QED BY <2>3, <2>6, <2>9, <2>10
<1> QED BY <1>3, <1>4

\* The gearbox knows whether the beat leaves a packet open.
LEMMA MapKnowsTheEnd ==
  ASSUME Inv, s_axis_cc_tvalid
  PROVE  cc_map_open_after <=> OpenAfter(straddle, s_axis_cc)
<1>1. /\ straddle \in BOOLEAN /\ Beat(straddle, s_axis_cc)
      /\ s_axis_cc.open <=> cc_open_in
  BY DEF Inv, CcTypes, BusAgrees
<1>2. CASE straddle
  <2>1. Half \in Nat /\ Half >= Half /\ straddle = TRUE
    BY <1>1, <1>2, WidthAssumption
  <2>2. OpenBefore(Marks(s_axis_cc.starts), Marks(s_axis_cc.ends),
                   s_axis_cc.open, Half)
          <=> OpenAfter(TRUE, s_axis_cc)
    BY <1>1, <2>1, WalkEnd
  <2> QED BY <1>1, <1>2, <2>1, <2>2 DEF cc_map_open_after, OpenBefore
<1>3. CASE ~straddle
  BY <1>3 DEF cc_map_open_after, OpenAfter
<1> QED BY <1>1, <1>2, <1>3

-----------------------------------------------------------------------------
(* What the core reads is all that is owed.                                *)

\* The marks of the merged beat, on the dwords of the core.
LEMMA OutMarks ==
  ASSUME Inv, m_axis_cc_tvalid, cc_hold_valid_reg,
         ~flagged, ~cc_map_align_err, NEW h, HeldAs(h)
  PROVE  /\ {p * SopDw : p \in Marks(cc_out_sop)}
              = StartsJoined(straddle, h, s_axis_cc)
         /\ Marks(cc_out_eop) = EndsJoined(straddle, h, s_axis_cc)
<1> DEFINE q == Half \div SopDw
           hs == cc_hold_reg.sop
           he == cc_hold_reg.eop
           ms == cc_map.sop
           me == cc_map.eop
           us == [i \in DOMAIN ms |-> ms[i] + q]
           ue == [i \in DOMAIN me |-> me[i] + Half]
<1>1. /\ hs \in Seq(Nat) /\ he \in Seq(Nat) /\ ms \in Seq(Nat)
      /\ me \in Seq(Nat)
      /\ {p * SopDw : p \in Marks(hs)} = StartsOf(straddle, h)
      /\ Marks(he) = EndsOf(straddle, h)
      /\ {p * SopDw : p \in Marks(ms)} = StartsOf(straddle, s_axis_cc)
      /\ Marks(me) = EndsOf(straddle, s_axis_cc)
  BY MapOnGrid DEF Inv, CcTypes, HeldAs, m_axis_cc_tvalid
<1>2. /\ Half \in Nat /\ q \in Nat
      /\ \A p \in Nat : (p + q) * SopDw = p * SopDw + Half
  <2>1. \A p \in Nat : (p + q) * SopDw = p * SopDw + Half
    BY OnGridAbove
  <2>2. Half \in Nat /\ SopDw \in Nat \ {0}
    BY WidthAssumption
  <2> QED BY <2>1, <2>2, Quotient
<1>3. cc_out_sop = hs \o us /\ cc_out_eop = he \o ue
  BY DEF cc_out_sop, cc_out_eop
<1> HIDE DEF q, hs, he, ms, me
<1>4. /\ us \in Seq(Nat) /\ Marks(us) = {x + q : x \in Marks(ms)}
      /\ ue \in Seq(Nat) /\ Marks(ue) = {x + Half : x \in Marks(me)}
  BY <1>1, <1>2, MarksMoved
<1> HIDE DEF us, ue
<1>5. /\ Marks(cc_out_sop) = Marks(hs) \cup {x + q : x \in Marks(ms)}
      /\ Marks(cc_out_eop) = Marks(he) \cup {x + Half : x \in Marks(me)}
  BY <1>1, <1>3, <1>4, MarksOfTwo
<1>6. \A p \in Marks(ms) : p \in Nat
  BY <1>1 DEF Marks
<1>7. {p * SopDw : p \in {x + q : x \in Marks(ms)}}
        = {x + Half : x \in {p * SopDw : p \in Marks(ms)}}
  BY <1>2, <1>6
<1>8. {p * SopDw : p \in Marks(hs) \cup {x + q : x \in Marks(ms)}}
        = {p * SopDw : p \in Marks(hs)}
            \cup {p * SopDw : p \in {x + q : x \in Marks(ms)}}
  OBVIOUS
<1> QED BY <1>1, <1>5, <1>7, <1>8 DEF StartsJoined, EndsJoined, Above

\* What Shown is, in terms of the marks and dwords the core is given.
LEMMA ShownIsRead ==
  ASSUME NEW t, NEW D, NEW S, NEW E,
         S = {p * SopDw : p \in Marks(cc_out_sop)}, E = Marks(cc_out_eop),
         D = IF straddle
               THEN {d \in 0 .. 2 * Half - 1 : Carries(S, E, core_open, d)}
               ELSE OutKeep,
         \A d : OutTag(d) = IF d < Half THEN t ELSE s_axis_cc.tag
  PROVE  Shown = ReadAll(t, s_axis_cc.tag, S, E, D)
<1> DEFINE o == InOrder(D)
<1>1. Shown = [i \in DOMAIN o |->
                [tag |-> OutTag(o[i]), dw |-> o[i] % Half,
                 sop |-> o[i] \in S, eop |-> o[i] \in E]]
  BY DEF Shown
<1> HIDE DEF o
<1>2. \A d : [tag |-> OutTag(d), dw |-> d % Half,
              sop |-> d \in S, eop |-> d \in E]
               = Read(t, s_axis_cc.tag, S, E, d)
  BY DEF Read
<1> QED BY <1>1, <1>2 DEF ReadAll, o

LEMMA ReadsBoth ==
  ASSUME Inv, m_axis_cc_tvalid, cc_hold_valid_reg,
         ~flagged, ~cc_map_align_err
  PROVE  Shown = owed
<1> DEFINE b == s_axis_cc
           s == straddle
<1>1. PICK h : HeldAs(h)
  BY DEF Inv, OwedIsHeld
<1>2. /\ s \in BOOLEAN /\ Beat(s, b) /\ b.open
      /\ Beat(s, h) /\ h.open = core_open /\ OpenAfter(s, h)
      /\ cc_hold_reg.keep = h.keep /\ cc_hold_reg.tag = h.tag
      /\ owed = Tokens(s, h) \o Tokens(s, b)
  BY <1>1 DEF Inv, CcTypes, BusAgrees, cc_open_in, m_axis_cc_tvalid, HeldAs,
       Offering
<1> DEFINE S == StartsJoined(s, h, b)
           E == EndsJoined(s, h, b)
           D == Carried(s, h) \cup Above(Carried(s, b))
<1>3. /\ S = {p * SopDw : p \in Marks(cc_out_sop)}
      /\ E = Marks(cc_out_eop)
  BY <1>1, OutMarks
<1>4. D = IF s THEN {d \in 0 .. 2 * Half - 1 : Carries(S, E, core_open, d)}
               ELSE OutKeep
  <2>1. CASE s
    <3>1. s = TRUE
      BY <1>2, <2>1
    <3> QED BY <1>2, <3>1, CarriedJoined
  <2>2. CASE ~s
    BY <1>2, <2>2 DEF Carried, OutKeep, Above
  <2> QED BY <2>1, <2>2
<1>5. \A d : OutTag(d) = IF d < Half THEN h.tag ELSE b.tag
  BY <1>2 DEF OutTag
<1>6. ReadAll(h.tag, b.tag, S, E, D) = owed
  BY <1>2, ReadJoined
<1> HIDE DEF S, E, D
<1> QED BY <1>3, <1>4, <1>5, <1>6, ShownIsRead

LEMMA ReadsOne ==
  ASSUME Inv, m_axis_cc_tvalid, ~cc_hold_valid_reg, ~cc_map_align_err
  PROVE  Shown = owed
<1> DEFINE b == s_axis_cc
           s == straddle
           S == StartsOf(s, b)
           E == EndsOf(s, b)
           D == Carried(s, b)
<1>1. /\ s \in BOOLEAN /\ Beat(s, b) /\ b.open = core_open
      /\ owed = Tokens(s, b) /\ s_axis_cc_tvalid /\ ~OpenAfter(s, b)
  <2>1. s_axis_cc_tvalid /\ ~OpenAfter(s, b)
    BY MapKnowsTheEnd DEF m_axis_cc_tvalid, cc_single_ok
  <2>2. b.open \in BOOLEAN /\ core_open \in BOOLEAN /\ (b.open <=> core_open)
    BY <2>1 DEF Inv, CcTypes, BusAgrees, Beat, cc_open_in
  <2> QED BY <2>1, <2>2 DEF Inv, CcTypes, BusAgrees, OwedIsHeld, Offering
<1>2. /\ S = {p * SopDw : p \in Marks(cc_out_sop)}
      /\ E = Marks(cc_out_eop)
  BY <1>1, MapOnGrid DEF cc_out_sop, cc_out_eop
<1>3. D = IF s THEN {d \in 0 .. 2 * Half - 1 : Carries(S, E, core_open, d)}
               ELSE OutKeep
  <2>1. CASE s
    <3>1. s = TRUE /\ Half \in Nat
      BY <1>1, <2>1, WidthAssumption
    <3>2. S = Marks(b.starts) /\ E = Marks(b.ends)
      BY <2>1 DEF StartsOf, EndsOf
    <3>3. \A d \in 0 .. 2 * Half - 1 :
            d \in 0 .. Half - 1 \/ ~Carries(S, E, core_open, d)
      <4> SUFFICES ASSUME NEW d \in 0 .. 2 * Half - 1, d \notin 0 .. Half - 1
                   PROVE  ~Carries(S, E, core_open, d)
        OBVIOUS
      <4>1. d \in Nat /\ d >= Half
        BY <3>1
      <4> QED BY <1>1, <3>1, <3>2, <4>1, WalkEnd
    <3>4. \A d \in 0 .. Half - 1 : d \in 0 .. 2 * Half - 1
      BY <3>1
    <3> QED BY <1>1, <2>1, <3>3, <3>4 DEF Carried
  <2>2. CASE ~s
    BY <2>2 DEF Carried, OutKeep
  <2> QED BY <2>1, <2>2
<1>4. \A d : OutTag(d) = IF d < Half THEN b.tag ELSE b.tag
  BY DEF OutTag
<1>5. ReadAll(b.tag, b.tag, S, E, D) = owed
  BY <1>1, ReadAlone
<1> HIDE DEF S, E, D
<1> QED BY <1>2, <1>3, <1>4, <1>5, ShownIsRead

LEMMA AllRead ==
  ASSUME Inv, m_axis_cc_tvalid
  PROVE  ShownOrExcused = owed
<1>1. s_axis_cc_tvalid
  BY DEF m_axis_cc_tvalid
<1>2. CASE flagged \/ cc_map_align_err
  BY <1>1, <1>2 DEF ShownOrExcused, status_error_cc_sop_align
<1>3. CASE ~flagged /\ ~cc_map_align_err
  <2>1. Shown = owed
    BY <1>3, ReadsBoth, ReadsOne
  <2> QED BY <1>3, <2>1 DEF ShownOrExcused, status_error_cc_sop_align
<1> QED BY <1>2, <1>3

-----------------------------------------------------------------------------
(* Every step keeps the invariant.                                         *)

LEMMA InitInv == CcInit => Inv
<1> SUFFICES ASSUME CcInit
             PROVE  Inv
  OBVIOUS
<1>1. ~s_axis_cc_tvalid
  BY DEF CcInit, s_axis_cc_tvalid
<1>2. cc_hold_reg.sop = <<>> /\ cc_hold_reg.eop = <<>> /\ cc_hold_reg.keep = 0
  BY DEF CcInit
<1>3. Marks(<<>>) = {} /\ <<>> \in Seq(Nat) /\ 0 \in 0 .. Half
  BY WidthAssumption DEF Marks
<1>4. CcTypes
  BY <1>2, <1>3 DEF CcInit, CcTypes
<1> QED BY <1>1, <1>4 DEF CcInit, Inv, BusAgrees, OwedIsHeld, Offering,
           cc_open_in

\* The shim's next offer, whatever is left of what it offered before.
LEMMA NextOffer ==
  ASSUME Inv, straddle' = straddle, NEW STATE left, \E W : left \in Seq(W),
         OfferNothing(left) \/ OfferBeat(left)
  PROVE  /\ s_axis_cc_tvalid' =>
              /\ Beat(straddle, s_axis_cc)'
              /\ s_axis_cc.open' = bus_open
              /\ bus_open' = OpenAfter(straddle, s_axis_cc)'
         /\ ~s_axis_cc_tvalid' => bus_open' = bus_open
         /\ bus_open' \in BOOLEAN
         /\ owed' = left \o Offering'
<1>1. CASE OfferNothing(left)
  <2>1. ~s_axis_cc_tvalid' /\ owed' = left /\ bus_open' = bus_open
    BY <1>1 DEF OfferNothing, s_axis_cc_tvalid
  <2>2. left \o <<>> = left
    BY EmptyRight
  <2> QED BY <2>1, <2>2 DEF Offering, Inv, CcTypes
<1>2. CASE OfferBeat(left)
  <2>1. PICK b \in BusBeats(straddle) :
          /\ b.open = bus_open
          /\ s_axis_cc' = [b EXCEPT !.tag = bus_tag]
          /\ owed' = left \o Tokens(straddle, [b EXCEPT !.tag = bus_tag])
          /\ bus_open' = OpenAfter(straddle, b)
    BY <1>2 DEF OfferBeat
  <2>2. straddle \in BOOLEAN
    BY DEF Inv, CcTypes
  <2>3. /\ b = [open |-> b.open, starts |-> b.starts, ends |-> b.ends,
                keep |-> b.keep, last |-> b.last, tag |-> 0]
        /\ b.open \in BOOLEAN /\ LegalBeat(straddle, b)
    BY <2>2, TrafficAssumption
  <2> DEFINE c == [b EXCEPT !.tag = bus_tag]
  <2>4. /\ c = [open |-> b.open, starts |-> b.starts, ends |-> b.ends,
                keep |-> b.keep, last |-> b.last, tag |-> bus_tag]
        /\ c.open = b.open /\ c.starts = b.starts /\ c.ends = b.ends
        /\ c.keep = b.keep /\ c.last = b.last /\ c.tag = bus_tag
    BY <2>3
  <2> HIDE DEF c
  <2>5. Beat(straddle, c)
    BY <2>3, <2>4 DEF Beat, LegalBeat
  <2>6. OpenAfter(straddle, c) = OpenAfter(straddle, b)
    BY <2>4 DEF OpenAfter
  <2>7. c # NoBeat
    <3>1. c.keep # 0
      BY <2>3, <2>4 DEF LegalBeat
    <3> QED BY <3>1 DEF NoBeat
  <2>8. s_axis_cc' = c /\ owed' = left \o Tokens(straddle, c)
    BY <2>1 DEF c
  <2>9. s_axis_cc_tvalid'
    BY <2>7, <2>8 DEF s_axis_cc_tvalid
  <2>10. Beat(straddle, s_axis_cc)'
           /\ OpenAfter(straddle, s_axis_cc)' = OpenAfter(straddle, b)
    BY <2>5, <2>6, <2>8 DEF Beat, LegalBeat, OpenAfter
  <2>11. Offering' = Tokens(straddle, c)
    BY <2>8, <2>9 DEF Offering
  <2>12. OpenAfter(straddle, b) \in BOOLEAN
    BY <2>2, <2>5, <2>6, OpenAfterBoolean
  <2> QED BY <2>1, <2>4, <2>8, <2>9, <2>10, <2>11, <2>12
<1> QED BY <1>1, <1>2

\* A handover settles all that is owed.
LEMMA HandedOver ==
  ASSUME Inv, Handover, Account
  PROVE  /\ SubSeq(owed, Len(ShownOrExcused) + 1, Len(owed)) = <<>>
         /\ core_open' = OpenAfter(straddle, s_axis_cc)
         /\ s_axis_cc_tvalid
<1>1. s_axis_cc_tvalid /\ m_axis_cc_tvalid
  BY DEF Handover, m_axis_cc_tvalid
<1>2. /\ straddle \in BOOLEAN /\ Beat(straddle, s_axis_cc)
      /\ Offering = Tokens(straddle, s_axis_cc)
  BY <1>1 DEF Inv, CcTypes, BusAgrees, Offering
<1> DEFINE v == Tokens(straddle, s_axis_cc)
           m == Len(v)
<1>3. /\ \E W : v \in Seq(W)
      /\ m \in 1 .. Half /\ m \in Nat /\ m >= 1
      /\ v[m].eop = ~OpenAfter(straddle, s_axis_cc)
  <2>1. m \in 1 .. Half /\ Half \in Nat
    BY <1>2, LastToken, WidthAssumption
  <2> QED BY <1>2, <2>1, LastToken
<1> HIDE DEF v, m
<1>4. Len(owed) \in Nat /\ owed[Len(owed)] = v[m]
  <2>1. CASE ~cc_hold_valid_reg
    BY <1>2, <1>3, <2>1 DEF Inv, OwedIsHeld, v, m
  <2>2. CASE cc_hold_valid_reg
    <3>1. PICK h : HeldAs(h)
      BY <2>2 DEF Inv, OwedIsHeld
    <3> DEFINE u == Tokens(straddle, h)
    <3>2. owed = u \o v /\ \E W : u \in Seq(W)
      <4>1. Beat(straddle, h)
        BY <3>1 DEF HeldAs
      <4>2. \E W : Tokens(straddle, h) \in Seq(W)
        BY <1>2, <4>1, LastToken
      <4> QED BY <1>2, <3>1, <4>2 DEF HeldAs, v
    <3> HIDE DEF u
    <3>3. PICK W : u \in Seq(W)
      BY <3>2
    <3>4. PICK V : v \in Seq(V)
      BY <1>3
    <3>5. u \in Seq(W \cup V) /\ v \in Seq(W \cup V)
      <4>1. W \subseteq W \cup V /\ V \subseteq W \cup V
        OBVIOUS
      <4> QED BY ONLY <3>3, <3>4, <4>1, SeqOfMore
    <3> DEFINE n == Len(u)
    <3>6. n \in Nat /\ m = Len(v)
      BY <3>3 DEF m
    <3> HIDE DEF n
    <3>7. /\ Len(u \o v) = n + m
          /\ \A i \in 1 .. m : (u \o v)[n + i] = v[i]
      <4>1. n = Len(u)
        BY DEF n
      <4> QED BY ONLY <3>5, <3>6, <4>1, TwoLists
    <3>8. m \in 1 .. m /\ n + m \in Nat
      BY <1>3, <3>6
    <3> QED BY <3>2, <3>7, <3>8
  <2> QED BY <2>1, <2>2 DEF Inv, CcTypes
<1>5. SubSeq(owed, Len(ShownOrExcused) + 1, Len(owed)) = <<>>
  <2>1. ShownOrExcused = owed
    BY <1>1, AllRead
  <2> DEFINE k == Len(owed)
  <2>2. k \in Nat /\ Len(ShownOrExcused) = k
    BY <1>4, <2>1
  <2> HIDE DEF k
  <2>3. SubSeq(owed, k + 1, k) = <<>>
    BY <2>2, SubSeqEmpty
  <2> QED BY <2>2, <2>3 DEF k
<1>6. core_open' = ~owed[Len(owed)].eop
  BY DEF Account
<1>7. (~(~OpenAfter(straddle, s_axis_cc))) = OpenAfter(straddle, s_axis_cc)
  BY <1>2, OpenAfterBoolean
<1> QED BY <1>1, <1>3, <1>4, <1>5, <1>6, <1>7

LEMMA OwedIsList ==
  ASSUME Inv
  PROVE  /\ \E W : owed \in Seq(W)
         /\ \E W : Offering \in Seq(W)
         /\ Len(Offering) \in Nat /\ Len(Offering) <= Half
         /\ Len(owed) \in Nat /\ Len(owed) <= 2 * Half
<1>1. straddle \in BOOLEAN /\ Half \in Nat
  BY WidthAssumption DEF Inv, CcTypes
<1>2. /\ \E W : Offering \in Seq(W)
      /\ Len(Offering) \in Nat /\ Len(Offering) <= Half
  <2>1. CASE s_axis_cc_tvalid
    <3>1. Beat(straddle, s_axis_cc) /\ Offering = Tokens(straddle, s_axis_cc)
      BY <2>1 DEF Inv, BusAgrees, Offering
    <3> QED BY <1>1, <3>1, LastToken
  <2>2. CASE ~s_axis_cc_tvalid
    <3>1. Offering = <<>> /\ <<>> \in Seq({}) /\ Len(<<>>) = 0
      BY <2>2 DEF Offering
    <3> QED BY <1>1, <3>1
  <2> QED BY <2>1, <2>2
<1>3. CASE ~cc_hold_valid_reg
  <2>1. owed = Offering
    BY <1>3 DEF Inv, OwedIsHeld
  <2> QED BY <1>1, <1>2, <2>1
<1>4. CASE cc_hold_valid_reg
  <2>1. PICK h : HeldAs(h)
    BY <1>4 DEF Inv, OwedIsHeld
  <2> DEFINE u == Tokens(straddle, h)
             n == Len(u)
             m == Len(Offering)
  <2>2. owed = u \o Offering /\ (\E W : u \in Seq(W)) /\ n \in 1 .. Half
    BY <1>1, <2>1, LastToken DEF HeldAs
  <2> HIDE DEF u
  <2>3. PICK W : u \in Seq(W)
    BY <2>2
  <2>4. PICK V : Offering \in Seq(V)
    BY <1>2
  <2>5. u \in Seq(W \cup V) /\ Offering \in Seq(W \cup V)
    <3>1. W \subseteq W \cup V /\ V \subseteq W \cup V
      OBVIOUS
    <3> QED BY ONLY <2>3, <2>4, <3>1, SeqOfMore
  <2>6. Len(u \o Offering) = n + m /\ u \o Offering \in Seq(W \cup V)
    BY <2>5, TwoLists
  <2>7. m \in Nat /\ m <= Half /\ n \in Nat /\ n <= Half
    BY <1>1, <1>2, <2>2
  <2> HIDE DEF n, m
  <2>8. n + m \in Nat /\ n + m <= 2 * Half
    BY <1>1, <2>7
  <2> QED BY <1>2, <2>2, <2>6, <2>8
<1> QED BY <1>3, <1>4

\* An edge on which everything owed goes out.
LEMMA HandoverKeepsInv ==
  ASSUME Inv, NEW CONSTANT tready \in BOOLEAN, Edge(tready), Handover
  PROVE  Inv'
<1>1. /\ s_axis_cc_tvalid /\ m_axis_cc_tready
      /\ core_open' = OpenAfter(straddle, s_axis_cc)
      /\ SubSeq(owed, Len(ShownOrExcused) + 1, Len(owed)) = <<>>
      /\ straddle' = straddle /\ m_axis_cc_tready' = tready
  BY HandedOver DEF Edge, Handover, m_axis_cc_tvalid
<1>2. s_axis_cc_tready
  BY <1>1 DEF s_axis_cc_tready
<1>3. OfferNothing(<<>>) \/ OfferBeat(<<>>)
  BY <1>1, <1>2 DEF Edge, OfferStays
<1>4. <<>> \in Seq({}) /\ \E W : <<>> \in Seq(W)
  OBVIOUS
<1>5. /\ s_axis_cc_tvalid' =>
           /\ Beat(straddle, s_axis_cc)'
           /\ s_axis_cc.open' = bus_open
           /\ bus_open' = OpenAfter(straddle, s_axis_cc)'
      /\ ~s_axis_cc_tvalid' => bus_open' = bus_open
      /\ bus_open' \in BOOLEAN
      /\ owed' = <<>> \o Offering'
  BY <1>1, <1>3, <1>4, NextOffer
<1>6. /\ straddle \in BOOLEAN /\ Beat(straddle, s_axis_cc)
      /\ bus_open <=> OpenAfter(straddle, s_axis_cc)
      /\ cc_map_open_after <=> OpenAfter(straddle, s_axis_cc)
      /\ OpenAfter(straddle, s_axis_cc) \in BOOLEAN
  BY <1>1, MapKnowsTheEnd, OpenAfterBoolean DEF Inv, CcTypes, BusAgrees
<1>7. /\ cc_hold_valid_reg' = FALSE /\ cc_hold_reg' = cc_hold_reg
      /\ cc_open_reg' = cc_map_open_after
  <2>1. m_axis_cc_tvalid
    BY DEF Handover
  <2>2. CASE cc_hold_valid_reg
    BY <2>2 DEF Edge, Registers, MergeOut, SingleOut, Hold, NothingOffered
  <2>3. CASE ~cc_hold_valid_reg
    BY <1>1, <2>1, <2>3 DEF Edge, Registers, MergeOut, SingleOut, Hold,
       NothingOffered, m_axis_cc_tvalid, Inv, CcTypes
  <2> QED BY <2>2, <2>3
<1>8. cc_open_reg' = OpenAfter(straddle, s_axis_cc)
  <2>1. cc_map_open_after \in BOOLEAN
    BY <1>6, <1>7 DEF cc_map_open_after, OpenBefore
  <2> QED BY <1>6, <1>7, <2>1
<1>9. flagged' = FALSE
  BY <1>7 DEF Edge, Account
<1>10. CcTypes'
  BY <1>1, <1>5, <1>6, <1>7, <1>8, <1>9 DEF Inv, CcTypes
<1>11. BusAgrees'
  BY <1>1, <1>5, <1>6, <1>7, <1>8 DEF BusAgrees, cc_open_in
<1>12. owed' = Offering'
  <2>1. \E W : Offering' \in Seq(W)
    <3>1. CASE s_axis_cc_tvalid'
      <4>1. straddle' \in BOOLEAN /\ Beat(straddle', s_axis_cc')
              /\ Offering' = Tokens(straddle', s_axis_cc')
        BY <1>1, <1>5, <1>6, <3>1 DEF Offering
      <4> QED BY <4>1, LastToken
    <3>2. CASE ~s_axis_cc_tvalid'
      <4>1. Offering' = <<>>
        BY <3>2 DEF Offering
      <4> QED BY <1>4, <4>1
    <3> QED BY <3>1, <3>2
  <2> QED BY <1>5, <2>1, EmptyRight
<1>13. OwedIsHeld'
  BY <1>7, <1>9, <1>12 DEF OwedIsHeld
<1> QED BY <1>10, <1>11, <1>13 DEF Inv

\* An edge on which a beat is taken to be held.
LEMMA HoldKeepsInv ==
  ASSUME Inv, NEW CONSTANT tready \in BOOLEAN, Edge(tready), Hold
  PROVE  Inv'
<1>1. /\ ~cc_hold_valid_reg /\ s_axis_cc_tvalid /\ ~cc_single_ok
      /\ ~Handover /\ s_axis_cc_tready
      /\ straddle' = straddle /\ m_axis_cc_tready' = tready
      /\ cc_hold_valid_reg' = TRUE /\ cc_open_reg' = cc_open_reg
      /\ core_open' = core_open
  BY DEF Hold, Edge, Account, Handover, m_axis_cc_tvalid, s_axis_cc_tready
<1>2. /\ straddle \in BOOLEAN /\ Beat(straddle, s_axis_cc)
      /\ bus_open <=> OpenAfter(straddle, s_axis_cc)
      /\ cc_map_open_after <=> OpenAfter(straddle, s_axis_cc)
      /\ OpenAfter(straddle, s_axis_cc)
      /\ owed = Tokens(straddle, s_axis_cc) /\ ~flagged
  BY <1>1, MapKnowsTheEnd DEF Inv, CcTypes, BusAgrees, OwedIsHeld, Offering,
     cc_single_ok
<1>3. \E W : owed \in Seq(W)
  BY <1>2, LastToken
<1>4. OfferNothing(owed) \/ OfferBeat(owed)
  BY <1>1 DEF Edge, OfferStays
<1>5. /\ s_axis_cc_tvalid' =>
           /\ Beat(straddle, s_axis_cc)'
           /\ s_axis_cc.open' = bus_open
           /\ bus_open' = OpenAfter(straddle, s_axis_cc)'
      /\ ~s_axis_cc_tvalid' => bus_open' = bus_open
      /\ bus_open' \in BOOLEAN
      /\ owed' = owed \o Offering'
  BY <1>1, <1>3, <1>4, NextOffer
<1>6. /\ cc_hold_reg' = [sop |-> cc_map.sop, eop |-> cc_map.eop,
                         keep |-> s_axis_cc.keep, tag |-> s_axis_cc.tag]
      /\ flagged' <=> cc_map_align_err
      /\ flagged' \in BOOLEAN
  BY <1>1, <1>2 DEF Hold, Edge, Account, status_error_cc_sop_align,
     cc_map_align_err
<1>7. /\ cc_map.sop \in Seq(Nat) /\ cc_map.eop \in Seq(Nat)
      /\ Marks(cc_map.sop) \subseteq 0 .. Half \div SopDw - 1
      /\ Marks(cc_map.eop) = EndsOf(straddle, s_axis_cc)
      /\ ~cc_map_align_err =>
           {p * SopDw : p \in Marks(cc_map.sop)}
             = StartsOf(straddle, s_axis_cc)
  BY <1>1, MapOnGrid
<1>8. /\ Marks(cc_map.eop) \subseteq 0 .. Half - 1
      /\ s_axis_cc.keep \in 0 .. Half
  <2>1. Marks(cc_map.eop) \subseteq 0 .. Half - 1
    BY <1>2, <1>7, MarksInHalf
  <2>2. s_axis_cc.keep \in 1 .. Half /\ Half \in Nat
    BY <1>2, BeatTypes
  <2> QED BY <2>1, <2>2
<1>9. CcTypes'
  <2>1. /\ cc_hold_reg'.sop = cc_map.sop /\ cc_hold_reg'.eop = cc_map.eop
        /\ cc_hold_reg'.keep = s_axis_cc.keep
    BY <1>6
  <2> QED BY <1>1, <1>2, <1>5, <1>6, <1>7, <1>8, <2>1 DEF Inv, CcTypes
<1>10. BusAgrees'
  <2>1. bus_open = TRUE /\ cc_open_reg = core_open
    BY <1>2 DEF Inv, CcTypes, BusAgrees
  <2>2. cc_open_in'
    BY <1>1 DEF cc_open_in
  <2> QED BY <1>1, <1>5, <2>1, <2>2 DEF BusAgrees
<1>11. OwedIsHeld'
  <2>1. /\ Beat(straddle, s_axis_cc) /\ s_axis_cc.open = core_open
        /\ OpenAfter(straddle, s_axis_cc)
    <3>1. /\ s_axis_cc.open \in BOOLEAN /\ core_open \in BOOLEAN
          /\ s_axis_cc.open <=> core_open
      BY <1>1, <1>2 DEF Inv, CcTypes, BusAgrees, Beat, cc_open_in
    <3> QED BY <1>2, <3>1
  <2>2. /\ cc_hold_reg'.keep = s_axis_cc.keep
        /\ cc_hold_reg'.tag = s_axis_cc.tag
        /\ Marks(cc_hold_reg'.eop) = EndsOf(straddle, s_axis_cc)
        /\ flagged' \/ {p * SopDw : p \in Marks(cc_hold_reg'.sop)}
                         = StartsOf(straddle, s_axis_cc)
    BY <1>6, <1>7
  <2> DEFINE h == s_axis_cc
             H == /\ Beat(straddle', h) /\ h.open = core_open'
                  /\ OpenAfter(straddle', h)
                  /\ cc_hold_reg'.keep = h.keep /\ cc_hold_reg'.tag = h.tag
                  /\ Marks(cc_hold_reg'.eop) = EndsOf(straddle', h)
                  /\ flagged' \/ {p * SopDw : p \in Marks(cc_hold_reg'.sop)}
                                   = StartsOf(straddle', h)
                  /\ owed' = Tokens(straddle', h) \o Offering'
  <2>3. H
    BY <1>1, <1>2, <1>5, <2>1, <2>2
  <2>4. (\E x : HeldAs(x))'
    BY <2>3 DEF HeldAs
  <2> QED BY <1>1, <2>4 DEF OwedIsHeld
<1> QED BY <1>9, <1>10, <1>11 DEF Inv

\* An edge on which the gearbox keeps what it has, or has nothing.
LEMMA WaitKeepsInv ==
  ASSUME Inv, NEW CONSTANT tready \in BOOLEAN, Edge(tready),
         ~Handover, ~Hold
  PROVE  Inv'
<1>1. /\ UNCHANGED <<cc_hold_valid_reg, cc_hold_reg, cc_open_reg>>
      /\ straddle' = straddle /\ m_axis_cc_tready' = tready
      /\ core_open' = core_open
  <2>1. ASSUME SingleOut
        PROVE  UNCHANGED <<cc_hold_valid_reg, cc_hold_reg, cc_open_reg>>
    BY <2>1 DEF SingleOut, Handover, m_axis_cc_tvalid
  <2>2. UNCHANGED <<cc_hold_valid_reg, cc_hold_reg, cc_open_reg>>
    BY <2>1 DEF Edge, Registers, MergeOut, NothingOffered
  <2> QED BY <2>2 DEF Edge, Account
<1>2. s_axis_cc_tvalid => ~s_axis_cc_tready
  <2>1. SUFFICES ASSUME s_axis_cc_tvalid
                 PROVE  ~s_axis_cc_tready
    OBVIOUS
  <2>2. cc_hold_valid_reg \/ cc_single_ok
    BY <2>1 DEF Edge, Registers, MergeOut, SingleOut, NothingOffered
  <2> QED BY <2>1, <2>2 DEF s_axis_cc_tready, Handover, m_axis_cc_tvalid
<1>3. flagged' = flagged
  <2>1. ~cc_hold_valid_reg => ~flagged /\ flagged \in BOOLEAN
    BY DEF Inv, OwedIsHeld, CcTypes
  <2>2. flagged' = (cc_hold_valid_reg
                      /\ (flagged \/ (~cc_hold_valid_reg
                                        /\ status_error_cc_sop_align)))
    BY <1>1 DEF Edge, Account
  <2> QED BY <2>1, <2>2 DEF Inv, CcTypes
<1>4. CASE s_axis_cc_tvalid
  <2>1. UNCHANGED <<s_axis_cc, bus_open, bus_tag, owed>>
    BY <1>2, <1>4 DEF Edge, OfferStays, OfferNothing, OfferBeat
  <2>2. s_axis_cc_tvalid' = s_axis_cc_tvalid /\ Offering' = Offering
    BY <1>1, <2>1 DEF s_axis_cc_tvalid, Offering
  <2>3. CcTypes'
    BY <1>1, <1>3, <2>1 DEF Inv, CcTypes
  <2>4. BusAgrees'
    BY <1>1, <2>1, <2>2 DEF Inv, BusAgrees, cc_open_in
  <2>5. OwedIsHeld'
    BY <1>1, <1>3, <2>1, <2>2 DEF Inv, OwedIsHeld, HeldAs
  <2> QED BY <2>3, <2>4, <2>5 DEF Inv
<1>5. CASE ~s_axis_cc_tvalid
  <2>1. \E W : owed \in Seq(W)
    BY OwedIsList
  <2>2. OfferNothing(owed) \/ OfferBeat(owed)
    BY <1>5 DEF Edge, OfferStays, Handover, m_axis_cc_tvalid
  <2>3. /\ s_axis_cc_tvalid' =>
             /\ Beat(straddle, s_axis_cc)'
             /\ s_axis_cc.open' = bus_open
             /\ bus_open' = OpenAfter(straddle, s_axis_cc)'
        /\ ~s_axis_cc_tvalid' => bus_open' = bus_open
        /\ bus_open' \in BOOLEAN
        /\ owed' = owed \o Offering'
    BY <1>1, <2>1, <2>2, NextOffer
  <2>4. CcTypes'
    BY <1>1, <1>3, <2>3 DEF Inv, CcTypes
  <2>5. BusAgrees'
    BY <1>1, <1>5, <2>3 DEF Inv, BusAgrees, cc_open_in
  <2>6. OwedIsHeld'
    <3>1. CASE cc_hold_valid_reg
      <4>1. PICK h : HeldAs(h)
        BY <3>1 DEF Inv, OwedIsHeld
      <4>2. owed = Tokens(straddle, h) \o <<>> /\ Beat(straddle, h)
        BY <1>5, <4>1 DEF HeldAs, Offering
      <4>3. PICK W : Tokens(straddle, h) \in Seq(W)
        BY <4>2, LastToken DEF Inv, CcTypes
      <4>4. owed = Tokens(straddle, h)
        BY <4>2, <4>3, EmptyRight
      <4>5. /\ Beat(straddle', h) /\ h.open = core_open'
            /\ OpenAfter(straddle', h)
            /\ cc_hold_reg'.keep = h.keep /\ cc_hold_reg'.tag = h.tag
            /\ Marks(cc_hold_reg'.eop) = EndsOf(straddle', h)
            /\ flagged' \/ {p * SopDw : p \in Marks(cc_hold_reg'.sop)}
                             = StartsOf(straddle', h)
            /\ owed' = Tokens(straddle', h) \o Offering'
        BY <1>1, <1>3, <2>3, <4>1, <4>4 DEF HeldAs
      <4>6. (\E x : HeldAs(x))'
        BY <4>5 DEF HeldAs
      <4> QED BY <1>1, <3>1, <4>6 DEF OwedIsHeld
    <3>2. CASE ~cc_hold_valid_reg
      <4>1. owed = <<>> /\ ~flagged
        BY <1>5, <3>2 DEF Inv, OwedIsHeld, Offering
      <4>2. straddle' \in BOOLEAN
        BY <1>1 DEF Inv, CcTypes
      <4>3. \E W : Offering' \in Seq(W)
        <5>1. CASE s_axis_cc_tvalid'
          <6>1. Beat(straddle', s_axis_cc')
                  /\ Offering' = Tokens(straddle', s_axis_cc')
            BY <2>3, <5>1 DEF Offering
          <6> QED BY <4>2, <6>1, LastToken
        <5>2. CASE ~s_axis_cc_tvalid'
          <6>1. Offering' = <<>> /\ <<>> \in Seq({})
            BY <5>2 DEF Offering
          <6> QED BY <6>1
        <5> QED BY <5>1, <5>2
      <4>4. owed' = Offering'
        BY <2>3, <4>1, <4>3, EmptyRight
      <4> QED BY <1>1, <1>3, <3>2, <4>1, <4>4 DEF OwedIsHeld
    <3> QED BY <3>1, <3>2
  <2> QED BY <2>4, <2>5, <2>6 DEF Inv
<1> QED BY <1>4, <1>5

LEMMA ResetKeepsInv ==
  ASSUME Inv, NEW CONSTANT tready \in BOOLEAN, Reset(tready)
  PROVE  Inv'
<1>1. ~s_axis_cc_tvalid'
  BY DEF Reset, s_axis_cc_tvalid
<1>2. CcTypes'
  BY DEF Reset, Inv, CcTypes
<1> QED BY <1>1, <1>2 DEF Reset, Inv, BusAgrees, OwedIsHeld, Offering,
           cc_open_in

LEMMA StepInv == Inv /\ [CcNext]_ccVars => Inv'
<1> SUFFICES ASSUME Inv, [CcNext]_ccVars
             PROVE  Inv'
  OBVIOUS
<1>1. ASSUME NEW CONSTANT tready \in BOOLEAN, Edge(tready)
      PROVE  Inv'
  BY <1>1, HandoverKeepsInv, HoldKeepsInv, WaitKeepsInv
<1>2. ASSUME NEW CONSTANT tready \in BOOLEAN, Reset(tready)
      PROVE  Inv'
  BY <1>2, ResetKeepsInv
<1>3. CASE UNCHANGED ccVars
  <2>1. /\ CcTypes' = CcTypes /\ BusAgrees' = BusAgrees
        /\ OwedIsHeld' = OwedIsHeld
    BY <1>3 DEF ccVars, busVars, CcTypes, BusAgrees, OwedIsHeld, HeldAs,
       Offering, s_axis_cc_tvalid, cc_open_in
  <2> QED BY <2>1 DEF Inv
<1> QED BY <1>1, <1>2, <1>3 DEF CcNext

\* In every reachable state the gearbox, the shim and the core agree on what
\* is open, what is held and what is owed.
THEOREM InvHolds == CcSpec => []Inv
BY InitInv, StepInv, PTL DEF CcSpec

-----------------------------------------------------------------------------
(* Types, with at most one merged beat owed.                               *)

\* Registers hold what their widths can, and no more is ever owed to the
\* core than one of its beats carries.
THEOREM CcTypesHold == CcSpec => []CcTypeOK
<1>1. Inv => CcTypeOK
  BY OwedIsList DEF Inv, CcTypes, CcTypeOK
<1> QED BY <1>1, InvHolds, PTL

\* No completion waits for traffic that may never come: a beat is held only
\* while a packet is open behind it.
THEOREM HoldsOnlyMidPacket == CcSpec => []HoldsMidPacketOnly
<1>1. Inv => HoldsMidPacketOnly
  BY DEF Inv, BusAgrees, HoldsMidPacketOnly, cc_open_in
<1> QED BY <1>1, InvHolds, PTL

-----------------------------------------------------------------------------
(* The stream.                                                             *)

LEMMA StartsItself ==
  ASSUME NEW W, NEW q \in Seq(W)
  PROVE  Stream!Starts(q, q) /\ Stream!Starts(<<>>, q)
<1>1. Len(q) \in Nat /\ SubSeq(q, 1, Len(q)) = q
  BY WholeList
<1>2. Len(<<>>) = 0 /\ SubSeq(q, 1, 0) = <<>>
  BY SubSeqEmpty
<1> QED BY <1>1, <1>2 DEF Stream!Starts

LEMMA StartsLonger ==
  ASSUME NEW W, NEW q \in Seq(W), NEW r \in Seq(W)
  PROVE  Stream!Starts(q, q \o r)
<1>1. SubSeq(q \o r, 1, Len(q)) = q
  BY DropFirst
<1>2. Len(q) \in Nat /\ Len(r) \in Nat /\ Len(q \o r) = Len(q) + Len(r)
  BY ConcatProperties
<1> QED BY <1>1, <1>2 DEF Stream!Starts

\* What is owed, what is offered and what is shown, in any state and in the
\* next one.
Lists ==
  /\ \E W : owed \in Seq(W)
  /\ \E W : Offering \in Seq(W)
  /\ m_axis_cc_tvalid => ShownOrExcused = owed

LEMMA NowAndNext == (Inv => Lists) /\ (Inv' => Lists')
<1>1. Inv => Lists
  BY OwedIsList, AllRead DEF Lists
<1> QED BY <1>1, PTL

\* Nothing owed is lost while nothing goes out.
LEMMA OwedGrows ==
  ASSUME Inv, Inv', NEW CONSTANT tready \in BOOLEAN, Edge(tready), ~Handover
  PROVE  Stream!Starts(owed, owed')
<1>1. PICK W : owed \in Seq(W)
  BY OwedIsList
<1>2. CASE OfferStays
  BY <1>1, <1>2, StartsItself DEF OfferStays
<1>3. CASE ~OfferStays
  <2>1. OfferNothing(owed) \/ OfferBeat(owed)
    BY <1>3 DEF Edge
  <2>2. owed' = owed \o Offering'
    BY <1>1, <2>1, NextOffer DEF Edge
  <2>3. PICK V : Offering' \in Seq(V)
    BY NowAndNext DEF Lists
  <2>4. owed \in Seq(W \cup V) /\ Offering' \in Seq(W \cup V)
    <3>1. W \subseteq W \cup V /\ V \subseteq W \cup V
      OBVIOUS
    <3> QED BY ONLY <1>1, <2>3, <3>1, SeqOfMore
  <2> QED BY <2>2, <2>4, StartsLonger
<1> QED BY <1>2, <1>3

\* A beat the core does not take stays as it is.
LEMMA ShownStays ==
  ASSUME Inv, NEW CONSTANT tready \in BOOLEAN, Edge(tready),
         m_axis_cc_tvalid, ~Handover
  PROVE  m_axis_cc_tvalid' /\ owed' = owed
<1>1. /\ s_axis_cc_tvalid /\ (cc_hold_valid_reg \/ cc_single_ok)
      /\ ~m_axis_cc_tready /\ ~s_axis_cc_tready
  BY DEF m_axis_cc_tvalid, Handover, s_axis_cc_tready
<1>2. UNCHANGED <<s_axis_cc, bus_open, bus_tag, owed>>
  BY <1>1 DEF Edge, OfferStays, OfferNothing, OfferBeat
<1>3. /\ UNCHANGED <<cc_hold_valid_reg, cc_hold_reg, cc_open_reg>>
      /\ straddle' = straddle
  BY <1>1 DEF Edge, Registers, MergeOut, SingleOut, Hold, NothingOffered
<1>4. m_axis_cc_tvalid' = m_axis_cc_tvalid
  BY <1>2, <1>3 DEF m_axis_cc_tvalid, s_axis_cc_tvalid, cc_single_ok,
     cc_map_open_after, cc_open_in
<1> QED BY <1>2, <1>4

\* The gearbox is a TlpStream: the core reads every dword the shim sent, in
\* order and once, with the starts and ends where the shim put them, and a
\* beat on offer does not change until it is taken.
THEOREM CcIsAStream == CcSpec => ImplementsStream
<1> DEFINE out == IF m_axis_cc_tvalid THEN ShownOrExcused ELSE <<>>
<1>1. ASSUME Inv, Inv'
      PROVE  /\ out = IF m_axis_cc_tvalid THEN owed ELSE <<>>
             /\ out' = IF m_axis_cc_tvalid' THEN owed' ELSE <<>>
             /\ Stream!Starts(out', owed')
             /\ Stream!Starts(<<>>, owed')
  <2>1. out' = IF m_axis_cc_tvalid' THEN owed' ELSE <<>>
    BY <1>1, NowAndNext DEF Lists
  <2>2. PICK W : owed' \in Seq(W)
    BY <1>1, NowAndNext DEF Lists
  <2>3. Stream!Starts(owed', owed') /\ Stream!Starts(<<>>, owed')
    BY <2>2, StartsItself
  <2>4. out = IF m_axis_cc_tvalid THEN owed ELSE <<>>
    BY <1>1, NowAndNext DEF Lists
  <2> HIDE DEF out
  <2> QED BY <2>1, <2>3, <2>4
<1>2. CcInit => Stream!Init
  <2>1. CcInit => ~m_axis_cc_tvalid
    BY DEF CcInit, m_axis_cc_tvalid, s_axis_cc_tvalid
  <2> QED BY <2>1 DEF CcInit, Stream!Init
<1>3. Inv /\ Inv' /\ [CcNext]_ccVars
        => [Stream!Next]_<<owed, out>>
  <2> SUFFICES ASSUME Inv, Inv', [CcNext]_ccVars
               PROVE  [Stream!Next]_<<owed, out>>
    OBVIOUS
  <2>1. ASSUME NEW CONSTANT tready \in BOOLEAN, Edge(tready)
        PROVE  Stream!Step
    <3>1. Stream!Starts(out', owed')
      BY <1>1
    <3>2. CASE Handover
      <4>1. out = owed /\ SubSeq(owed, Len(owed) + 1, Len(owed)) = <<>>
        <5>1. out = owed /\ ShownOrExcused = owed
          BY <1>1, <3>2, AllRead DEF Handover
        <5> QED BY <2>1, <3>2, <5>1, HandedOver DEF Edge
      <4>2. Stream!Starts(<<>>, owed')
        BY <1>1
      <4> HIDE DEF out
      <4> QED BY <3>1, <4>1, <4>2 DEF Stream!Step, Stream!Taken, out
    <3>3. CASE ~Handover
      <4>1. Stream!Starts(owed, owed')
        BY <2>1, <3>3, OwedGrows
      <4>2. out # <<>> => out' = out
        <5>1. SUFFICES ASSUME m_axis_cc_tvalid
                       PROVE  out' = out
          OBVIOUS
        <5>2. m_axis_cc_tvalid' /\ owed' = owed
          BY <2>1, <3>3, <5>1, ShownStays
        <5>3. out = owed /\ out' = owed'
          BY <1>1, <5>1, <5>2
        <5> QED BY <5>2, <5>3
      <4> QED BY <3>1, <4>1, <4>2 DEF Stream!Step, Stream!Stays
    <3> QED BY <3>2, <3>3
  <2>2. ASSUME NEW CONSTANT tready \in BOOLEAN, Reset(tready)
        PROVE  Stream!Flush
    <3>1. ~m_axis_cc_tvalid' /\ owed' = <<>>
      BY <2>2 DEF Reset, m_axis_cc_tvalid, s_axis_cc_tvalid
    <3> QED BY <3>1 DEF Stream!Flush
  <2>3. CASE UNCHANGED ccVars
    <3>1. owed' = owed /\ m_axis_cc_tvalid' = m_axis_cc_tvalid
      BY <2>3 DEF ccVars, busVars, m_axis_cc_tvalid, s_axis_cc_tvalid,
         cc_single_ok, cc_map_open_after, cc_open_in
    <3>2. out' = out
      BY <1>1, <3>1
    <3> QED BY <3>1, <3>2
  <2> QED BY <2>1, <2>2, <2>3 DEF CcNext, Stream!Next
<1> QED BY <1>2, <1>3, InvHolds, PTL
        DEF CcSpec, ImplementsStream, Stream!Spec

==============================================================================
