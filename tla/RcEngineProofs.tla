--------------------------- MODULE RcEngineProofs ---------------------------
(***************************************************************************)
(* Proofs about RcEngine, for every build the parameter guards admit and   *)
(* every legal traffic of the core:                                        *)
(*   - KeepsItsAccount: what is owed to the FIFO is what the registers     *)
(*     keep, unit by unit and in order;                                    *)
(*   - FinishedLeaveHolds: what stays when the engine goes quiet is an     *)
(*     unfinished TLP's;                                                   *)
(*   - RcIsAStream: the engine implements TlpStream.                       *)
(*                                                                         *)
(* The model joins lists with FlattenSeq and scans segments with a         *)
(* recursive function, so the proofs need induction.  It is used on sets:  *)
(* a set of numbers with 0 that is closed under the successor is Nat, and  *)
(* a set of lists with the empty one that is closed under Append has them  *)
(* all.  From there each stage is shown to keep the units it is given:     *)
(* the realignment of a beat (AllMoved, AllMovedButLast), the scan         *)
(* (ScanKeeps), the slots (SlotsAll) and the output beats (OfferIs); an    *)
(* edge moves the whole chain (KeptMoves, EdgeMoves).                      *)
(***************************************************************************)
EXTENDS RcEngine, SequenceTheorems, WellFoundedInduction, TLAPS

-----------------------------------------------------------------------------
(* Joining a list of lists, what FlattenSeq computes.                      *)

(***************************************************************************)
(* Induction over the naturals, on a set instead of a predicate.           *)
(***************************************************************************)
LEMMA NatSetInduction ==
  ASSUME NEW S \in SUBSET Nat, 0 \in S, \A n \in S : n + 1 \in S
  PROVE  S = Nat
<1> DEFINE R == OpToRel(<, Nat)
<1> DEFINE T == Nat \ S
<1>1. SUFFICES ASSUME T # {} PROVE FALSE
  OBVIOUS
<1>2. IsWellFoundedOn(R, Nat)
  BY NatLessThanWellFounded
<1>3. PICK x \in T : \A y \in T : ~(<<y, x>> \in R)
  <2> T \subseteq Nat OBVIOUS
  <2> HIDE DEF T, R
  <2> QED BY <1>1, <1>2, WFMin, ZenonT(30)
<1>4. x # 0 /\ x \in Nat
  OBVIOUS
<1>5. x - 1 \in Nat /\ x - 1 < x
  BY <1>4
<1>6. <<x - 1, x>> \in R
  BY <1>4, <1>5 DEF OpToRel
<1>7. x - 1 \in S
  BY <1>3, <1>5, <1>6
<1>8. (x - 1) + 1 = x
  BY <1>4
<1> QED BY <1>7, <1>8, <1>3

\* Joining is associative; under a name, for the steps that cite it.
Regroups(x, y, z) == (x \o y) \o z = x \o (y \o z)

\* Lists over one set may be regrouped.
LEMMA Regroup ==
  ASSUME NEW X, NEW x \in Seq(X), NEW y \in Seq(X), NEW z \in Seq(X)
  PROVE  Regroups(x, y, z)
BY ConcatAssociative DEF Regroups

\* The function FlattenSeq chooses, and its first n steps.
FlatTo(f, seqs, n) ==
  f = [i \in 1 .. n |-> IF i = 1 THEN seqs[i] ELSE f[i - 1] \o seqs[i]]

\* FlattenSeq's recursive function exists,
LEMMA FlatExists ==
  ASSUME NEW seqs, NEW n \in Nat
  PROVE  \E f : FlatTo(f, seqs, n)
<1> DEFINE S == {k \in Nat : \E f : FlatTo(f, seqs, k)}
<1>1. 0 \in S
  <2> DEFINE e == [i \in 1 .. 0 |-> 0]
  <2>1. e = [i \in 1 .. 0 |-> IF i = 1 THEN seqs[i] ELSE e[i - 1] \o seqs[i]]
    OBVIOUS
  <2>2. FlatTo(e, seqs, 0)
    BY <2>1 DEF FlatTo
  <2> QED BY <2>2
<1>2. ASSUME NEW k \in S PROVE k + 1 \in S
  <2>1. PICK f : FlatTo(f, seqs, k)
    OBVIOUS
  <2> DEFINE g == [i \in 1 .. k + 1 |->
                     IF i = k + 1
                     THEN IF i = 1 THEN seqs[i] ELSE f[k] \o seqs[i]
                     ELSE f[i]]
  <2>2. k \in Nat
    OBVIOUS
  <2>3. \A i \in 1 .. k + 1 :
          g[i] = IF i = 1 THEN seqs[i] ELSE g[i - 1] \o seqs[i]
    <3> TAKE i \in 1 .. k + 1
    <3>1. CASE i = k + 1
      BY <2>2, <3>1
    <3>2. CASE i # k + 1
      <4>1. i \in 1 .. k /\ g[i] = f[i]
        BY <2>2, <3>2
      <4>2. i # 1 => i - 1 \in 1 .. k /\ g[i - 1] = f[i - 1]
        BY <2>2, <3>2
      <4>3. f[i] = IF i = 1 THEN seqs[i] ELSE f[i - 1] \o seqs[i]
        BY <2>1, <4>1 DEF FlatTo
      <4> HIDE DEF g
      <4> QED BY <4>1, <4>2, <4>3
    <3> QED BY <3>1, <3>2
  <2>4. g = [i \in 1 .. k + 1 |->
               IF i = 1 THEN seqs[i] ELSE g[i - 1] \o seqs[i]]
    <3>1. DOMAIN g = 1 .. k + 1 /\ g = [i \in 1 .. k + 1 |-> g[i]]
      OBVIOUS
    <3> HIDE DEF g
    <3> QED BY <2>3, <3>1
  <2>5. FlatTo(g, seqs, k + 1)
    <3> HIDE DEF g
    <3> QED BY <2>4 DEF FlatTo
  <2> HIDE DEF g
  <2> QED BY <2>2, <2>5
<1>3. S = Nat
  <2> S \in SUBSET Nat OBVIOUS
  <2> HIDE DEF S
  <2> QED BY <1>1, <1>2, NatSetInduction
<1> QED BY <1>3

\* its elements satisfy its equation,
LEMMA FlatStep ==
  ASSUME NEW f, NEW ss, NEW n, FlatTo(f, ss, n), NEW i \in 1 .. n
  PROVE  f[i] = IF i = 1 THEN ss[i] ELSE f[i - 1] \o ss[i]
<1> DEFINE Rhs(j) == IF j = 1 THEN ss[j] ELSE f[j - 1] \o ss[j]
<1>1. f = [j \in 1 .. n |-> Rhs(j)]
  BY Zenon DEF FlatTo
<1>2. [j \in 1 .. n |-> Rhs(j)][i] = Rhs(i)
  <2> HIDE DEF Rhs
  <2> QED OBVIOUS
<1>3. f[i] = Rhs(i)
  <2> HIDE DEF Rhs
  <2> QED BY ONLY <1>1, <1>2, Zenon
<1> QED BY ONLY <1>3, Zenon DEF Rhs

\* the first one being the first list,
LEMMA FlatFirst ==
  ASSUME NEW f, NEW ss, NEW n, FlatTo(f, ss, n), 1 \in 1 .. n
  PROVE  f[1] = ss[1]
BY FlatStep

\* every other one a longer join,
LEMMA FlatNext ==
  ASSUME NEW f, NEW ss, NEW n, FlatTo(f, ss, n), NEW j \in Nat \ {0},
         j + 1 \in 1 .. n
  PROVE  f[j + 1] = f[j] \o ss[j + 1]
<1>1. f[j + 1] = IF j + 1 = 1 THEN ss[j + 1] ELSE f[(j + 1) - 1] \o ss[j + 1]
  BY FlatStep
<1>2. j + 1 # 1 /\ (j + 1) - 1 = j
  OBVIOUS
<1> QED BY ONLY <1>1, <1>2

\* and two of them agree as far as their lists do.
LEMMA FlatAgrees ==
  ASSUME NEW f, NEW g, NEW ss, NEW tt, NEW m \in Nat, NEW n \in Nat,
         FlatTo(f, ss, m), FlatTo(g, tt, n),
         m <= n, \A i \in 1 .. m : ss[i] = tt[i]
  PROVE  \A i \in 1 .. m : f[i] = g[i]
<1> DEFINE S == {j \in Nat : j \in 1 .. m => f[j] = g[j]}
<1>1. 0 \in S
  OBVIOUS
<1>2. ASSUME NEW j \in S PROVE j + 1 \in S
  <2> SUFFICES ASSUME j + 1 \in 1 .. m PROVE f[j + 1] = g[j + 1]
    OBVIOUS
  <2>1. f[j + 1] = IF j + 1 = 1 THEN ss[j + 1] ELSE f[(j + 1) - 1] \o ss[j + 1]
    <3>1. j + 1 \in 1 .. m
      OBVIOUS
    <3> QED BY <3>1, FlatStep
  <2>2. g[j + 1] = IF j + 1 = 1 THEN tt[j + 1] ELSE g[(j + 1) - 1] \o tt[j + 1]
    <3>1. j + 1 \in 1 .. n
      OBVIOUS
    <3> QED BY <3>1, FlatStep
  <2>3. j + 1 # 1 => f[j] = g[j]
    OBVIOUS
  <2>4. (j + 1) - 1 = j
    OBVIOUS
  <2> QED BY <2>1, <2>2, <2>3, <2>4
<1>3. S = Nat
  <2> S \in SUBSET Nat OBVIOUS
  <2> HIDE DEF S
  <2> QED BY <1>1, <1>2, NatSetInduction
<1> QED BY <1>3

\* What is joined so far is a list of the same elements.
LEMMA FlatTyped ==
  ASSUME NEW X, NEW ss \in Seq(Seq(X)), NEW f, FlatTo(f, ss, Len(ss))
  PROVE  \A i \in 1 .. Len(ss) : f[i] \in Seq(X)
<1> DEFINE S == {j \in Nat : j \in 1 .. Len(ss) => f[j] \in Seq(X)}
<1>1. 0 \in S
  OBVIOUS
<1>2. ASSUME NEW j \in S PROVE j + 1 \in S
  <2> SUFFICES ASSUME j + 1 \in 1 .. Len(ss) PROVE f[j + 1] \in Seq(X)
    OBVIOUS
  <2>1. f[j + 1] = IF j + 1 = 1 THEN ss[j + 1] ELSE f[(j + 1) - 1] \o ss[j + 1]
    BY FlatStep
  <2>2. ss[j + 1] \in Seq(X)
    BY ElementOfSeq
  <2>3. j + 1 # 1 => f[j] \in Seq(X)
    OBVIOUS
  <2>4. (j + 1) - 1 = j
    OBVIOUS
  <2> QED BY <2>1, <2>2, <2>3, <2>4, ConcatProperties
<1>3. S = Nat
  <2> S \in SUBSET Nat OBVIOUS
  <2> HIDE DEF S
  <2> QED BY <1>1, <1>2, NatSetInduction
<1> QED BY <1>3

\* FlattenSeq is the last element of such a function.
LEMMA FlattenIs ==
  ASSUME NEW ss, Len(ss) \in Nat \ {0}
  PROVE  \E f : FlatTo(f, ss, Len(ss)) /\ FlattenSeq(ss) = f[Len(ss)]
<1> DEFINE f == CHOOSE g : FlatTo(g, ss, Len(ss))
<1>1. FlatTo(f, ss, Len(ss))
  BY FlatExists
<1>2. FlattenSeq(ss) = f[Len(ss)]
  BY DEF FlattenSeq, FlatTo
<1> HIDE DEF f
<1> QED BY <1>1, <1>2

(***************************************************************************)
(* FlattenSeq, one list more: what its recursion computes.                 *)
(***************************************************************************)
LEMMA FlattenEmpty == FlattenSeq(<<>>) = <<>>
BY DEF FlattenSeq

\* A join of lists over X is a list over X.
LEMMA FlattenTyped ==
  ASSUME NEW X, NEW ss \in Seq(Seq(X))
  PROVE  FlattenSeq(ss) \in Seq(X)
<1>1. CASE Len(ss) = 0
  <2>1. ss = <<>>
    BY <1>1, EmptySeq
  <2>2. <<>> \in Seq(X)
    OBVIOUS
  <2> QED BY ONLY <2>1, <2>2, FlattenEmpty
<1>2. CASE Len(ss) # 0
  <2>1. Len(ss) \in Nat \ {0}
    BY <1>2, LenProperties
  <2>2. PICK f : FlatTo(f, ss, Len(ss)) /\ FlattenSeq(ss) = f[Len(ss)]
    BY <2>1, FlattenIs
  <2>3. \A i \in 1 .. Len(ss) : f[i] \in Seq(X)
    BY <2>2, FlatTyped
  <2> QED BY <2>1, <2>2, <2>3
<1> QED BY <1>1, <1>2

\* One list more is joined at the end.
LEMMA FlattenAppend ==
  ASSUME NEW X, NEW ss \in Seq(Seq(X)), NEW x \in Seq(X)
  PROVE  FlattenSeq(Append(ss, x)) = FlattenSeq(ss) \o x
<1> DEFINE tt == Append(ss, x)
<1>1. /\ tt \in Seq(Seq(X)) /\ Len(tt) = Len(ss) + 1 /\ Len(ss) \in Nat
      /\ tt[Len(ss) + 1] = x
      /\ \A i \in 1 .. Len(ss) : ss[i] = tt[i]
  OBVIOUS
<1> HIDE DEF tt
<1>2. PICK g : FlatTo(g, tt, Len(tt)) /\ FlattenSeq(tt) = g[Len(tt)]
  <2>1. Len(tt) \in Nat \ {0}
    BY <1>1
  <2> QED BY <2>1, FlattenIs
<1>3. g[Len(ss) + 1] = IF Len(ss) + 1 = 1 THEN tt[Len(ss) + 1]
                       ELSE g[(Len(ss) + 1) - 1] \o tt[Len(ss) + 1]
  <2>1. Len(ss) + 1 \in 1 .. Len(tt)
    BY <1>1
  <2> QED BY <1>2, <2>1, FlatStep
<1>4. CASE Len(ss) = 0
  <2>1. FlattenSeq(tt) = x
    BY <1>1, <1>2, <1>3, <1>4
  <2>2. ss = <<>>
    BY <1>4, EmptySeq
  <2>3. FlattenSeq(ss) \o x = x
    BY <2>2, FlattenEmpty, ConcatEmptySeq
  <2> QED BY <2>1, <2>3 DEF tt
<1>5. CASE Len(ss) # 0
  <2>1. Len(ss) \in Nat \ {0} /\ (Len(ss) + 1) - 1 = Len(ss) /\ Len(ss) + 1 # 1
    BY <1>1, <1>5
  <2>2. FlattenSeq(tt) = g[Len(ss)] \o x
    BY <1>1, <1>2, <1>3, <2>1
  <2>3. PICK f : FlatTo(f, ss, Len(ss)) /\ FlattenSeq(ss) = f[Len(ss)]
    BY <2>1, FlattenIs
  <2>4. \A i \in 1 .. Len(ss) : f[i] = g[i]
    <3>1. Len(ss) <= Len(ss) /\ Len(ss) <= Len(tt) /\ Len(tt) \in Nat
      BY <1>1
    <3>2. Len(ss) \in Nat /\ \A i \in 1 .. Len(ss) : ss[i] = tt[i]
      BY <1>1
    <3> DEFINE m == Len(ss)
    <3> DEFINE n == Len(tt)
    <3>3. FlatTo(f, ss, m) /\ FlatTo(g, tt, n)
      BY <1>2, <2>3
    <3>4. /\ m \in Nat /\ n \in Nat /\ m <= n
          /\ \A i \in 1 .. m : ss[i] = tt[i]
      BY <3>1, <3>2
    <3> HIDE DEF m, n
    <3>5. \A i \in 1 .. m : f[i] = g[i]
      BY ONLY <3>3, <3>4, FlatAgrees, SMTT(60)
    <3> QED BY <3>5 DEF m
  <2>5. f[Len(ss)] = g[Len(ss)]
    BY <2>1, <2>4
  <2> QED BY <2>2, <2>3, <2>5 DEF tt
<1> QED BY <1>4, <1>5

-----------------------------------------------------------------------------
(* Units, pieces and the mark of an end.                                   *)

\* Induction over a sequence, on a set: from the front to one element more.
LEMMA SeqSetInduction ==
  ASSUME NEW X, NEW Z \in SUBSET Seq(X), <<>> \in Z,
         \A s \in Z, x \in X : Append(s, x) \in Z
  PROVE  Z = Seq(X)
<1> DEFINE S == {n \in Nat : \A s \in Seq(X) : Len(s) = n => s \in Z}
<1>1. 0 \in S
  BY EmptySeq
<1>2. ASSUME NEW n \in S PROVE n + 1 \in S
  <2> SUFFICES ASSUME NEW s \in Seq(X), Len(s) = n + 1 PROVE s \in Z
    OBVIOUS
  <2>1. s # <<>>
    OBVIOUS
  <2>2. PICK t \in Seq(X), x \in X : s = Append(t, x)
    BY <2>1, SequenceEmptyOrAppend
  <2>3. Len(t) = n
    BY <2>2
  <2>4. t \in Z
    BY <2>3
  <2> QED BY <2>2, <2>4
<1>3. S = Nat
  <2> S \in SUBSET Nat OBVIOUS
  <2> HIDE DEF S
  <2> QED BY <1>1, <1>2, NatSetInduction
<1> QED BY <1>3, LenProperties

\* The join of two lists of lists is the join of their joins.
LEMMA FlattenConcat ==
  ASSUME NEW X, NEW ss \in Seq(Seq(X)), NEW tt \in Seq(Seq(X))
  PROVE  FlattenSeq(ss \o tt) = FlattenSeq(ss) \o FlattenSeq(tt)
<1> DEFINE Z == {uu \in Seq(Seq(X)) :
                   FlattenSeq(ss \o uu) = FlattenSeq(ss) \o FlattenSeq(uu)}
<1>1. <<>> \in Z
  <2>1. <<>> \in Seq(Seq(X)) /\ ss \o <<>> = ss
    BY ConcatEmptySeq
  <2>2. FlattenSeq(ss) \in Seq(X)
    BY FlattenTyped
  <2>3. FlattenSeq(ss) \o <<>> = FlattenSeq(ss)
    BY <2>2, ConcatEmptySeq
  <2> QED BY <2>1, <2>3, FlattenEmpty
<1>2. ASSUME NEW uu \in Z, NEW x \in Seq(X) PROVE Append(uu, x) \in Z
  <2>1. uu \in Seq(Seq(X)) /\ ss \o uu \in Seq(Seq(X))
    BY ConcatProperties
  <2>2. ss \o Append(uu, x) = Append(ss \o uu, x)
    BY <2>1
  <2>3. FlattenSeq(Append(ss \o uu, x)) = FlattenSeq(ss \o uu) \o x
    BY <2>1, FlattenAppend
  <2>4. FlattenSeq(Append(uu, x)) = FlattenSeq(uu) \o x
    BY <2>1, FlattenAppend
  <2>5. /\ FlattenSeq(ss) \in Seq(X) /\ FlattenSeq(uu) \in Seq(X)
        /\ x \in Seq(X)
    BY <2>1, FlattenTyped
  <2>6. (FlattenSeq(ss) \o FlattenSeq(uu)) \o x
          = FlattenSeq(ss) \o (FlattenSeq(uu) \o x)
    <3>1. Regroups(FlattenSeq(ss), FlattenSeq(uu), x)
      BY ONLY <2>5, Regroup, Zenon
    <3> QED BY ONLY <3>1 DEF Regroups
  <2>7. Append(uu, x) \in Seq(Seq(X))
    BY <2>1
  <2>8. FlattenSeq(ss \o uu) = FlattenSeq(ss) \o FlattenSeq(uu)
    OBVIOUS
  <2> QED BY <2>2, <2>3, <2>4, <2>6, <2>7, <2>8
<1>3. Z = Seq(Seq(X))
  <2> Z \in SUBSET Seq(Seq(X)) OBVIOUS
  <2> HIDE DEF Z
  <2> QED BY <1>1, <1>2, SeqSetInduction
<1> QED BY <1>3

-----------------------------------------------------------------------------
(* The types of the model.                                                 *)

\* The identity of a dword: the number of its beat and its segment.
Ids == (0 .. 1) \X Nat
\* A dword, or a header, with its end mark; one without the mark.
Unit == [part : {"hdr", "lo", "hi"}, id : Ids, eop : BOOLEAN]
Plain == {u \in Unit : u.eop = FALSE}
\* A segment of the bus.
Segment == [valid : BOOLEAN, sop : BOOLEAN, eop : {"no", "lo", "hi"}, id : Ids]

\* A realigned segment or a slot carries a header or data.
Piece == {x \in [sop : BOOLEAN, eop : BOOLEAN, hdr : Ids, data : Seq(Plain)] :
            x.sop \/ x.data # <<>>}

\* Those that leave their TLP open.
Carry == {x \in Piece : x.eop = FALSE}

\* A part is a list of plain units.
LEMMA PartTyped ==
  ASSUME NEW s \in Segment, NEW which \in {"hdr", "lo", "hi"}
  PROVE  Part(which, s) \in Seq(Plain) /\ Part(which, s) # <<>>
BY DEF Part, Segment, Plain, Unit

\* A list of plain units is a list of units.
LEMMA PlainIsUnits == Seq(Plain) \subseteq Seq(Unit)
BY SeqMonotonic DEF Plain

\* The units of a piece before the end is marked.
Body(x) ==
  When(x.sop, <<[part |-> "hdr", id |-> x.hdr, eop |-> FALSE]>>) \o x.data

\* The units of a piece before the mark are plain, and there are some.
LEMMA BodyTyped ==
  ASSUME NEW x \in Piece
  PROVE  Body(x) \in Seq(Plain) /\ Body(x) # <<>>
<1>1. x.sop \in BOOLEAN /\ x.hdr \in Ids /\ x.data \in Seq(Plain)
  BY DEF Piece
<1>2. x.sop \/ x.data # <<>>
  BY DEF Piece
<1> DEFINE h == <<[part |-> "hdr", id |-> x.hdr, eop |-> FALSE]>>
<1>3. h \in Seq(Plain) /\ Len(h) = 1
  BY <1>1 DEF Plain, Unit
<1>4. Body(x) = IF x.sop THEN h \o x.data ELSE x.data
  <2>1. <<>> \o x.data = x.data
    BY <1>1, ConcatEmptySeq
  <2> QED BY <2>1, <1>1 DEF Body, When
<1> HIDE DEF h
<1>5. h \o x.data \in Seq(Plain) /\ Len(h \o x.data) = 1 + Len(x.data)
      /\ Len(x.data) \in Nat
  <2>1. x.data \in Seq(Plain)
    BY <1>1
  <2>2. h \o x.data \in Seq(Plain) /\ Len(h \o x.data) = Len(h) + Len(x.data)
    BY ONLY <1>3, <2>1, ConcatProperties
  <2> QED BY ONLY <1>3, <2>1, <2>2, LenProperties
<1>6. h \o x.data # <<>>
  BY <1>5
<1> QED BY <1>1, <1>2, <1>4, <1>5, <1>6

\* The mark changes no unit's place.
LEMMA MarkedTyped ==
  ASSUME NEW u \in Seq(Unit), NEW last \in BOOLEAN, u # <<>> \/ ~last
  PROVE  Marked(u, last) \in Seq(Unit) /\ Len(Marked(u, last)) = Len(u)
<1>1. CASE last
  <2>1. Len(u) \in 1 .. Len(u) /\ Len(u) \in Nat
    BY <1>1, EmptySeq, LenProperties
  <2>2. u[Len(u)] \in Unit
    BY <2>1, ElementOfSeq
  <2> DEFINE e == [u[Len(u)] EXCEPT !.eop = TRUE]
  <2>3. e \in Unit
    BY <2>2 DEF Unit
  <2>4. Marked(u, last) = [u EXCEPT ![Len(u)] = e]
    BY <1>1, <2>2 DEF Marked, Unit
  <2> HIDE DEF e
  <2> QED BY <2>1, <2>3, <2>4, ExceptSeq
<1>2. CASE ~last
  BY <1>2 DEF Marked
<1> QED BY <1>1, <1>2

\* The mark is in the last of two lists, if that has a unit.
LEMMA MarkedConcat ==
  ASSUME NEW u \in Seq(Unit), NEW v \in Seq(Unit), v # <<>>,
         NEW last \in BOOLEAN
  PROVE  Marked(u \o v, last) = u \o Marked(v, last)
<1>1. CASE ~last
  BY <1>1 DEF Marked
<1>2. CASE last
  <2>1. /\ Len(v) \in Nat \ {0} /\ Len(u) \in Nat
        /\ Len(u \o v) = Len(u) + Len(v) /\ u \o v \in Seq(Unit)
    BY EmptySeq, LenProperties, ConcatProperties
  <2> DEFINE e == [v[Len(v)] EXCEPT !.eop = TRUE]
  <2>2. v[Len(v)] \in Unit
    BY <2>1, ElementOfSeq
  <2>3. e \in Unit
    BY <2>2 DEF Unit
  <2>4. Marked(v, last) = [v EXCEPT ![Len(v)] = e]
    BY <1>2, <2>2 DEF Marked, Unit
  <2>5. (u \o v)[Len(u \o v)] = v[Len(v)]
    <3>1. Len(u) + Len(v) \in Len(u) + 1 .. Len(u) + Len(v)
      BY <2>1
    <3>2. (Len(u) + Len(v)) - Len(u) = Len(v)
      BY <2>1
    <3> QED BY <2>1, <3>1, <3>2
  <2>6. Marked(u \o v, last) = [u \o v EXCEPT ![Len(u \o v)] = e]
    BY <1>2, <2>2, <2>5 DEF Marked, Unit
  <2> HIDE DEF e
  <2> DEFINE w == [v EXCEPT ![Len(v)] = e]
  <2>7. w \in Seq(Unit) /\ Len(w) = Len(v)
    BY <2>1, <2>3, ExceptSeq
  <2>8. \A i \in 1 .. Len(v) : w[i] = IF i = Len(v) THEN e ELSE v[i]
    BY <2>1
  <2> DEFINE l == [u \o v EXCEPT ![Len(u \o v)] = e]
  <2>9. l \in Seq(Unit) /\ Len(l) = Len(u) + Len(v)
    <3>1. Len(u \o v) \in 1 .. Len(u \o v)
      BY <2>1
    <3> QED BY <2>1, <2>3, <3>1, ExceptSeq
  <2>10. \A i \in 1 .. Len(u) + Len(v) :
           l[i] = IF i = Len(u) + Len(v) THEN e ELSE (u \o v)[i]
    <3>1. DOMAIN (u \o v) = 1 .. Len(u) + Len(v)
      BY <2>1, LenProperties
    <3> DEFINE uv == u \o v
    <3> HIDE DEF uv
    <3> QED BY <2>1, <3>1 DEF uv
  <2> HIDE DEF w, l
  <2>11. u \o w \in Seq(Unit) /\ Len(u \o w) = Len(u) + Len(v)
    <3>1. u \in Seq(Unit)
      OBVIOUS
    <3> QED BY ONLY <2>7, <3>1, ConcatProperties
  <2>12. \A i \in 1 .. Len(u) + Len(v) : l[i] = (u \o w)[i]
    <3> TAKE i \in 1 .. Len(u) + Len(v)
    <3>1. CASE i <= Len(u)
      <4>1. i \in 1 .. Len(u) /\ i # Len(u) + Len(v)
        BY <2>1, <3>1
      <4>2. (u \o w)[i] = u[i] /\ (u \o v)[i] = u[i]
        BY <4>1, <2>7, ConcatProperties
      <4> QED BY <2>10, <4>1, <4>2
    <3>2. CASE ~(i <= Len(u))
      <4>1. i \in Len(u) + 1 .. Len(u) + Len(v) /\ i - Len(u) \in 1 .. Len(v)
            /\ (i = Len(u) + Len(v) <=> i - Len(u) = Len(v))
        BY <2>1, <3>2
      <4>2. (u \o w)[i] = w[i - Len(u)] /\ (u \o v)[i] = v[i - Len(u)]
        BY <2>1, <4>1, <2>7, ConcatProperties
      <4> QED BY <2>8, <2>10, <4>1, <4>2
    <3> QED BY <3>1, <3>2
  <2>13. l = u \o w
    BY <2>9, <2>11, <2>12, SeqEqual
  <2> QED BY <2>4, <2>6, <2>13 DEF w, l
<1> QED BY <1>1, <1>2

\* The units of a piece are its body, marked.
LEMMA UnitsTyped ==
  ASSUME NEW x \in Piece
  PROVE  Units(x) \in Seq(Unit) /\ Units(x) = Marked(Body(x), x.eop)
         /\ Units(x) # <<>>
<1>1. Body(x) \in Seq(Unit) /\ Body(x) # <<>>
  BY BodyTyped, PlainIsUnits
<1>2. Units(x) = Marked(Body(x), x.eop)
  BY DEF Units, Body
<1>3. x.eop \in BOOLEAN
  BY DEF Piece
<1>4. Units(x) \in Seq(Unit) /\ Len(Units(x)) = Len(Body(x))
  BY <1>1, <1>2, <1>3, MarkedTyped
<1>5. Len(Body(x)) # 0
  BY <1>1, EmptySeq
<1> QED BY <1>2, <1>4, <1>5

-----------------------------------------------------------------------------
(* The units of a list of pieces.                                          *)

\* The lists of units that AllUnits joins.
UnitsOfEach(xs) == [i \in DOMAIN xs |-> Units(xs[i])]

\* One list of units for each piece.
LEMMA UnitsOfEachTyped ==
  ASSUME NEW xs \in Seq(Piece)
  PROVE  /\ UnitsOfEach(xs) \in Seq(Seq(Unit))
         /\ Len(UnitsOfEach(xs)) = Len(xs)
         /\ \A i \in 1 .. Len(xs) : UnitsOfEach(xs)[i] = Units(xs[i])
<1>1. DOMAIN xs = 1 .. Len(xs) /\ Len(xs) \in Nat
  BY LenProperties
<1>2. \A i \in 1 .. Len(xs) : Units(xs[i]) \in Seq(Unit)
  BY ElementOfSeq, UnitsTyped
<1>3. UnitsOfEach(xs) = [i \in 1 .. Len(xs) |-> Units(xs[i])]
  BY <1>1 DEF UnitsOfEach
<1>4. [i \in 1 .. Len(xs) |-> Units(xs[i])] \in Seq(Seq(Unit))
  BY <1>1, <1>2, IsASeq
<1> QED BY <1>1, <1>3, <1>4

\* AllUnits joins them.
LEMMA AllUnitsIs ==
  ASSUME NEW xs PROVE AllUnits(xs) = FlattenSeq(UnitsOfEach(xs))
BY DEF AllUnits, UnitsOfEach

\* The units of pieces are units.
LEMMA AllUnitsTyped ==
  ASSUME NEW xs \in Seq(Piece) PROVE AllUnits(xs) \in Seq(Unit)
BY UnitsOfEachTyped, AllUnitsIs, FlattenTyped

\* No pieces have no units.
LEMMA AllUnitsEmpty == AllUnits(<<>>) = <<>>
<1>1. <<>> \in Seq(Piece) /\ Len(<<>>) = 0
  OBVIOUS
<1>2. UnitsOfEach(<<>>) = <<>>
  BY <1>1, UnitsOfEachTyped, EmptySeq
<1> QED BY <1>2, AllUnitsIs, FlattenEmpty

\* One piece more has its units behind the others'.
LEMMA AllUnitsAppend ==
  ASSUME NEW xs \in Seq(Piece), NEW x \in Piece
  PROVE  AllUnits(Append(xs, x)) = AllUnits(xs) \o Units(x)
<1> DEFINE ax == Append(xs, x)
<1> DEFINE es == UnitsOfEach(xs)
<1>1. /\ ax \in Seq(Piece) /\ Len(ax) = Len(xs) + 1 /\ Len(xs) \in Nat
      /\ ax[Len(xs) + 1] = x
      /\ \A i \in 1 .. Len(xs) : ax[i] = xs[i]
  OBVIOUS
<1>2. es \in Seq(Seq(Unit)) /\ Len(es) = Len(xs)
      /\ \A i \in 1 .. Len(xs) : es[i] = Units(xs[i])
  BY UnitsOfEachTyped
<1>3. Units(x) \in Seq(Unit)
  BY UnitsTyped
<1> DEFINE u == Units(x)
<1> HIDE DEF ax, es, u
<1>4. /\ UnitsOfEach(ax) \in Seq(Seq(Unit))
      /\ Len(UnitsOfEach(ax)) = Len(xs) + 1
      /\ \A i \in 1 .. Len(xs) + 1 : UnitsOfEach(ax)[i] = Units(ax[i])
  BY <1>1, UnitsOfEachTyped
<1>5. /\ Append(es, u) \in Seq(Seq(Unit))
      /\ Len(Append(es, u)) = Len(xs) + 1
      /\ Append(es, u)[Len(xs) + 1] = u
      /\ \A i \in 1 .. Len(xs) : Append(es, u)[i] = es[i]
  BY <1>2, <1>3, AppendProperties DEF u
<1>6. \A i \in 1 .. Len(xs) + 1 : UnitsOfEach(ax)[i] = Append(es, u)[i]
  <2> TAKE i \in 1 .. Len(xs) + 1
  <2>1. CASE i = Len(xs) + 1
    BY <2>1, <1>1, <1>4, <1>5 DEF u
  <2>2. CASE i # Len(xs) + 1
    <3>1. i \in 1 .. Len(xs)
      BY <2>2, <1>1
    <3> QED BY <3>1, <1>1, <1>2, <1>4, <1>5
  <2> QED BY <2>1, <2>2
<1>7. UnitsOfEach(ax) = Append(es, u)
  BY <1>4, <1>5, <1>6, SeqEqual
<1>8. FlattenSeq(Append(es, u)) = FlattenSeq(es) \o u
  BY <1>2, <1>3, FlattenAppend DEF u
<1> QED BY <1>7, <1>8, AllUnitsIs DEF ax, es, u

\* The units of two lists of pieces, one behind the other.
LEMMA AllUnitsConcat ==
  ASSUME NEW xs \in Seq(Piece), NEW ys \in Seq(Piece)
  PROVE  AllUnits(xs \o ys) = AllUnits(xs) \o AllUnits(ys)
<1> DEFINE Z == {zs \in Seq(Piece) :
                   AllUnits(xs \o zs) = AllUnits(xs) \o AllUnits(zs)}
<1>1. <<>> \in Z
  <2>1. <<>> \in Seq(Piece) /\ xs \o <<>> = xs
    BY ConcatEmptySeq
  <2>2. AllUnits(xs) \o <<>> = AllUnits(xs)
    BY AllUnitsTyped, ConcatEmptySeq
  <2> QED BY <2>1, <2>2, AllUnitsEmpty
<1>2. ASSUME NEW zs \in Z, NEW x \in Piece PROVE Append(zs, x) \in Z
  <2>1. zs \in Seq(Piece) /\ xs \o zs \in Seq(Piece)
    BY ConcatProperties
  <2>2. xs \o Append(zs, x) = Append(xs \o zs, x)
    BY <2>1
  <2>3. AllUnits(Append(xs \o zs, x)) = AllUnits(xs \o zs) \o Units(x)
    BY <2>1, AllUnitsAppend
  <2>4. AllUnits(Append(zs, x)) = AllUnits(zs) \o Units(x)
    BY <2>1, AllUnitsAppend
  <2>5. /\ AllUnits(xs) \in Seq(Unit) /\ AllUnits(zs) \in Seq(Unit)
        /\ Units(x) \in Seq(Unit)
    BY <2>1, AllUnitsTyped, UnitsTyped
  <2>6. (AllUnits(xs) \o AllUnits(zs)) \o Units(x)
          = AllUnits(xs) \o (AllUnits(zs) \o Units(x))
    <3>1. Regroups(AllUnits(xs), AllUnits(zs), Units(x))
      BY ONLY <2>5, Regroup, Zenon
    <3> QED BY ONLY <3>1 DEF Regroups
  <2>7. Append(zs, x) \in Seq(Piece)
    BY <2>1
  <2>8. AllUnits(xs \o zs) = AllUnits(xs) \o AllUnits(zs)
    OBVIOUS
  <2> QED BY <2>2, <2>3, <2>4, <2>6, <2>7, <2>8
<1>3. Z = Seq(Piece)
  <2> Z \in SUBSET Seq(Piece) OBVIOUS
  <2> HIDE DEF Z
  <2> QED BY <1>1, <1>2, SeqSetInduction
<1> QED BY <1>3

\* The units of one piece.
LEMMA AllUnitsOne ==
  ASSUME NEW x \in Piece PROVE AllUnits(<<x>>) = Units(x)
<1>1. <<>> \in Seq(Piece) /\ Append(<<>>, x) = <<x>>
  OBVIOUS
<1>2. Units(x) \in Seq(Unit)
  BY UnitsTyped
<1>3. <<>> \o Units(x) = Units(x)
  BY <1>2, ConcatEmptySeq
<1> QED BY <1>1, <1>3, AllUnitsAppend, AllUnitsEmpty

\* The units of joined lists of pieces, each list's taken apart.
UnitsOfLists(pp) == [i \in DOMAIN pp |-> AllUnits(pp[i])]

\* One list of units for each list of pieces.
LEMMA UnitsOfListsTyped ==
  ASSUME NEW pp \in Seq(Seq(Piece))
  PROVE  /\ UnitsOfLists(pp) \in Seq(Seq(Unit))
         /\ Len(UnitsOfLists(pp)) = Len(pp)
         /\ \A i \in 1 .. Len(pp) : UnitsOfLists(pp)[i] = AllUnits(pp[i])
<1>1. DOMAIN pp = 1 .. Len(pp) /\ Len(pp) \in Nat
  BY LenProperties
<1>2. \A i \in 1 .. Len(pp) : AllUnits(pp[i]) \in Seq(Unit)
  BY ElementOfSeq, AllUnitsTyped
<1>3. UnitsOfLists(pp) = [i \in 1 .. Len(pp) |-> AllUnits(pp[i])]
  BY <1>1 DEF UnitsOfLists
<1>4. [i \in 1 .. Len(pp) |-> AllUnits(pp[i])] \in Seq(Seq(Unit))
  BY <1>1, <1>2, IsASeq
<1> QED BY <1>1, <1>3, <1>4

\* The units of joined lists are the joined lists' units.
LEMMA AllUnitsFlatten ==
  ASSUME NEW pp \in Seq(Seq(Piece))
  PROVE  AllUnits(FlattenSeq(pp)) = FlattenSeq(UnitsOfLists(pp))
<1> DEFINE Z == {qq \in Seq(Seq(Piece)) :
                   AllUnits(FlattenSeq(qq)) = FlattenSeq(UnitsOfLists(qq))}
<1>1. <<>> \in Z
  <2>1. <<>> \in Seq(Seq(Piece)) /\ Len(<<>>) = 0
    OBVIOUS
  <2>2. UnitsOfLists(<<>>) = <<>>
    BY <2>1, UnitsOfListsTyped, EmptySeq
  <2> QED BY <2>1, <2>2, FlattenEmpty, AllUnitsEmpty
<1>2. ASSUME NEW qq \in Z, NEW x \in Seq(Piece) PROVE Append(qq, x) \in Z
  <2> DEFINE aq == Append(qq, x)
  <2> DEFINE es == UnitsOfLists(qq)
  <2> DEFINE u == AllUnits(x)
  <2>1. /\ qq \in Seq(Seq(Piece))
        /\ AllUnits(FlattenSeq(qq)) = FlattenSeq(es)
    OBVIOUS
  <2>2. /\ aq \in Seq(Seq(Piece)) /\ Len(aq) = Len(qq) + 1 /\ Len(qq) \in Nat
        /\ aq[Len(qq) + 1] = x
        /\ \A i \in 1 .. Len(qq) : aq[i] = qq[i]
    BY <2>1
  <2>3. es \in Seq(Seq(Unit)) /\ Len(es) = Len(qq)
        /\ \A i \in 1 .. Len(qq) : es[i] = AllUnits(qq[i])
    BY <2>1, UnitsOfListsTyped
  <2>4. u \in Seq(Unit)
    BY AllUnitsTyped
  <2> HIDE DEF aq, es, u
  <2>5. /\ UnitsOfLists(aq) \in Seq(Seq(Unit))
        /\ Len(UnitsOfLists(aq)) = Len(qq) + 1
        /\ \A i \in 1 .. Len(qq) + 1 : UnitsOfLists(aq)[i] = AllUnits(aq[i])
    BY <2>2, UnitsOfListsTyped
  <2>6. /\ Append(es, u) \in Seq(Seq(Unit))
        /\ Len(Append(es, u)) = Len(qq) + 1
        /\ Append(es, u)[Len(qq) + 1] = u
        /\ \A i \in 1 .. Len(qq) : Append(es, u)[i] = es[i]
    BY <2>3, <2>4, AppendProperties
  <2>7. \A i \in 1 .. Len(qq) + 1 : UnitsOfLists(aq)[i] = Append(es, u)[i]
    <3> TAKE i \in 1 .. Len(qq) + 1
    <3>1. CASE i = Len(qq) + 1
      BY <3>1, <2>2, <2>5, <2>6 DEF u
    <3>2. CASE i # Len(qq) + 1
      <4>1. i \in 1 .. Len(qq)
        BY <3>2, <2>2
      <4> QED BY <4>1, <2>2, <2>3, <2>5, <2>6
    <3> QED BY <3>1, <3>2
  <2>8. UnitsOfLists(aq) = Append(es, u)
    BY <2>5, <2>6, <2>7, SeqEqual
  <2>9. FlattenSeq(Append(es, u)) = FlattenSeq(es) \o u
    BY <2>3, <2>4, FlattenAppend
  <2>10. FlattenSeq(aq) = FlattenSeq(qq) \o x
    BY <2>1, FlattenAppend DEF aq
  <2>11. FlattenSeq(qq) \in Seq(Piece)
    BY <2>1, FlattenTyped
  <2>12. AllUnits(FlattenSeq(qq) \o x) = AllUnits(FlattenSeq(qq)) \o u
    BY <2>11, AllUnitsConcat DEF u
  <2>13. AllUnits(FlattenSeq(aq)) = FlattenSeq(UnitsOfLists(aq))
    BY <2>1, <2>8, <2>9, <2>10, <2>12
  <2> QED BY <2>2, <2>13 DEF aq
<1>3. Z = Seq(Seq(Piece))
  <2> Z \in SUBSET Seq(Seq(Piece)) OBVIOUS
  <2> HIDE DEF Z
  <2> QED BY <1>1, <1>2, SeqSetInduction
<1> QED BY <1>3

-----------------------------------------------------------------------------
(* What a segment on the bus brings and carries.                           *)

\* What segment s brings the one before it: its lo, unless that is a header.
Brings(s) ==
  IF s.valid /\ ~s.sop THEN Marked(Part("lo", s), s.eop = "lo") ELSE <<>>

\* What segment s carries itself: the rest of it.
Carries(s) ==
  IF ~s.valid THEN <<>>
  ELSE IF s.sop THEN BusUnits(s)
  ELSE Marked(When(s.eop # "lo", Part("hi", s)), s.eop = "hi")

\* What goes over from segment s to segment p before it.
Handed(p, s) == IF p.valid THEN Brings(s) ELSE <<>>

\* Segment s may stand behind segment p on the bus.
Follows(p, s) ==
  p.valid => /\ p.eop = "no" => s.valid /\ ~s.sop
             /\ p.eop # "no" => ~s.valid \/ s.sop

\* Without an end there is no mark.
LEMMA MarkedOpen == ASSUME NEW u PROVE Marked(u, FALSE) = u
BY DEF Marked

\* What a segment brings is a list of units.
LEMMA BringsTyped ==
  ASSUME NEW s \in Segment PROVE Brings(s) \in Seq(Unit)
<1>1. Part("lo", s) \in Seq(Unit) /\ Part("lo", s) # <<>>
  BY PartTyped, PlainIsUnits
<1>2. (s.eop = "lo") \in BOOLEAN
  OBVIOUS
<1>3. Marked(Part("lo", s), s.eop = "lo") \in Seq(Unit)
  BY <1>1, <1>2, MarkedTyped
<1> QED BY <1>3 DEF Brings

\* A segment's units before its end is marked.
BusBody(s) ==
  <<[part |-> IF s.sop THEN "hdr" ELSE "lo", id |-> s.id, eop |-> FALSE]>>
    \o When(s.eop # "lo", Part("hi", s))

\* The units of a segment on the bus before the mark.
LEMMA BusBodyTyped ==
  ASSUME NEW s \in Segment
  PROVE  /\ BusBody(s) \in Seq(Plain) /\ BusBody(s) # <<>>
         /\ BusBody(s) = Part(IF s.sop THEN "hdr" ELSE "lo", s)
                           \o When(s.eop # "lo", Part("hi", s))
<1> DEFINE u == Part(IF s.sop THEN "hdr" ELSE "lo", s)
<1> DEFINE v == When(s.eop # "lo", Part("hi", s))
<1>1. u \in Seq(Plain) /\ Len(u) = 1
  BY DEF Part, Segment, Plain, Unit
<1>2. v \in Seq(Plain)
  BY PartTyped DEF When
<1>3. BusBody(s) = u \o v
  BY DEF BusBody, Part
<1> HIDE DEF u, v
<1>4. u \o v \in Seq(Plain) /\ Len(u \o v) = 1 + Len(v) /\ Len(v) \in Nat
  <2>1. u \o v \in Seq(Plain) /\ Len(u \o v) = Len(u) + Len(v)
    BY ONLY <1>1, <1>2, ConcatProperties
  <2> QED BY ONLY <1>1, <1>2, <2>1, LenProperties
<1>5. u \o v # <<>>
  BY <1>4
<1> QED BY <1>3, <1>4, <1>5 DEF u, v

\* The units of a segment on the bus are its body, marked.
LEMMA BusUnitsTyped ==
  ASSUME NEW s \in Segment
  PROVE  /\ BusUnits(s) \in Seq(Unit)
         /\ s.valid => BusUnits(s) = Marked(BusBody(s), s.eop # "no")
<1>1. BusBody(s) \in Seq(Unit) /\ BusBody(s) # <<>>
  BY BusBodyTyped, PlainIsUnits
<1>2. (s.eop # "no") \in BOOLEAN
  OBVIOUS
<1>3. Marked(BusBody(s), s.eop # "no") \in Seq(Unit)
  BY <1>1, <1>2, MarkedTyped
<1>4. s.valid => BusUnits(s) = Marked(BusBody(s), s.eop # "no")
  BY DEF BusUnits, BusBody
<1>5. ~s.valid => BusUnits(s) = <<>>
  BY DEF BusUnits
<1>6. BusUnits(s) \in Seq(Unit)
  <2> DEFINE m == Marked(BusBody(s), s.eop # "no")
  <2>1. m \in Seq(Unit) /\ (s.valid => BusUnits(s) = m)
    BY <1>3, <1>4
  <2> HIDE DEF m
  <2>2. CASE s.valid
    BY <2>1, <2>2
  <2>3. CASE ~s.valid
    <3>1. BusUnits(s) = <<>>
      BY <1>5, <2>3
    <3> QED BY <3>1
  <2> QED BY <2>2, <2>3
<1> QED BY <1>4, <1>6

\* What a segment carries is a list of units.
LEMMA CarriesTyped ==
  ASSUME NEW s \in Segment PROVE Carries(s) \in Seq(Unit)
<1>1. Part("hi", s) \in Seq(Unit) /\ Part("hi", s) # <<>>
  BY PartTyped, PlainIsUnits
<1>2. (s.eop = "hi") \in BOOLEAN
  OBVIOUS
<1> DEFINE v == When(s.eop # "lo", Part("hi", s))
<1>3. v \in Seq(Unit) /\ (v # <<>> \/ ~(s.eop = "hi"))
  BY <1>1 DEF When
<1> HIDE DEF v
<1>4. Marked(v, s.eop = "hi") \in Seq(Unit)
  BY <1>2, <1>3, MarkedTyped
<1>5. Marked(When(s.eop # "lo", Part("hi", s)), s.eop = "hi") \in Seq(Unit)
  BY <1>4 DEF v
<1> QED BY <1>5, BusUnitsTyped DEF Carries

\* A segment's units are what it brings the one before it, then its own.
LEMMA BusUnitsSplit ==
  ASSUME NEW s \in Segment PROVE BusUnits(s) = Brings(s) \o Carries(s)
<1>1. CASE ~s.valid
  BY <1>1 DEF BusUnits, Brings, Carries
<1>2. CASE s.valid /\ s.sop
  <2>1. Brings(s) = <<>> /\ Carries(s) = BusUnits(s)
    BY <1>2 DEF Brings, Carries
  <2> QED BY <2>1, BusUnitsTyped, ConcatEmptySeq
<1>3. CASE s.valid /\ ~s.sop
  <2> DEFINE l == Part("lo", s)
  <2> DEFINE h == Part("hi", s)
  <2>1. /\ l \in Seq(Unit) /\ l # <<>> /\ h \in Seq(Unit) /\ h # <<>>
    BY PartTyped, PlainIsUnits
  <2>2. BusUnits(s) = Marked(l \o When(s.eop # "lo", h), s.eop # "no")
    BY <1>3, BusUnitsTyped, BusBodyTyped
  <2>3. Brings(s) = Marked(l, s.eop = "lo")
    BY <1>3 DEF Brings
  <2>4. Carries(s) = Marked(When(s.eop # "lo", h), s.eop = "hi")
    BY <1>3 DEF Carries
  <2>5. s.eop \in {"no", "lo", "hi"}
    BY DEF Segment
  <2> HIDE DEF l, h
  <2>6. CASE s.eop = "lo"
    <3>1. BusUnits(s) = Marked(l \o <<>>, TRUE) /\ Brings(s) = Marked(l, TRUE)
          /\ Carries(s) = Marked(<<>>, FALSE)
      BY <2>2, <2>3, <2>4, <2>6 DEF When
    <3>2. Marked(l, TRUE) \in Seq(Unit)
      BY <2>1, MarkedTyped
    <3> QED BY <3>1, <3>2, <2>1, ConcatEmptySeq, MarkedOpen
  <2>7. CASE s.eop = "hi"
    <3>1. BusUnits(s) = Marked(l \o h, TRUE) /\ Brings(s) = Marked(l, FALSE)
          /\ Carries(s) = Marked(h, TRUE)
      BY <2>2, <2>3, <2>4, <2>7 DEF When
    <3>2. Marked(l \o h, TRUE) = l \o Marked(h, TRUE)
      BY <2>1, MarkedConcat
    <3> QED BY <3>1, <3>2, MarkedOpen
  <2>8. CASE s.eop = "no"
    <3>1. BusUnits(s) = Marked(l \o h, FALSE) /\ Brings(s) = Marked(l, FALSE)
          /\ Carries(s) = Marked(h, FALSE)
      BY <2>2, <2>3, <2>4, <2>8 DEF When
    <3> QED BY <3>1, MarkedOpen
  <2> QED BY <2>5, <2>6, <2>7, <2>8
<1> QED BY <1>1, <1>2, <1>3

-----------------------------------------------------------------------------
(* What a segment makes.                                                   *)

\* A realigned segment carries a header or data.
LEMMA JoinedTyped ==
  ASSUME NEW s \in Segment, NEW n \in Segment, s.valid, Leaves(s, n)
  PROVE  Joined(s, n) \in Piece
<1> DEFINE d == When(s.eop # "lo", Part("hi", s))
<1> DEFINE l == When(s.eop = "no", Part("lo", n))
<1>1. d \in Seq(Plain) /\ l \in Seq(Plain)
  BY PartTyped DEF When
<1>2. s.sop \/ d # <<>>
  BY PartTyped DEF Leaves, When
<1>3. Joined(s, n) = [sop |-> s.sop, eop |-> s.eop # "no" \/ n.eop = "lo",
                      hdr |-> s.id, data |-> d \o l]
  BY DEF Joined
<1>4. s.sop \in BOOLEAN /\ s.id \in Ids
  BY DEF Segment
<1>5. (s.eop # "no" \/ n.eop = "lo") \in BOOLEAN
  OBVIOUS
<1> DEFINE e == s.eop # "no" \/ n.eop = "lo"
<1> HIDE DEF d, l, e
<1>6. d \o l \in Seq(Plain)
  BY <1>1, ConcatProperties
<1>7. d # <<>> => d \o l # <<>>
  BY <1>1
<1>8. Joined(s, n) = [sop |-> s.sop, eop |-> e, hdr |-> s.id, data |-> d \o l]
  BY <1>3 DEF e
<1>9. e \in BOOLEAN
  BY <1>5 DEF e
<1> QED BY <1>2, <1>4, <1>6, <1>7, <1>8, <1>9 DEF Piece

\* A realigned segment has what its segment carries and the next one brings.
LEMMA JoinedUnits ==
  ASSUME NEW s \in Segment, NEW n \in Segment, s.valid, Leaves(s, n),
         Follows(s, n)
  PROVE  Units(Joined(s, n)) = Carries(s) \o Brings(n)
<1> DEFINE h == When(s.sop, Part("hdr", s))
<1> DEFINE d == When(s.eop # "lo", Part("hi", s))
<1> DEFINE l == When(s.eop = "no", Part("lo", n))
<1> DEFINE ends == s.eop # "no" \/ n.eop = "lo"
<1>1. /\ h \in Seq(Unit) /\ d \in Seq(Unit) /\ l \in Seq(Unit)
      /\ s.sop => h = Part("hdr", s) /\ h # <<>>
      /\ ~s.sop => h = <<>>
      /\ s.eop # "lo" => d # <<>>
      /\ s.eop = "lo" => d = <<>>
      /\ s.eop = "no" => l = Part("lo", n) /\ l # <<>>
      /\ s.eop # "no" => l = <<>>
  BY PartTyped, PlainIsUnits DEF When
<1>2. Units(Joined(s, n)) = Marked(h \o (d \o l), ends)
  BY DEF Units, Joined, Part
<1>3. Carries(s) = IF s.sop THEN Marked(h \o d, s.eop # "no")
                   ELSE Marked(d, s.eop = "hi")
  <2>1. CASE s.sop
    <3>1. Carries(s) = Marked(BusBody(s), s.eop # "no")
      BY <2>1, BusUnitsTyped DEF Carries
    <3>2. BusBody(s) = h \o d
      BY <2>1, BusBodyTyped DEF When
    <3> HIDE DEF h, d
    <3> QED BY <2>1, <3>1, <3>2
  <2>2. CASE ~s.sop
    BY <2>2 DEF Carries
  <2> QED BY <2>1, <2>2
<1>4. s.eop \in {"no", "lo", "hi"} /\ s.sop \in BOOLEAN /\ n.valid \in BOOLEAN
      /\ n.sop \in BOOLEAN
  BY DEF Segment
<1>5. Brings(n) \in Seq(Unit)
  BY BringsTyped
<1>6. s.eop # "no" => Brings(n) = <<>>
  BY DEF Follows, Brings
<1>7. s.eop = "no" => n.valid /\ ~n.sop
  BY DEF Follows
<1>8. s.eop = "no" => Brings(n) = Marked(l, n.eop = "lo")
  BY <1>1, <1>7 DEF Brings
<1>9. s.eop = "lo" => s.sop
  BY DEF Leaves
<1> HIDE DEF h, d, l
<1>10. CASE s.eop = "hi" /\ s.sop
  <2>1. Units(Joined(s, n)) = Marked(h \o (d \o <<>>), TRUE)
    BY <1>1, <1>2, <1>10
  <2>2. Carries(s) = Marked(h \o d, TRUE)
    BY <1>3, <1>10
  <2>3. d \o <<>> = d
    BY <1>1, ConcatEmptySeq
  <2>4. Carries(s) \in Seq(Unit)
    BY CarriesTyped
  <2> QED BY <1>6, <1>10, <2>1, <2>2, <2>3, <2>4, ConcatEmptySeq
<1>11. CASE s.eop = "hi" /\ ~s.sop
  <2>1. Units(Joined(s, n)) = Marked(<<>> \o (d \o <<>>), TRUE)
    BY <1>1, <1>2, <1>11
  <2>2. Carries(s) = Marked(d, TRUE)
    BY <1>3, <1>11
  <2>3. d \o <<>> = d /\ <<>> \o d = d
    BY <1>1, ConcatEmptySeq
  <2>4. Carries(s) \in Seq(Unit)
    BY CarriesTyped
  <2> QED BY <1>6, <1>11, <2>1, <2>2, <2>3, <2>4, ConcatEmptySeq
<1>12. CASE s.eop = "lo"
  <2>1. Units(Joined(s, n)) = Marked(h \o (d \o <<>>), TRUE)
    BY <1>1, <1>2, <1>12
  <2>2. Carries(s) = Marked(h \o d, TRUE)
    BY <1>3, <1>9, <1>12
  <2>3. d \o <<>> = d
    BY <1>1, ConcatEmptySeq
  <2>4. Carries(s) \in Seq(Unit)
    BY CarriesTyped
  <2> QED BY <1>6, <1>12, <2>1, <2>2, <2>3, <2>4, ConcatEmptySeq
<1>13. CASE s.eop = "no"
  <2> DEFINE m == n.eop = "lo"
  <2>1. Units(Joined(s, n)) = Marked(h \o (d \o l), m)
    BY <1>2, <1>13
  <2>2. Carries(s) = h \o d
    <3>1. CASE s.sop
      BY <1>3, <1>13, <3>1, MarkedOpen
    <3>2. CASE ~s.sop
      <4>1. Carries(s) = d
        BY <1>3, <1>13, <3>2, MarkedOpen
      <4> QED BY <1>1, <3>2, <4>1, ConcatEmptySeq
    <3> QED BY <3>1, <3>2
  <2>3. Brings(n) = Marked(l, m)
    BY <1>8, <1>13
  <2>4. l # <<>> /\ l \in Seq(Unit) /\ h \in Seq(Unit) /\ d \in Seq(Unit)
    BY <1>1, <1>13
  <2>5. m \in BOOLEAN
    OBVIOUS
  <2> HIDE DEF m
  <2>6. h \o (d \o l) = (h \o d) \o l
    <3>1. Regroups(h, d, l)
      BY ONLY <2>4, Regroup, Zenon
    <3> QED BY ONLY <3>1 DEF Regroups
  <2>7. h \o d \in Seq(Unit)
    BY <2>4, ConcatProperties
  <2>8. Marked((h \o d) \o l, m) = (h \o d) \o Marked(l, m)
    BY ONLY <2>4, <2>5, <2>7, MarkedConcat
  <2> QED BY <2>1, <2>2, <2>3, <2>6, <2>8
<1> QED BY <1>4, <1>10, <1>11, <1>12, <1>13

\* Segment s is stuck before n: it goes on, and n is not there yet.
Stuck(s, n) == s.valid /\ s.eop = "no" /\ ~n.valid

\* What a segment makes is a list of pieces.
LEMMA MovedTyped ==
  ASSUME NEW s \in Segment, NEW n \in Segment
  PROVE  Moved(s, n) \in Seq(Piece)
<1>1. CASE s.valid /\ Leaves(s, n)
  BY <1>1, JoinedTyped DEF Moved, When
<1>2. CASE ~(s.valid /\ Leaves(s, n))
  BY <1>2 DEF Moved, When
<1> QED BY <1>1, <1>2

\* What a segment makes has what it carries, and what the next one brings.
LEMMA MovedUnits ==
  ASSUME NEW s \in Segment, NEW n \in Segment, Follows(s, n)
  PROVE  AllUnits(Moved(s, n)) = Carries(s) \o Handed(s, n)
<1>0. Carries(s) \in Seq(Unit) /\ Brings(n) \in Seq(Unit)
  BY CarriesTyped, BringsTyped
<1>1. CASE s.valid /\ Leaves(s, n)
  <2>1. Moved(s, n) = <<Joined(s, n)>> /\ Handed(s, n) = Brings(n)
    BY <1>1 DEF Moved, When, Handed
  <2>2. Joined(s, n) \in Piece
    BY <1>1, JoinedTyped
  <2>3. Units(Joined(s, n)) = Carries(s) \o Brings(n)
    BY <1>1, JoinedUnits
  <2> QED BY <2>1, <2>2, <2>3, AllUnitsOne
<1>2. CASE s.valid /\ ~Leaves(s, n)
  <2>1. s.eop \in {"no", "lo", "hi"} /\ s.sop \in BOOLEAN
    BY DEF Segment
  <2>2. s.eop = "lo" /\ ~s.sop
    BY <1>2, <2>1 DEF Follows, Leaves
  <2>3. Carries(s) = <<>>
    BY <1>2, <2>2 DEF Carries, When, Marked
  <2>4. Handed(s, n) = <<>>
    BY <1>2, <2>2 DEF Follows, Handed, Brings
  <2>5. Moved(s, n) = <<>>
    BY <1>2 DEF Moved, When
  <2> QED BY <2>3, <2>4, <2>5, AllUnitsEmpty
<1>3. CASE ~s.valid
  <2>1. Carries(s) = <<>> /\ Handed(s, n) = <<>> /\ Moved(s, n) = <<>>
    BY <1>3 DEF Carries, Handed, Moved, When
  <2> QED BY <2>1, AllUnitsEmpty
<1> QED BY <1>1, <1>2, <1>3

\* A stuck segment makes nothing.
LEMMA MovedStuck ==
  ASSUME NEW s \in Segment, NEW n \in Segment, Stuck(s, n)
  PROVE  Moved(s, n) = <<>>
BY DEF Moved, When, Leaves, Stuck

(***************************************************************************)
(* Two lists of sequences with the same elements, cut differently: what    *)
(* one is ahead of the other at the start and at the end.                  *)
(***************************************************************************)
LEMMA Telescope ==
  ASSUME NEW X, NEW aa \in Seq(Seq(X)), NEW bb \in Seq(Seq(X)),
         Len(aa) = Len(bb), aa # <<>>,
         NEW m \in [0 .. Len(aa) -> Seq(X)],
         \A i \in 1 .. Len(aa) : m[i - 1] \o aa[i] = bb[i] \o m[i]
  PROVE  m[0] \o FlattenSeq(aa) = FlattenSeq(bb) \o m[Len(aa)]
<1> DEFINE n == Len(aa)
<1>1. n \in Nat \ {0} /\ Len(bb) = n
  BY EmptySeq, LenProperties
<1>2. PICK f : FlatTo(f, aa, n) /\ FlattenSeq(aa) = f[n]
  BY <1>1, FlattenIs
<1>3. PICK g : FlatTo(g, bb, n) /\ FlattenSeq(bb) = g[n]
  BY <1>1, FlattenIs
<1>4. /\ \A i \in 1 .. n : f[i] \in Seq(X)
      /\ \A i \in 1 .. n : g[i] \in Seq(X)
  BY <1>1, <1>2, <1>3, FlatTyped
<1>5. \A i \in 1 .. n : aa[i] \in Seq(X) /\ bb[i] \in Seq(X)
  BY <1>1, ElementOfSeq
<1>6. \A i \in 0 .. n : m[i] \in Seq(X)
  OBVIOUS
<1>7. \A i \in 1 .. n : m[i - 1] \o aa[i] = bb[i] \o m[i]
  OBVIOUS
<1> HIDE DEF n
<1> DEFINE S == {j \in Nat : j \in 1 .. n => m[0] \o f[j] = g[j] \o m[j]}
<1>8. 0 \in S
  OBVIOUS
<1>9. ASSUME NEW j \in S PROVE j + 1 \in S
  <2>1. j \in Nat /\ j + 1 \in Nat /\ (j + 1) - 1 = j
    OBVIOUS
  <2> SUFFICES ASSUME j + 1 \in 1 .. n
               PROVE  m[0] \o f[j + 1] = g[j + 1] \o m[j + 1]
    BY <2>1
  <2>2. CASE j = 0
    <3>1. f[1] = aa[1] /\ g[1] = bb[1]
      <4>1. 1 \in 1 .. n
        BY <1>1
      <4> QED BY ONLY <1>2, <1>3, <4>1, FlatFirst
    <3>2. m[0] \o aa[1] = bb[1] \o m[1]
      <4>1. 1 \in 1 .. n /\ 1 - 1 = 0
        BY <1>1
      <4>2. m[1 - 1] \o aa[1] = bb[1] \o m[1]
        BY <1>7, <4>1
      <4> QED BY <4>1, <4>2
    <3>3. j + 1 = 1
      BY <2>2
    <3> QED BY ONLY <3>1, <3>2, <3>3
  <2>3. CASE j # 0
    <3>1. j \in 1 .. n /\ j + 1 # 1
      BY <2>1, <2>3, <1>1
    <3>2. f[j + 1] = f[j] \o aa[j + 1]
      <4>1. j \in Nat \ {0} /\ j + 1 \in 1 .. n
        BY <2>1, <2>3
      <4> QED BY ONLY <1>2, <4>1, FlatNext
    <3>3. g[j + 1] = g[j] \o bb[j + 1]
      <4>1. j \in Nat \ {0} /\ j + 1 \in 1 .. n
        BY <2>1, <2>3
      <4> QED BY ONLY <1>3, <4>1, FlatNext
    <3>4. m[j] \o aa[j + 1] = bb[j + 1] \o m[j + 1]
      BY <1>7, <2>1
    <3>5. m[0] \o f[j] = g[j] \o m[j]
      BY <3>1
    <3> DEFINE m0 == m[0]
    <3> DEFINE mj == m[j]
    <3> DEFINE mk == m[j + 1]
    <3> DEFINE fj == f[j]
    <3> DEFINE gj == g[j]
    <3> DEFINE a == aa[j + 1]
    <3> DEFINE b == bb[j + 1]
    <3>6. /\ m0 \in Seq(X) /\ mj \in Seq(X) /\ mk \in Seq(X)
          /\ fj \in Seq(X) /\ gj \in Seq(X) /\ a \in Seq(X) /\ b \in Seq(X)
      <4>1. 0 \in 0 .. n /\ j \in 0 .. n /\ j + 1 \in 0 .. n
        BY <1>1, <3>1
      <4> QED BY <1>4, <1>5, <1>6, <3>1, <4>1
    <3>7. mj \o a = b \o mk /\ m0 \o fj = gj \o mj
      BY <3>4, <3>5
    <3> HIDE DEF m0, mj, mk, fj, gj, a, b
    <3>8. (m0 \o fj) \o a = m0 \o (fj \o a)
      <4>1. m0 \in Seq(X) /\ fj \in Seq(X) /\ a \in Seq(X)
        BY <3>6
      <4>2. Regroups(m0, fj, a)
        BY ONLY <4>1, Regroup, Zenon
      <4> QED BY ONLY <4>2 DEF Regroups
    <3>9. (gj \o mj) \o a = gj \o (mj \o a)
      <4>1. gj \in Seq(X) /\ mj \in Seq(X) /\ a \in Seq(X)
        BY <3>6
      <4>2. Regroups(gj, mj, a)
        BY ONLY <4>1, Regroup, Zenon
      <4> QED BY ONLY <4>2 DEF Regroups
    <3>10. (gj \o b) \o mk = gj \o (b \o mk)
      <4>1. gj \in Seq(X) /\ b \in Seq(X) /\ mk \in Seq(X)
        BY <3>6
      <4>2. Regroups(gj, b, mk)
        BY ONLY <4>1, Regroup, Zenon
      <4> QED BY ONLY <4>2 DEF Regroups
    <3>11. m0 \o (fj \o a) = (gj \o b) \o mk
      BY ONLY <3>7, <3>8, <3>9, <3>10
    <3> QED BY <3>2, <3>3, <3>11 DEF m0, mj, mk, fj, gj, a, b
  <2> QED BY <2>2, <2>3
<1>10. S = Nat
  <2> S \in SUBSET Nat OBVIOUS
  <2> HIDE DEF S
  <2> QED BY <1>8, <1>9, NatSetInduction
<1>11. m[0] \o f[n] = g[n] \o m[n]
  <2>1. n \in Nat /\ n \in 1 .. n
    BY <1>1
  <2>2. n \in S
    <3> HIDE DEF S
    <3> QED BY <1>10, <2>1
  <2> QED BY <2>1, <2>2
<1> QED BY <1>2, <1>3, <1>11 DEF n

\* Empty lists join to the empty list.
LEMMA FlattenEmpties ==
  ASSUME NEW ss \in Seq({<<>>}) PROVE FlattenSeq(ss) = <<>>
<1>1. {<<>>} \subseteq Seq({})
  OBVIOUS
<1>2. ss \in Seq(Seq({}))
  BY <1>1, SeqMonotonic
<1>3. FlattenSeq(ss) \in Seq({})
  BY <1>2, FlattenTyped
<1>4. \A t \in Seq({}) : t = <<>>
  <2> TAKE t \in Seq({})
  <2>1. Len(t) = 0
    <3> SUFFICES ASSUME Len(t) # 0 PROVE FALSE
      OBVIOUS
    <3>1. t[1] \in {}
      BY ElementOfSeq, LenProperties
    <3> QED BY <3>1
  <2> QED BY <2>1, EmptySeq
<1> QED BY <1>3, <1>4

-----------------------------------------------------------------------------
(* What a whole beat makes.                                                *)

(***************************************************************************)
(* What a beat held in the realignment still has for the FIFO: of its      *)
(* first valid segment, the part that did not go over to the beat before.  *)
(***************************************************************************)
Own(rc, i) ==
  IF i > 1 /\ rc[i - 1].valid THEN BusUnits(rc[i]) ELSE Carries(rc[i])

\* The units of the beat held: each segment's, in order.
OwnOfEach(rc) == [i \in DOMAIN rc |-> Own(rc, i)]
HeldUnits(rc) == FlattenSeq(OwnOfEach(rc))

\* A segment's own units: what went over to the one before it, if that is
\* still there, and what it carries.
LEMMA OwnIs ==
  ASSUME NEW rc \in Seq(Segment), NEW i \in 1 .. Len(rc)
  PROVE  /\ Own(rc, i) \in Seq(Unit)
         /\ i = 1 => Own(rc, i) = Carries(rc[i])
         /\ i > 1 => Own(rc, i) = Handed(rc[i - 1], rc[i]) \o Carries(rc[i])
<1>1. Len(rc) \in Nat /\ rc[i] \in Segment
  BY ElementOfSeq, LenProperties
<1>2. /\ BusUnits(rc[i]) \in Seq(Unit) /\ Carries(rc[i]) \in Seq(Unit)
      /\ BusUnits(rc[i]) = Brings(rc[i]) \o Carries(rc[i])
  BY <1>1, BusUnitsTyped, CarriesTyped, BusUnitsSplit
<1>3. Own(rc, i) \in Seq(Unit)
  BY <1>2 DEF Own
<1>4. i = 1 => Own(rc, i) = Carries(rc[i])
  BY DEF Own
<1>5. ASSUME i > 1
      PROVE  Own(rc, i) = Handed(rc[i - 1], rc[i]) \o Carries(rc[i])
  <2>1. CASE rc[i - 1].valid
    BY <1>2, <1>5, <2>1 DEF Own, Handed
  <2>2. CASE ~rc[i - 1].valid
    <3>1. <<>> \o Carries(rc[i]) = Carries(rc[i])
      BY <1>2, ConcatEmptySeq
    <3> QED BY <3>1, <1>5, <2>2 DEF Own, Handed
  <2> QED BY <2>1, <2>2
<1> QED BY <1>3, <1>4, <1>5

\* One list of units for each segment of the beat.
LEMMA OwnTyped ==
  ASSUME NEW rc \in Seq(Segment)
  PROVE  /\ OwnOfEach(rc) \in Seq(Seq(Unit))
         /\ Len(OwnOfEach(rc)) = Len(rc)
         /\ \A i \in 1 .. Len(rc) : OwnOfEach(rc)[i] = Own(rc, i)
<1>1. DOMAIN rc = 1 .. Len(rc) /\ Len(rc) \in Nat
  BY LenProperties
<1>2. \A i \in 1 .. Len(rc) : Own(rc, i) \in Seq(Unit)
  BY OwnIs
<1>3. OwnOfEach(rc) = [i \in 1 .. Len(rc) |-> Own(rc, i)]
  BY <1>1 DEF OwnOfEach
<1>4. [i \in 1 .. Len(rc) |-> Own(rc, i)] \in Seq(Seq(Unit))
  BY <1>1, <1>2, IsASeq
<1> QED BY <1>1, <1>3, <1>4

\* The units of a beat are units.
LEMMA HeldUnitsTyped ==
  ASSUME NEW rc \in Seq(Segment) PROVE HeldUnits(rc) \in Seq(Unit)
BY OwnTyped, FlattenTyped DEF HeldUnits

\* The segment after segment i of rc, x being the one behind the beat.
After(rc, x, i) == IF i = Len(rc) THEN x ELSE rc[i + 1]

\* What the segments of a beat make, x being behind the beat.
MovedOfEach(rc, x) == [i \in 1 .. Len(rc) |-> Moved(rc[i], After(rc, x, i))]

\* One list of pieces for each segment of the beat.
LEMMA MovedOfEachTyped ==
  ASSUME NEW rc \in Seq(Segment), NEW x \in Segment
  PROVE  /\ MovedOfEach(rc, x) \in Seq(Seq(Piece))
         /\ Len(MovedOfEach(rc, x)) = Len(rc)
         /\ \A i \in 1 .. Len(rc) :
              /\ MovedOfEach(rc, x)[i] = Moved(rc[i], After(rc, x, i))
              /\ rc[i] \in Segment /\ After(rc, x, i) \in Segment
<1>1. Len(rc) \in Nat
  BY LenProperties
<1>2. \A i \in 1 .. Len(rc) : rc[i] \in Segment
  BY ElementOfSeq
<1>3. \A i \in 1 .. Len(rc) : After(rc, x, i) \in Segment
  <2> TAKE i \in 1 .. Len(rc)
  <2>1. CASE i = Len(rc)
    BY <2>1 DEF After
  <2>2. CASE i # Len(rc)
    <3>1. i + 1 \in 1 .. Len(rc)
      BY <1>1, <2>2
    <3> QED BY <1>2, <2>2, <3>1 DEF After
  <2> QED BY <2>1, <2>2
<1>4. \A i \in 1 .. Len(rc) : Moved(rc[i], After(rc, x, i)) \in Seq(Piece)
  BY <1>2, <1>3, MovedTyped
<1>5. MovedOfEach(rc, x) \in Seq(Seq(Piece))
  BY <1>1, <1>4, IsASeq DEF MovedOfEach
<1> QED BY <1>1, <1>2, <1>3, <1>5 DEF MovedOfEach

\* What stands between the segments of rc: nothing before the first, what
\* goes over from each to the one before, what goes over from x at the end.
Gaps(rc, x) ==
  [i \in 0 .. Len(rc) |->
     IF i = 0 THEN <<>> ELSE Handed(rc[i], After(rc, x, i))]

\* The gaps are lists of units, the first one empty.
LEMMA GapsTyped ==
  ASSUME NEW rc \in Seq(Segment), NEW x \in Segment
  PROVE  /\ Gaps(rc, x) \in [0 .. Len(rc) -> Seq(Unit)]
         /\ Gaps(rc, x)[0] = <<>>
         /\ \A i \in 1 .. Len(rc) :
              /\ Gaps(rc, x)[i] = Handed(rc[i], After(rc, x, i))
              /\ Own(rc, i) = Gaps(rc, x)[i - 1] \o Carries(rc[i])
<1>1. Len(rc) \in Nat
  BY LenProperties
<1>2. \A i \in 1 .. Len(rc) : rc[i] \in Segment /\ After(rc, x, i) \in Segment
  BY MovedOfEachTyped
<1>3. \A i \in 1 .. Len(rc) : Handed(rc[i], After(rc, x, i)) \in Seq(Unit)
  BY <1>2, BringsTyped DEF Handed
<1>4. Gaps(rc, x)[0] = <<>>
  BY <1>1 DEF Gaps
<1>5. \A i \in 1 .. Len(rc) : Gaps(rc, x)[i] = Handed(rc[i], After(rc, x, i))
  BY <1>1 DEF Gaps
<1>6. Gaps(rc, x) \in [0 .. Len(rc) -> Seq(Unit)]
  BY <1>1, <1>3 DEF Gaps
<1>7. ASSUME NEW i \in 1 .. Len(rc)
      PROVE  Own(rc, i) = Gaps(rc, x)[i - 1] \o Carries(rc[i])
  <2>1. CASE i = 1
    <3>1. <<>> \o Carries(rc[i]) = Carries(rc[i])
      BY <1>2, CarriesTyped, ConcatEmptySeq
    <3>2. Gaps(rc, x)[i - 1] = <<>>
      BY <1>4, <2>1
    <3> QED BY <2>1, <3>1, <3>2, OwnIs
  <2>2. CASE i # 1
    <3>1. i > 1 /\ i - 1 \in 1 .. Len(rc) /\ i - 1 # Len(rc) /\ (i - 1) + 1 = i
      BY <1>1, <2>2
    <3>2. After(rc, x, i - 1) = rc[i]
      BY <3>1 DEF After
    <3>3. Gaps(rc, x)[i - 1] = Handed(rc[i - 1], rc[i])
      BY <1>5, <3>1, <3>2
    <3> QED BY <3>1, <3>3, OwnIs
  <2> QED BY <2>1, <2>2
<1> QED BY <1>4, <1>5, <1>6, <1>7

\* The units of the segments a beat makes, when what is behind it follows.
LEMMA AllMoved ==
  ASSUME NEW rc \in Seq(Segment), rc # <<>>, NEW x \in Segment,
         \A i \in 1 .. Len(rc) : Follows(rc[i], After(rc, x, i))
  PROVE  AllUnits(FlattenSeq(MovedOfEach(rc, x)))
           = HeldUnits(rc) \o Handed(rc[Len(rc)], x)
<1> DEFINE n == Len(rc)
<1> DEFINE pp == MovedOfEach(rc, x)
<1> DEFINE aa == UnitsOfLists(pp)
<1> DEFINE bb == OwnOfEach(rc)
<1> DEFINE m == Gaps(rc, x)
<1>1. n \in Nat \ {0}
  BY EmptySeq, LenProperties
<1>2. pp \in Seq(Seq(Piece)) /\ Len(pp) = n
  BY MovedOfEachTyped
<1>3. /\ aa \in Seq(Seq(Unit)) /\ Len(aa) = n
      /\ \A i \in 1 .. n : aa[i] = AllUnits(Moved(rc[i], After(rc, x, i)))
  <2>1. \A i \in 1 .. n : pp[i] = Moved(rc[i], After(rc, x, i))
    BY MovedOfEachTyped
  <2> HIDE DEF pp
  <2> QED BY <1>2, <2>1, UnitsOfListsTyped
<1>4. /\ bb \in Seq(Seq(Unit)) /\ Len(bb) = n
      /\ \A i \in 1 .. n : bb[i] = m[i - 1] \o Carries(rc[i])
  BY OwnTyped, GapsTyped
<1>5. /\ m \in [0 .. n -> Seq(Unit)] /\ m[0] = <<>>
      /\ \A i \in 1 .. n : m[i] = Handed(rc[i], After(rc, x, i))
  BY GapsTyped
<1>6. \A i \in 1 .. n : rc[i] \in Segment /\ After(rc, x, i) \in Segment
  BY MovedOfEachTyped
<1>7. ASSUME NEW i \in 1 .. n PROVE m[i - 1] \o aa[i] = bb[i] \o m[i]
  <2> DEFINE c == Carries(rc[i])
  <2> DEFINE m0 == m[i - 1]
  <2> DEFINE m1 == m[i]
  <2>1. aa[i] = c \o m1
    BY <1>3, <1>5, <1>6, MovedUnits
  <2>2. bb[i] = m0 \o c
    BY <1>4
  <2>3. m0 \in Seq(Unit) /\ c \in Seq(Unit) /\ m1 \in Seq(Unit)
    <3>1. i - 1 \in 0 .. n /\ i \in 0 .. n
      BY <1>1
    <3>2. m0 \in Seq(Unit) /\ m1 \in Seq(Unit)
      <4> HIDE DEF m
      <4> QED BY <1>5, <3>1
    <3> QED BY <1>6, <3>2, CarriesTyped
  <2> HIDE DEF c, m0, m1
  <2>4. (m0 \o c) \o m1 = m0 \o (c \o m1)
    <3>1. Regroups(m0, c, m1)
      BY ONLY <2>3, Regroup, Zenon
    <3> QED BY ONLY <3>1 DEF Regroups
  <2> QED BY ONLY <2>1, <2>2, <2>4 DEF m0, m1
<1>8. aa # <<>>
  BY <1>1, <1>3
<1>9. FlattenSeq(aa) \in Seq(Unit)
  BY <1>3, FlattenTyped
<1>10. AllUnits(FlattenSeq(pp)) = FlattenSeq(aa)
  BY <1>2, AllUnitsFlatten
<1>11. m[n] = Handed(rc[n], x)
  BY <1>1, <1>5 DEF After
<1>12. HeldUnits(rc) = FlattenSeq(bb)
  BY DEF HeldUnits
<1> HIDE DEF n, pp, aa, bb, m
<1>13. m[0] \o FlattenSeq(aa) = FlattenSeq(bb) \o m[Len(aa)]
  <2>1. /\ aa \in Seq(Seq(Unit)) /\ bb \in Seq(Seq(Unit)) /\ aa # <<>>
        /\ Len(aa) = Len(bb) /\ m \in [0 .. Len(aa) -> Seq(Unit)]
    BY <1>3, <1>4, <1>5, <1>8
  <2>2. \A i \in 1 .. Len(aa) : m[i - 1] \o aa[i] = bb[i] \o m[i]
    BY <1>3, <1>7
  <2> QED BY ONLY <2>1, <2>2, Telescope
<1>14. <<>> \o FlattenSeq(aa) = FlattenSeq(aa)
  BY ONLY <1>9, ConcatEmptySeq
<1>15. FlattenSeq(aa) = FlattenSeq(bb) \o m[n]
  BY ONLY <1>3, <1>5, <1>13, <1>14
<1>16. AllUnits(FlattenSeq(pp)) = HeldUnits(rc) \o Handed(rc[n], x)
  BY ONLY <1>10, <1>11, <1>12, <1>15
<1> QED BY ONLY <1>16 DEF n, pp

\* Two lists of lists that differ in the last one only, empty in one.
LEMMA FlattenLast ==
  ASSUME NEW X, NEW ss \in Seq(Seq(X)), NEW tt \in Seq(Seq(X)),
         Len(ss) = Len(tt), ss # <<>>, ss[Len(ss)] = <<>>,
         \A i \in 1 .. Len(ss) : i # Len(ss) => ss[i] = tt[i]
  PROVE  FlattenSeq(tt) = FlattenSeq(ss) \o tt[Len(ss)]
<1> DEFINE n == Len(ss)
<1>1. n \in Nat \ {0} /\ Len(tt) = n
  BY EmptySeq, LenProperties
<1>2. PICK front \in Seq(Seq(X)), e \in Seq(X) : ss = Append(front, e)
  BY SequenceEmptyOrAppend
<1>3. n = Len(front) + 1 /\ Len(front) \in Nat
      /\ \A i \in 1 .. Len(front) : ss[i] = front[i]
      /\ ss[n] = e
  BY <1>2
<1>4. tt[n] \in Seq(X)
  BY <1>1, ElementOfSeq
<1> DEFINE l == tt[n]
<1> HIDE DEF l
<1>5. l \in Seq(X)
  BY <1>4 DEF l
<1>6. /\ Append(front, l) \in Seq(Seq(X)) /\ Len(Append(front, l)) = n
      /\ Append(front, l)[n] = l
      /\ \A i \in 1 .. Len(front) : Append(front, l)[i] = front[i]
  BY <1>3, <1>5
<1>7. \A i \in 1 .. n : tt[i] = Append(front, l)[i]
  <2> TAKE i \in 1 .. n
  <2>1. CASE i = n
    BY <1>6, <2>1 DEF l
  <2>2. CASE i # n
    <3>1. i \in 1 .. Len(front)
      BY <1>3, <2>2
    <3> QED BY <1>3, <1>6, <2>2, <3>1
  <2> QED BY <2>1, <2>2
<1>8. tt = Append(front, l)
  BY <1>1, <1>6, <1>7, SeqEqual
<1>9. FlattenSeq(tt) = FlattenSeq(front) \o l
  BY <1>2, <1>5, <1>8, FlattenAppend
<1>10. FlattenSeq(ss) = FlattenSeq(front) \o <<>>
  <2>1. e = <<>> /\ <<>> \in Seq(X) /\ front \in Seq(Seq(X))
    BY <1>2, <1>3
  <2> QED BY ONLY <1>2, <2>1, FlattenAppend
<1>11. FlattenSeq(front) \in Seq(X)
  BY <1>2, FlattenTyped
<1>12. FlattenSeq(ss) = FlattenSeq(front)
  BY <1>10, <1>11, ConcatEmptySeq
<1> QED BY <1>9, <1>12 DEF l

\* Lists that are empty but for the last one.
LEMMA FlattenOnlyLast ==
  ASSUME NEW X, NEW tt \in Seq(Seq(X)), tt # <<>>,
         \A i \in 1 .. Len(tt) : i # Len(tt) => tt[i] = <<>>
  PROVE  FlattenSeq(tt) = tt[Len(tt)]
<1> DEFINE n == Len(tt)
<1> DEFINE ss == [i \in 1 .. n |-> <<>>]
<1>1. n \in Nat \ {0}
  BY EmptySeq, LenProperties
<1>2. /\ ss \in Seq({<<>>}) /\ Len(ss) = n
      /\ \A i \in 1 .. n : ss[i] = <<>>
  BY <1>1
<1>3. {<<>>} \subseteq Seq(X)
  OBVIOUS
<1>4. ss \in Seq(Seq(X))
  BY <1>2, <1>3, SeqMonotonic
<1>5. ss # <<>> /\ ss[n] = <<>>
  <2>1. n \in 1 .. n
    BY <1>1
  <2> HIDE DEF ss
  <2>2. Len(ss) # 0
    BY <1>1, <1>2
  <2>3. ss[n] = <<>>
    BY <1>2, <2>1
  <2> QED BY <2>2, <2>3
<1>6. tt[n] \in Seq(X)
  BY <1>1, ElementOfSeq
<1> HIDE DEF ss
<1>7. FlattenSeq(tt) = FlattenSeq(ss) \o tt[n]
  <2>1. \A i \in 1 .. Len(ss) : i # Len(ss) => ss[i] = tt[i]
    BY <1>2
  <2>2. ss \in Seq(Seq(X)) /\ tt \in Seq(Seq(X)) /\ Len(ss) = Len(tt)
        /\ ss # <<>> /\ ss[Len(ss)] = <<>>
    BY <1>2, <1>4, <1>5
  <2>3. FlattenSeq(tt) = FlattenSeq(ss) \o tt[Len(ss)]
    BY ONLY <2>1, <2>2, FlattenLast
  <2> QED BY <1>2, <2>3
<1>8. FlattenSeq(ss) = <<>>
  BY <1>2, FlattenEmpties
<1>9. <<>> \o tt[n] = tt[n]
  BY <1>6, ConcatEmptySeq
<1> QED BY <1>7, <1>8, <1>9

\* The same when the last segment is stuck: its own units stay.
LEMMA AllMovedButLast ==
  ASSUME NEW rc \in Seq(Segment), rc # <<>>, NEW x \in Segment,
         \A i \in 1 .. Len(rc) :
           i # Len(rc) => Follows(rc[i], After(rc, x, i)),
         Stuck(rc[Len(rc)], x)
  PROVE  AllUnits(FlattenSeq(MovedOfEach(rc, x))) \o Carries(rc[Len(rc)])
           = HeldUnits(rc)
<1> DEFINE n == Len(rc)
<1> DEFINE pp == MovedOfEach(rc, x)
<1> DEFINE ee == UnitsOfLists(pp)
<1> DEFINE c == Carries(rc[n])
<1> DEFINE aa == [i \in 1 .. n |-> IF i = n THEN c ELSE ee[i]]
<1> DEFINE bb == OwnOfEach(rc)
<1> DEFINE g == Gaps(rc, x)
<1> DEFINE m == [i \in 0 .. n |-> IF i = n THEN <<>> ELSE g[i]]
<1>1. n \in Nat \ {0}
  BY EmptySeq, LenProperties
<1>2. pp \in Seq(Seq(Piece)) /\ Len(pp) = n
  BY MovedOfEachTyped
<1>3. \A i \in 1 .. n : rc[i] \in Segment /\ After(rc, x, i) \in Segment
  BY MovedOfEachTyped
<1>4. /\ ee \in Seq(Seq(Unit)) /\ Len(ee) = n
      /\ \A i \in 1 .. n : ee[i] = AllUnits(Moved(rc[i], After(rc, x, i)))
  <2>1. \A i \in 1 .. n : pp[i] = Moved(rc[i], After(rc, x, i))
    BY MovedOfEachTyped
  <2> HIDE DEF pp
  <2> QED BY <1>2, <2>1, UnitsOfListsTyped
<1>5. /\ bb \in Seq(Seq(Unit)) /\ Len(bb) = n
      /\ \A i \in 1 .. n : bb[i] = g[i - 1] \o Carries(rc[i])
  BY OwnTyped, GapsTyped
<1>6. /\ g \in [0 .. n -> Seq(Unit)] /\ g[0] = <<>>
      /\ \A i \in 1 .. n : g[i] = Handed(rc[i], After(rc, x, i))
  BY GapsTyped
<1>7. c \in Seq(Unit)
  BY <1>1, <1>3, CarriesTyped
<1>8. ee[n] = <<>>
  <2>1. n \in 1 .. n /\ After(rc, x, n) = x
    BY <1>1 DEF After
  <2>2. Moved(rc[n], x) = <<>>
    BY <1>3, <2>1, MovedStuck
  <2> HIDE DEF ee
  <2> QED BY <1>4, <2>1, <2>2, AllUnitsEmpty
<1> HIDE DEF ee, g, c
<1>9. /\ aa \in Seq(Seq(Unit)) /\ Len(aa) = n /\ aa # <<>> /\ aa[n] = c
      /\ \A i \in 1 .. n : i # n => aa[i] = ee[i]
  <2>1. \A i \in 1 .. n : ee[i] \in Seq(Unit)
    BY <1>4, ElementOfSeq
  <2>2. \A i \in 1 .. n : (IF i = n THEN c ELSE ee[i]) \in Seq(Unit)
    BY <1>7, <2>1
  <2>3. aa \in Seq(Seq(Unit))
    BY <1>1, <2>2, IsASeq
  <2> QED BY <1>1, <2>3
<1>10. /\ m \in [0 .. n -> Seq(Unit)] /\ m[0] = <<>> /\ m[n] = <<>>
       /\ \A i \in 0 .. n : i # n => m[i] = g[i]
  BY <1>1, <1>6
<1> HIDE DEF aa, m
<1>11. ASSUME NEW i \in 1 .. n PROVE m[i - 1] \o aa[i] = bb[i] \o m[i]
  <2> DEFINE d == Carries(rc[i])
  <2> DEFINE m0 == g[i - 1]
  <2>1. i - 1 \in 0 .. n /\ i - 1 # n /\ i \in 0 .. n
    BY <1>1
  <2>2. m0 \in Seq(Unit) /\ d \in Seq(Unit) /\ m[i - 1] = m0
        /\ m[i] \in Seq(Unit)
    BY <1>3, <1>6, <1>10, <2>1, CarriesTyped
  <2>3. bb[i] = m0 \o d
    BY <1>5
  <2>4. aa[i] = d \o m[i]
    <3>1. CASE i = n
      <4>1. c \o <<>> = c
        BY <1>7, ConcatEmptySeq
      <4> QED BY <1>9, <1>10, <3>1, <4>1 DEF c
    <3>2. CASE i # n
      <4>1. ee[i] = d \o g[i]
        BY <1>3, <1>4, <1>6, <3>2, MovedUnits
      <4> QED BY <1>9, <1>10, <2>1, <3>2, <4>1
    <3> QED BY <3>1, <3>2
  <2> DEFINE m1 == m[i]
  <2>5. m0 \in Seq(Unit) /\ d \in Seq(Unit) /\ m1 \in Seq(Unit)
    BY <2>2
  <2> HIDE DEF d, m0, m1
  <2>6. (m0 \o d) \o m1 = m0 \o (d \o m1)
    <3>1. Regroups(m0, d, m1)
      BY ONLY <2>5, Regroup, Zenon
    <3> QED BY ONLY <3>1 DEF Regroups
  <2> QED BY <2>2, <2>3, <2>4, <2>6 DEF m1
<1>12. m[0] \o FlattenSeq(aa) = FlattenSeq(bb) \o m[Len(aa)]
  <2>1. /\ aa \in Seq(Seq(Unit)) /\ bb \in Seq(Seq(Unit)) /\ aa # <<>>
        /\ Len(aa) = Len(bb) /\ m \in [0 .. Len(aa) -> Seq(Unit)]
    BY <1>5, <1>9, <1>10
  <2>2. \A i \in 1 .. Len(aa) : m[i - 1] \o aa[i] = bb[i] \o m[i]
    BY <1>9, <1>11
  <2> HIDE DEF bb
  <2> QED BY ONLY <2>1, <2>2, Telescope
<1>13. FlattenSeq(aa) \in Seq(Unit) /\ FlattenSeq(bb) \in Seq(Unit)
  BY <1>5, <1>9, FlattenTyped
<1>14. FlattenSeq(aa) = FlattenSeq(bb)
  <2>1. <<>> \o FlattenSeq(aa) = FlattenSeq(aa)
    BY ONLY <1>13, ConcatEmptySeq
  <2>2. FlattenSeq(bb) \o <<>> = FlattenSeq(bb)
    BY ONLY <1>13, ConcatEmptySeq
  <2> QED BY <1>9, <1>10, <1>12, <2>1, <2>2
<1>15. FlattenSeq(aa) = FlattenSeq(ee) \o c
  <2>1. /\ ee \in Seq(Seq(Unit)) /\ aa \in Seq(Seq(Unit)) /\ Len(ee) = Len(aa)
        /\ ee # <<>> /\ ee[Len(ee)] = <<>>
    BY <1>1, <1>4, <1>8, <1>9
  <2>2. \A i \in 1 .. Len(ee) : i # Len(ee) => ee[i] = aa[i]
    BY <1>4, <1>9
  <2>3. FlattenSeq(aa) = FlattenSeq(ee) \o aa[Len(ee)]
    BY ONLY <2>1, <2>2, FlattenLast
  <2> QED BY <1>4, <1>9, <2>3
<1>16. AllUnits(FlattenSeq(pp)) = FlattenSeq(ee)
  BY <1>2, AllUnitsFlatten DEF ee
<1>17. HeldUnits(rc) = FlattenSeq(bb)
  BY DEF HeldUnits
<1> QED BY <1>14, <1>15, <1>16, <1>17 DEF c

\* With nothing before the last segment, only what this one carries is held.
LEMMA HeldLast ==
  ASSUME NEW rc \in Seq(Segment), rc # <<>>,
         \A i \in 1 .. Len(rc) : i # Len(rc) => ~rc[i].valid
  PROVE  HeldUnits(rc) = Carries(rc[Len(rc)])
<1> DEFINE n == Len(rc)
<1> DEFINE bb == OwnOfEach(rc)
<1>1. n \in Nat \ {0}
  BY EmptySeq, LenProperties
<1>2. /\ bb \in Seq(Seq(Unit)) /\ Len(bb) = n
      /\ \A i \in 1 .. n : bb[i] = Own(rc, i)
  BY OwnTyped
<1>3. \A i \in 1 .. n : bb[i] = Carries(rc[i])
  <2> TAKE i \in 1 .. n
  <2>1. i > 1 => i - 1 \in 1 .. n /\ i - 1 # n
    BY <1>1
  <2>2. Own(rc, i) = Carries(rc[i])
    BY <2>1 DEF Own
  <2> QED BY <1>2, <2>2
<1>4. \A i \in 1 .. n : i # n => bb[i] = <<>>
  BY <1>3 DEF Carries
<1>5. bb # <<>>
  BY <1>1, <1>2
<1>6. HeldUnits(rc) = FlattenSeq(bb)
  BY DEF HeldUnits
<1> HIDE DEF bb
<1>7. FlattenSeq(bb) = bb[Len(bb)]
  <2>1. \A i \in 1 .. Len(bb) : i # Len(bb) => bb[i] = <<>>
    BY <1>2, <1>4
  <2> QED BY ONLY <1>2, <1>5, <2>1, FlattenOnlyLast
<1> QED BY <1>1, <1>2, <1>3, <1>6, <1>7

\* A beat's units on the bus.
BusOfEach(b) == [i \in DOMAIN b |-> BusUnits(b[i])]

\* One list of units for each segment of a beat on the bus.
LEMMA BusOfEachTyped ==
  ASSUME NEW b \in Seq(Segment)
  PROVE  /\ BusOfEach(b) \in Seq(Seq(Unit))
         /\ Len(BusOfEach(b)) = Len(b)
         /\ \A i \in 1 .. Len(b) : BusOfEach(b)[i] = BusUnits(b[i])
<1>1. DOMAIN b = 1 .. Len(b) /\ Len(b) \in Nat
  BY LenProperties
<1>2. \A i \in 1 .. Len(b) : BusUnits(b[i]) \in Seq(Unit)
  BY ElementOfSeq, BusUnitsTyped
<1>3. BusOfEach(b) = [i \in 1 .. Len(b) |-> BusUnits(b[i])]
  BY <1>1 DEF BusOfEach
<1>4. [i \in 1 .. Len(b) |-> BusUnits(b[i])] \in Seq(Seq(Unit))
  BY <1>1, <1>2, IsASeq
<1> QED BY <1>1, <1>3, <1>4

\* What a beat brings the one before it, and then what it holds itself.
LEMMA HeldBus ==
  ASSUME NEW b \in Seq(Segment), b # <<>>,
         \A i \in 1 .. Len(b) :
           i > 1 /\ ~b[i - 1].valid => ~b[i].valid \/ b[i].sop
  PROVE  Brings(b[1]) \o HeldUnits(b) = FlattenSeq(BusOfEach(b))
<1> DEFINE n == Len(b)
<1> DEFINE aa == OwnOfEach(b)
<1> DEFINE bb == BusOfEach(b)
<1> DEFINE m == [i \in 0 .. n |-> IF i = 0 THEN Brings(b[1]) ELSE <<>>]
<1>1. n \in Nat \ {0}
  BY EmptySeq, LenProperties
<1>2. /\ aa \in Seq(Seq(Unit)) /\ Len(aa) = n
      /\ \A i \in 1 .. n : aa[i] = Own(b, i) /\ Own(b, i) \in Seq(Unit)
  BY OwnTyped, OwnIs
<1>3. /\ bb \in Seq(Seq(Unit)) /\ Len(bb) = n
      /\ \A i \in 1 .. n : bb[i] = BusUnits(b[i])
  BY BusOfEachTyped
<1>4. \A i \in 1 .. n : b[i] \in Segment
  BY ElementOfSeq
<1>5. Brings(b[1]) \in Seq(Unit)
  BY <1>1, <1>4, BringsTyped
<1>6. /\ m \in [0 .. n -> Seq(Unit)] /\ m[0] = Brings(b[1])
      /\ \A i \in 1 .. n : m[i] = <<>>
  BY <1>1, <1>5
<1> HIDE DEF m, aa, bb
<1>7. ASSUME NEW i \in 1 .. n PROVE m[i - 1] \o aa[i] = bb[i] \o m[i]
  <2>1. BusUnits(b[i]) = Brings(b[i]) \o Carries(b[i])
        /\ BusUnits(b[i]) \in Seq(Unit)
    BY <1>4, BusUnitsSplit, BusUnitsTyped
  <2>2. BusUnits(b[i]) \o <<>> = BusUnits(b[i])
    BY <2>1, ConcatEmptySeq
  <2>3. m[i - 1] \o aa[i] = BusUnits(b[i])
    <3>1. CASE i = 1
      <4>1. Own(b, i) = Carries(b[i]) /\ i - 1 = 0
        BY <3>1, OwnIs
      <4> QED BY <1>2, <1>6, <2>1, <3>1, <4>1
    <3>2. CASE i # 1
      <4>1. i - 1 \in 1 .. n /\ i > 1
        BY <1>1, <3>2
      <4>2. Own(b, i) = BusUnits(b[i])
        <5>1. CASE b[i - 1].valid
          BY <4>1, <5>1 DEF Own
        <5>2. CASE ~b[i - 1].valid
          <6>1. ~b[i].valid \/ b[i].sop
            BY <4>1, <5>2
          <6>2. Own(b, i) = Carries(b[i])
            BY <5>2 DEF Own
          <6>3. Carries(b[i]) = BusUnits(b[i])
            BY <6>1 DEF Carries, BusUnits
          <6> QED BY <6>2, <6>3
        <5> QED BY <5>1, <5>2
      <4>3. <<>> \o BusUnits(b[i]) = BusUnits(b[i])
        BY <2>1, ConcatEmptySeq
      <4> QED BY <1>2, <1>6, <4>1, <4>2, <4>3
    <3> QED BY <3>1, <3>2
  <2> QED BY <1>3, <1>6, <2>2, <2>3
<1>8. m[0] \o FlattenSeq(aa) = FlattenSeq(bb) \o m[Len(aa)]
  <2>1. /\ aa \in Seq(Seq(Unit)) /\ bb \in Seq(Seq(Unit)) /\ aa # <<>>
        /\ Len(aa) = Len(bb) /\ m \in [0 .. Len(aa) -> Seq(Unit)]
    BY <1>1, <1>2, <1>3, <1>6
  <2>2. \A i \in 1 .. Len(aa) : m[i - 1] \o aa[i] = bb[i] \o m[i]
    BY <1>2, <1>7
  <2> QED BY ONLY <2>1, <2>2, Telescope
<1>9. m[Len(aa)] = <<>>
  BY <1>1, <1>2, <1>6
<1>10. FlattenSeq(bb) \o <<>> = FlattenSeq(bb)
  BY <1>3, FlattenTyped, ConcatEmptySeq
<1> QED BY <1>6, <1>8, <1>9, <1>10 DEF HeldUnits, aa, bb

-----------------------------------------------------------------------------
(* Slots.                                                                  *)

\* The two parts of a slot with two segments; the slots the scan shuts.
Shut ==
  {<<x>> : x \in Piece}
    \cup {<<x, y>> : x \in Carry, y \in {z \in Piece : ~z.sop}}

\* The slots of the lists of segments that were shut.
SlotsOf(shut) == [i \in DOMAIN shut |-> Slot(shut[i])]

\* The join of one list,
LEMMA FlattenOne ==
  ASSUME NEW X, NEW x \in Seq(X) PROVE FlattenSeq(<<x>>) = x
<1>1. <<>> \in Seq(Seq(X)) /\ Append(<<>>, x) = <<x>>
  OBVIOUS
<1>2. FlattenSeq(Append(<<>>, x)) = FlattenSeq(<<>>) \o x
  BY ONLY <1>1, x \in Seq(X), FlattenAppend
<1>3. <<>> \o x = x
  BY ConcatEmptySeq
<1> QED BY <1>1, <1>2, <1>3, FlattenEmpty

\* two elements in a list,
LEMMA AppendOne ==
  ASSUME NEW X, NEW x \in X, NEW y \in X
  PROVE  Append(<<x>>, y) = <<x, y>> /\ Len(<<x, y>>) = 2
<1>1. <<x>> \in Seq(X)
  OBVIOUS
<1>2. /\ Append(<<x>>, y) \in Seq(X) /\ <<x, y>> \in Seq(X)
      /\ Len(Append(<<x>>, y)) = 2 /\ Len(<<x, y>>) = 2
      /\ Append(<<x>>, y)[1] = x /\ Append(<<x>>, y)[2] = y
  BY <1>1
<1>3. \A i \in 1 .. 2 : Append(<<x>>, y)[i] = <<x, y>>[i]
  BY <1>2
<1> QED BY <1>2, <1>3, SeqEqual

\* and the join of two lists.
LEMMA FlattenTwo ==
  ASSUME NEW X, NEW x \in Seq(X), NEW y \in Seq(X)
  PROVE  FlattenSeq(<<x, y>>) = x \o y
<1>1. <<x>> \in Seq(Seq(X)) /\ Append(<<x>>, y) = <<x, y>>
  <2>1. <<x>> \in Seq(Seq(X))
    OBVIOUS
  <2> QED BY <2>1, AppendOne
<1>2. FlattenSeq(Append(<<x>>, y)) = FlattenSeq(<<x>>) \o y
  BY ONLY <1>1, y \in Seq(X), FlattenAppend
<1> QED BY <1>1, <1>2, FlattenOne

\* A slot has the units of its segments.
LEMMA SlotOne ==
  ASSUME NEW x \in Piece
  PROVE  Slot(<<x>>) \in Piece /\ Units(Slot(<<x>>)) = Units(x)
<1> DEFINE segs == <<x>>
<1>1. DOMAIN segs = {1} /\ segs[1] = x
  OBVIOUS
<1>2. x.data \in Seq(Plain) /\ x.eop \in BOOLEAN
  BY DEF Piece
<1>3. [i \in DOMAIN segs |-> segs[i].data] = <<x.data>>
  BY <1>1
<1>4. FlattenSeq([i \in DOMAIN segs |-> segs[i].data]) = x.data
  BY <1>2, <1>3, FlattenOne
<1>5. (\E i \in DOMAIN segs : segs[i].eop) = x.eop
  BY <1>1, <1>2
<1> HIDE DEF segs
<1>6. Slot(segs) = [sop |-> x.sop, eop |-> x.eop, hdr |-> x.hdr,
                    data |-> x.data]
  BY <1>1, <1>4, <1>5 DEF Slot
<1>7. Slot(segs) = x
  BY <1>6 DEF Piece
<1> QED BY <1>7 DEF segs

\* The start is the first segment's, the end the second one's.
LEMMA SlotTwo ==
  ASSUME NEW x \in Carry, NEW y \in Piece, ~y.sop
  PROVE  /\ Slot(<<x, y>>) \in Piece
         /\ Units(Slot(<<x, y>>)) = Units(x) \o Units(y)
<1> DEFINE segs == <<x, y>>
<1>1. DOMAIN segs = {1, 2} /\ segs[1] = x /\ segs[2] = y
  OBVIOUS
<1>2. /\ x \in Piece /\ x.eop = FALSE /\ y.eop \in BOOLEAN
      /\ x.data \in Seq(Plain) /\ y.data \in Seq(Plain)
      /\ x.sop \in BOOLEAN /\ x.hdr \in Ids
      /\ y.data # <<>> /\ (x.sop \/ x.data # <<>>)
  BY DEF Carry, Piece
<1>3. [i \in DOMAIN segs |-> segs[i].data] = <<x.data, y.data>>
  BY <1>1
<1>4. FlattenSeq([i \in DOMAIN segs |-> segs[i].data]) = x.data \o y.data
  BY <1>2, <1>3, FlattenTwo
<1>5. (\E i \in DOMAIN segs : segs[i].eop) = y.eop
  BY <1>1, <1>2
<1> HIDE DEF segs
<1> DEFINE sl == [sop |-> x.sop, eop |-> y.eop, hdr |-> x.hdr,
                  data |-> x.data \o y.data]
<1>6. Slot(segs) = sl
  BY <1>1, <1>4, <1>5 DEF Slot
<1>7. x.data \o y.data \in Seq(Plain) /\ x.data \o y.data # <<>>
  BY <1>2
<1>8. sl \in Piece
  BY <1>2, <1>7 DEF Piece
<1> DEFINE h == When(x.sop, <<[part |-> "hdr", id |-> x.hdr, eop |-> FALSE]>>)
<1>9. Units(sl) = Marked(h \o (x.data \o y.data), y.eop)
  BY DEF Units
<1>10. Units(x) = h \o x.data
  BY <1>2, MarkedOpen DEF Units
<1>11. Units(y) = Marked(y.data, y.eop)
  <2>1. Units(y) = Marked(<<>> \o y.data, y.eop)
    BY DEF Units, When
  <2> QED BY <2>1, <1>2, ConcatEmptySeq
<1>12. h \in Seq(Unit) /\ x.data \in Seq(Unit) /\ y.data \in Seq(Unit)
  <2>1. h \in Seq(Unit)
    <3> DEFINE u == [part |-> "hdr", id |-> x.hdr, eop |-> FALSE]
    <3>1. u \in Unit
      BY <1>2 DEF Unit
    <3> HIDE DEF u
    <3>2. <<u>> \in Seq(Unit) /\ <<>> \in Seq(Unit)
      BY <3>1
    <3> QED BY <3>2 DEF When, u
  <2> QED BY <1>2, <2>1, PlainIsUnits
<1> DEFINE a == x.data
<1> DEFINE b == y.data
<1> DEFINE e == y.eop
<1> HIDE DEF h, sl
<1>13. h \in Seq(Unit) /\ a \in Seq(Unit) /\ b \in Seq(Unit) /\ b # <<>>
       /\ e \in BOOLEAN
  BY <1>2, <1>12
<1>14. Units(sl) = Marked(h \o (a \o b), e) /\ Units(x) = h \o a
       /\ Units(y) = Marked(b, e)
  BY <1>9, <1>10, <1>11
<1> HIDE DEF a, b, e
<1>15. (h \o a) \o b = h \o (a \o b)
  <2>1. Regroups(h, a, b)
    BY ONLY <1>13, Regroup, Zenon
  <2> QED BY ONLY <2>1 DEF Regroups
<1>16. h \o a \in Seq(Unit)
  BY ONLY <1>13, ConcatProperties
<1>17. Marked((h \o a) \o b, e) = (h \o a) \o Marked(b, e)
  BY ONLY <1>13, <1>16, MarkedConcat
<1> QED BY <1>6, <1>8, <1>14, <1>15, <1>17 DEF segs

\* A slot that is shut carries a header or data.
LEMMA ShutSlot ==
  ASSUME NEW segs \in Shut PROVE Slot(segs) \in Piece
<1>1. CASE \E x \in Piece : segs = <<x>>
  BY <1>1, SlotOne
<1>2. CASE \E x \in Carry, y \in {z \in Piece : ~z.sop} : segs = <<x, y>>
  BY <1>2, SlotTwo
<1> QED BY <1>1, <1>2 DEF Shut

\* One slot for each list that was shut.
LEMMA SlotsOfTyped ==
  ASSUME NEW shut \in Seq(Shut)
  PROVE  /\ SlotsOf(shut) \in Seq(Piece)
         /\ Len(SlotsOf(shut)) = Len(shut)
         /\ \A i \in 1 .. Len(shut) : SlotsOf(shut)[i] = Slot(shut[i])
<1>1. DOMAIN shut = 1 .. Len(shut) /\ Len(shut) \in Nat
  BY LenProperties
<1>2. \A i \in 1 .. Len(shut) : Slot(shut[i]) \in Piece
  BY ElementOfSeq, ShutSlot
<1>3. SlotsOf(shut) = [i \in 1 .. Len(shut) |-> Slot(shut[i])]
  BY <1>1 DEF SlotsOf
<1>4. [i \in 1 .. Len(shut) |-> Slot(shut[i])] \in Seq(Piece)
  BY <1>1, <1>2, IsASeq
<1> QED BY <1>1, <1>3, <1>4

\* No list, no slot.
LEMMA SlotsOfEmpty == SlotsOf(<<>>) = <<>>
<1>1. <<>> \in Seq(Shut) /\ Len(<<>>) = 0
  OBVIOUS
<1> QED BY <1>1, SlotsOfTyped, EmptySeq

\* One slot more has its units behind the others'.
LEMMA SlotsOfAppend ==
  ASSUME NEW shut \in Seq(Shut), NEW segs \in Shut
  PROVE  /\ Append(shut, segs) \in Seq(Shut)
         /\ Len(Append(shut, segs)) = Len(shut) + 1
         /\ AllUnits(SlotsOf(Append(shut, segs)))
              = AllUnits(SlotsOf(shut)) \o Units(Slot(segs))
<1> DEFINE ax == Append(shut, segs)
<1> DEFINE es == SlotsOf(shut)
<1> DEFINE u == Slot(segs)
<1>1. /\ ax \in Seq(Shut) /\ Len(ax) = Len(shut) + 1 /\ Len(shut) \in Nat
      /\ ax[Len(shut) + 1] = segs
      /\ \A i \in 1 .. Len(shut) : ax[i] = shut[i]
  OBVIOUS
<1>2. es \in Seq(Piece) /\ Len(es) = Len(shut)
      /\ \A i \in 1 .. Len(shut) : es[i] = Slot(shut[i])
  BY SlotsOfTyped
<1>3. u \in Piece
  BY ShutSlot
<1> HIDE DEF ax, es, u
<1>4. /\ SlotsOf(ax) \in Seq(Piece)
      /\ Len(SlotsOf(ax)) = Len(shut) + 1
      /\ \A i \in 1 .. Len(shut) + 1 : SlotsOf(ax)[i] = Slot(ax[i])
  BY <1>1, SlotsOfTyped
<1>5. /\ Append(es, u) \in Seq(Piece)
      /\ Len(Append(es, u)) = Len(shut) + 1
      /\ Append(es, u)[Len(shut) + 1] = u
      /\ \A i \in 1 .. Len(shut) : Append(es, u)[i] = es[i]
  BY <1>2, <1>3, AppendProperties
<1>6. \A i \in 1 .. Len(shut) + 1 : SlotsOf(ax)[i] = Append(es, u)[i]
  <2> TAKE i \in 1 .. Len(shut) + 1
  <2>1. CASE i = Len(shut) + 1
    BY <2>1, <1>1, <1>4, <1>5 DEF u
  <2>2. CASE i # Len(shut) + 1
    <3>1. i \in 1 .. Len(shut)
      BY <2>2, <1>1
    <3> QED BY <3>1, <1>1, <1>2, <1>4, <1>5
  <2> QED BY <2>1, <2>2
<1>7. SlotsOf(ax) = Append(es, u)
  BY <1>4, <1>5, <1>6, SeqEqual
<1>8. AllUnits(Append(es, u)) = AllUnits(es) \o Units(u)
  BY <1>2, <1>3, AllUnitsAppend
<1> QED BY <1>1, <1>7, <1>8 DEF ax, es, u

\* What the scan has come to: slots shut and segments of an open one.
ScanState(acc) ==
  /\ acc.shut \in Seq(Shut)
  /\ acc.open \in Seq(Carry)
  /\ Len(acc.open) < CP_FPC

\* The units a scan has met: of the slots shut, and of the segments open.
ScanUnits(acc) == AllUnits(SlotsOf(acc.shut)) \o AllUnits(acc.open)

\* The segments of a carry are pieces.
LEMMA CarryIsPiece == Seq(Carry) \subseteq Seq(Piece)
BY SeqMonotonic DEF Carry

\* The units a scan has met are units.
LEMMA ScanUnitsTyped ==
  ASSUME NEW acc, ScanState(acc)
  PROVE  /\ AllUnits(SlotsOf(acc.shut)) \in Seq(Unit)
         /\ AllUnits(acc.open) \in Seq(Unit)
<1>1. SlotsOf(acc.shut) \in Seq(Piece) /\ acc.open \in Seq(Piece)
  BY SlotsOfTyped, CarryIsPiece DEF ScanState
<1> QED BY <1>1, AllUnitsTyped

\* A step of the scan from the list shut and the segments open.
PlacedUnits(acc, p, s) ==
  /\ ScanState(p)
  /\ ScanUnits(p) = ScanUnits(acc) \o Units(s)
  /\ Len(p.shut) + Len(p.open) <= Len(acc.shut) + Len(acc.open) + 1

\* A segment that finds no slot open opens one, or fills it alone.
LEMMA PlacedInSlot ==
  ASSUME NEW acc, ScanState(acc), NEW s \in Piece, CP_FPC \in {1, 2},
         acc.open = <<>>
  PROVE  PlacedUnits(acc, Placed(acc, s), s)
<1> DEFINE shut == acc.shut
<1>1. shut \in Seq(Shut) /\ Len(shut) \in Nat
  BY LenProperties DEF ScanState
<1>2. Append(<<>>, s) = <<s>> /\ Len(<<s>>) = 1 /\ <<s>>[1] = s
  OBVIOUS
<1>3. Placed(acc, s) = IF Ends(<<s>>)
                       THEN [shut |-> Append(shut, <<s>>), open |-> <<>>]
                       ELSE [shut |-> shut, open |-> <<s>>]
  BY <1>2 DEF Placed
<1>4. s.eop \in BOOLEAN
  BY DEF Piece
<1>5. Ends(<<s>>) <=> s.eop \/ CP_FPC = 1
  BY <1>2 DEF Ends
<1>6. AllUnits(SlotsOf(shut)) \in Seq(Unit) /\ AllUnits(acc.open) = <<>>
  BY ScanUnitsTyped, AllUnitsEmpty
<1>7. ScanUnits(acc) = AllUnits(SlotsOf(shut))
  BY <1>6, ConcatEmptySeq DEF ScanUnits
<1>8. Units(s) \in Seq(Unit)
  BY UnitsTyped
<1>9. CASE Ends(<<s>>)
  <2> DEFINE p == [shut |-> Append(shut, <<s>>), open |-> <<>>]
  <2>1. <<s>> \in Shut
    BY DEF Shut
  <2>2. /\ Append(shut, <<s>>) \in Seq(Shut)
        /\ Len(Append(shut, <<s>>)) = Len(shut) + 1
        /\ AllUnits(SlotsOf(Append(shut, <<s>>)))
             = AllUnits(SlotsOf(shut)) \o Units(Slot(<<s>>))
    BY <1>1, <2>1, SlotsOfAppend
  <2>3. Units(Slot(<<s>>)) = Units(s)
    BY SlotOne
  <2>4. <<>> \in Seq(Carry) /\ Len(<<>>) = 0
    OBVIOUS
  <2>5. ScanState(p)
    BY <2>2, <2>4 DEF ScanState
  <2>6. ScanUnits(p) = (AllUnits(SlotsOf(shut)) \o Units(s)) \o <<>>
    BY <2>2, <2>3, AllUnitsEmpty DEF ScanUnits
  <2>7. AllUnits(SlotsOf(shut)) \o Units(s) \in Seq(Unit)
    BY <1>6, <1>8, ConcatProperties
  <2>8. ScanUnits(p) = ScanUnits(acc) \o Units(s)
    BY <1>7, <2>6, <2>7, ConcatEmptySeq
  <2>9. Placed(acc, s) = p
    BY <1>3, <1>9
  <2>10. Len(p.shut) + Len(p.open) <= Len(acc.shut) + Len(acc.open) + 1
    BY <1>1, <2>2, <2>4
  <2> QED BY <2>5, <2>8, <2>9, <2>10 DEF PlacedUnits
<1>10. CASE ~Ends(<<s>>)
  <2> DEFINE p == [shut |-> shut, open |-> <<s>>]
  <2>1. s \in Carry /\ CP_FPC = 2
    BY <1>4, <1>5, <1>10 DEF Carry
  <2>2. <<s>> \in Seq(Carry) /\ Len(<<s>>) = 1 /\ Len(<<>>) = 0
    BY <2>1
  <2>3. ScanState(p)
    BY <1>1, <2>1, <2>2 DEF ScanState
  <2>4. ScanUnits(p) = AllUnits(SlotsOf(shut)) \o Units(s)
    BY AllUnitsOne DEF ScanUnits
  <2>5. Placed(acc, s) = p
    BY <1>3, <1>10
  <2>6. Len(p.shut) + Len(p.open) <= Len(acc.shut) + Len(acc.open) + 1
    BY <1>1, <2>2
  <2> QED BY <1>7, <2>3, <2>4, <2>5, <2>6 DEF PlacedUnits
<1> QED BY <1>9, <1>10

\* A segment behind an open one fills the slot of two.
LEMMA PlacedBehind ==
  ASSUME NEW acc, ScanState(acc), NEW s \in Piece, CP_FPC \in {1, 2},
         acc.open # <<>>, ~s.sop
  PROVE  PlacedUnits(acc, Placed(acc, s), s)
<1> DEFINE shut == acc.shut
<1> DEFINE o == acc.open[1]
<1>1. /\ shut \in Seq(Shut) /\ Len(shut) \in Nat
      /\ acc.open \in Seq(Carry) /\ Len(acc.open) \in Nat \ {0}
      /\ Len(acc.open) < CP_FPC
  BY EmptySeq, LenProperties DEF ScanState
<1>2. CP_FPC = 2 /\ Len(acc.open) = 1
  <2> DEFINE l == Len(acc.open)
  <2>1. l \in Nat \ {0} /\ l < CP_FPC
    BY <1>1
  <2>2. CP_FPC = 1 \/ CP_FPC = 2
    OBVIOUS
  <2> HIDE DEF l
  <2>3. CP_FPC = 2 /\ l = 1
    BY ONLY <2>1, <2>2
  <2> QED BY <2>3 DEF l
<1>3. o \in Carry
  BY <1>1, <1>2, ElementOfSeq
<1>4. acc.open = <<o>>
  <2>1. <<o>> \in Seq(Carry) /\ Len(<<o>>) = 1 /\ <<o>>[1] = o
    BY <1>3
  <2>2. \A i \in 1 .. 1 : acc.open[i] = <<o>>[i]
    BY <2>1
  <2> HIDE DEF o
  <2> QED BY <1>1, <1>2, <2>1, <2>2, SeqEqual
<1> HIDE DEF o
<1>5. Append(<<o>>, s) = <<o, s>> /\ Len(<<o, s>>) = 2
  <2>1. o \in Piece
    BY <1>3 DEF Carry
  <2> QED BY <2>1, AppendOne
<1>6. Ends(<<o, s>>)
  BY <1>2, <1>5 DEF Ends
<1>7. Placed(acc, s) = [shut |-> Append(shut, <<o, s>>), open |-> <<>>]
  BY <1>4, <1>5, <1>6 DEF Placed
<1>8. <<o, s>> \in Shut
  BY <1>3 DEF Shut
<1>9. /\ Append(shut, <<o, s>>) \in Seq(Shut)
      /\ Len(Append(shut, <<o, s>>)) = Len(shut) + 1
      /\ AllUnits(SlotsOf(Append(shut, <<o, s>>)))
           = AllUnits(SlotsOf(shut)) \o Units(Slot(<<o, s>>))
  BY <1>1, <1>8, SlotsOfAppend
<1>10. Units(Slot(<<o, s>>)) = Units(o) \o Units(s)
  BY <1>3, SlotTwo
<1>11. o \in Piece
  BY <1>3 DEF Carry
<1>12. AllUnits(acc.open) = Units(o)
  BY <1>4, <1>11, AllUnitsOne
<1> DEFINE a == AllUnits(SlotsOf(shut))
<1> DEFINE b == Units(o)
<1> DEFINE c == Units(s)
<1>13. a \in Seq(Unit) /\ b \in Seq(Unit) /\ c \in Seq(Unit)
  BY <1>11, ScanUnitsTyped, UnitsTyped
<1>14. ScanUnits(acc) = a \o b
  BY <1>12 DEF ScanUnits
<1> DEFINE p == [shut |-> Append(shut, <<o, s>>), open |-> <<>>]
<1>15. ScanUnits(p) = (a \o (b \o c)) \o <<>>
  BY <1>9, <1>10, AllUnitsEmpty DEF ScanUnits
<1> HIDE DEF a, b, c
<1>16. (a \o b) \o c = a \o (b \o c)
  <2>1. Regroups(a, b, c)
    BY ONLY <1>13, Regroup, Zenon
  <2> QED BY ONLY <2>1 DEF Regroups
<1>17. a \o (b \o c) \in Seq(Unit)
  BY <1>13, ConcatProperties
<1>18. (a \o (b \o c)) \o <<>> = a \o (b \o c)
  BY ONLY <1>17, ConcatEmptySeq
<1>19. ScanUnits(p) = ScanUnits(acc) \o Units(s)
  BY <1>14, <1>15, <1>16, <1>18 DEF c
<1>20. ScanState(p)
  <2>1. <<>> \in Seq(Carry) /\ Len(<<>>) = 0
    OBVIOUS
  <2> QED BY <1>2, <1>9, <2>1 DEF ScanState
<1>21. Len(p.shut) + Len(p.open) <= Len(acc.shut) + Len(acc.open) + 1
  <2>1. Len(p.shut) = Len(shut) + 1 /\ Len(p.open) = 0
    BY <1>9
  <2> QED BY <1>1, <1>2, <2>1
<1> HIDE DEF p
<1>22. Placed(acc, s) = p
  BY <1>7 DEF p
<1> QED BY <1>19, <1>20, <1>21, <1>22 DEF PlacedUnits

\* A start behind an open segment shuts its slot and opens another.
LEMMA PlacedCut ==
  ASSUME NEW acc, ScanState(acc), NEW s \in Piece, CP_FPC \in {1, 2},
         acc.open # <<>>, s.sop
  PROVE  PlacedUnits(acc, Placed(acc, s), s)
<1> DEFINE shut == Append(acc.shut, acc.open)
<1> DEFINE bcc == [shut |-> shut, open |-> <<>>]
<1>1. /\ acc.shut \in Seq(Shut) /\ Len(acc.shut) \in Nat
      /\ acc.open \in Seq(Carry) /\ Len(acc.open) \in Nat \ {0}
      /\ Len(acc.open) < CP_FPC
  BY EmptySeq, LenProperties DEF ScanState
<1>2. CP_FPC = 2 /\ Len(acc.open) = 1
  <2> DEFINE l == Len(acc.open)
  <2>1. l \in Nat \ {0} /\ l < CP_FPC
    BY <1>1
  <2>2. CP_FPC = 1 \/ CP_FPC = 2
    OBVIOUS
  <2> HIDE DEF l
  <2>3. CP_FPC = 2 /\ l = 1
    BY ONLY <2>1, <2>2
  <2> QED BY <2>3 DEF l
<1> DEFINE o == acc.open[1]
<1>3. o \in Carry /\ o \in Piece
  BY <1>1, <1>2, ElementOfSeq DEF Carry
<1>4. acc.open = <<o>>
  <2>1. <<o>> \in Seq(Carry) /\ Len(<<o>>) = 1 /\ <<o>>[1] = o
    BY <1>3
  <2>2. \A i \in 1 .. 1 : acc.open[i] = <<o>>[i]
    BY <2>1
  <2> HIDE DEF o
  <2> QED BY <1>1, <1>2, <2>1, <2>2, SeqEqual
<1>5. acc.open \in Shut
  <2> HIDE DEF o
  <2> QED BY <1>3, <1>4 DEF Shut
<1>6. /\ shut \in Seq(Shut) /\ Len(shut) = Len(acc.shut) + 1
      /\ AllUnits(SlotsOf(shut))
           = AllUnits(SlotsOf(acc.shut)) \o Units(Slot(acc.open))
  BY <1>1, <1>5, SlotsOfAppend
<1>7. Units(Slot(acc.open)) = Units(o) /\ AllUnits(acc.open) = Units(o)
  BY <1>3, <1>4, SlotOne, AllUnitsOne
<1> HIDE DEF o
<1>8. AllUnits(SlotsOf(shut)) = ScanUnits(acc)
  BY <1>6, <1>7 DEF ScanUnits
<1> HIDE DEF shut
<1>9. ScanState(bcc)
  <2>1. <<>> \in Seq(Carry) /\ Len(<<>>) = 0
    OBVIOUS
  <2> QED BY <1>2, <1>6, <2>1 DEF ScanState
<1>10. AllUnits(SlotsOf(shut)) \in Seq(Unit)
  BY <1>6, SlotsOfTyped, AllUnitsTyped
<1>11. ScanUnits(bcc) = ScanUnits(acc)
  <2>1. ScanUnits(bcc) = AllUnits(SlotsOf(shut)) \o <<>>
    BY AllUnitsEmpty DEF ScanUnits
  <2> QED BY <1>8, <1>10, <2>1, ConcatEmptySeq
<1>12. Len(bcc.shut) + Len(bcc.open) = Len(acc.shut) + Len(acc.open)
  BY <1>1, <1>2, <1>6
<1>13. Placed(acc, s) = Placed(bcc, s)
  <2>1. Append(<<>>, s) = <<s>>
    OBVIOUS
  <2> QED BY <2>1 DEF Placed, shut
<1>14. bcc.open = <<>>
  OBVIOUS
<1> HIDE DEF bcc
<1>15. PlacedUnits(bcc, Placed(bcc, s), s)
  BY <1>9, <1>14, PlacedInSlot
<1> QED BY <1>11, <1>12, <1>13, <1>15 DEF PlacedUnits

\* Whatever the slot, a step of the scan keeps every unit.
LEMMA PlacedKeeps ==
  ASSUME NEW acc, ScanState(acc), NEW s \in Piece, CP_FPC \in {1, 2}
  PROVE  PlacedUnits(acc, Placed(acc, s), s)
<1>1. s.sop \in BOOLEAN
  BY DEF Piece
<1> QED BY <1>1, PlacedInSlot, PlacedBehind, PlacedCut

-----------------------------------------------------------------------------
(* The scan.                                                               *)

\* The scan before its first segment.
Nothing == [shut |-> <<>>, open |-> <<>>]

\* The function Scan chooses, and its first n steps.
ScanTo(f, segs, n) ==
  f = [i \in 0 .. n |-> IF i = 0 THEN Nothing ELSE Placed(f[i - 1], segs[i])]

\* The scan's recursive function exists,
LEMMA ScanExists ==
  ASSUME NEW segs, NEW n \in Nat
  PROVE  \E f : ScanTo(f, segs, n)
<1> DEFINE S == {k \in Nat : \E f : ScanTo(f, segs, k)}
<1>1. 0 \in S
  <2> DEFINE e == [i \in 0 .. 0 |-> Nothing]
  <2>1. e = [i \in 0 .. 0 |-> IF i = 0 THEN Nothing
                               ELSE Placed(e[i - 1], segs[i])]
    OBVIOUS
  <2>2. ScanTo(e, segs, 0)
    BY <2>1 DEF ScanTo
  <2> QED BY <2>2
<1>2. ASSUME NEW k \in S PROVE k + 1 \in S
  <2>1. PICK f : ScanTo(f, segs, k)
    OBVIOUS
  <2> DEFINE g == [i \in 0 .. k + 1 |->
                     IF i = k + 1 THEN Placed(f[k], segs[i]) ELSE f[i]]
  <2>2. k \in Nat
    OBVIOUS
  <2>3. \A i \in 0 .. k + 1 :
          g[i] = IF i = 0 THEN Nothing ELSE Placed(g[i - 1], segs[i])
    <3> TAKE i \in 0 .. k + 1
    <3>1. CASE i = k + 1
      <4>1. i # 0 /\ i - 1 = k /\ k \in 0 .. k + 1 /\ k # k + 1
        BY <2>2, <3>1
      <4>2. g[i] = Placed(f[k], segs[i]) /\ g[k] = f[k]
        BY <3>1, <4>1
      <4> HIDE DEF g
      <4> QED BY <4>1, <4>2
    <3>2. CASE i # k + 1
      <4>1. i \in 0 .. k /\ g[i] = f[i]
        BY <2>2, <3>2
      <4>2. i # 0 => i - 1 \in 0 .. k /\ g[i - 1] = f[i - 1]
        BY <2>2, <3>2
      <4>3. f[i] = IF i = 0 THEN Nothing ELSE Placed(f[i - 1], segs[i])
        BY <2>1, <4>1 DEF ScanTo
      <4> HIDE DEF g
      <4> QED BY <4>1, <4>2, <4>3
    <3> QED BY <3>1, <3>2
  <2>4. g = [i \in 0 .. k + 1 |->
               IF i = 0 THEN Nothing ELSE Placed(g[i - 1], segs[i])]
    <3>1. DOMAIN g = 0 .. k + 1 /\ g = [i \in 0 .. k + 1 |-> g[i]]
      OBVIOUS
    <3> HIDE DEF g
    <3> QED BY <2>3, <3>1
  <2>5. ScanTo(g, segs, k + 1)
    <3> HIDE DEF g
    <3> QED BY <2>4 DEF ScanTo
  <2> HIDE DEF g
  <2> QED BY <2>2, <2>5
<1>3. S = Nat
  <2> S \in SUBSET Nat OBVIOUS
  <2> HIDE DEF S
  <2> QED BY <1>1, <1>2, NatSetInduction
<1> QED BY <1>3

\* its elements satisfy its equation,
LEMMA ScanStep ==
  ASSUME NEW f, NEW segs, NEW n, ScanTo(f, segs, n), NEW i \in 0 .. n
  PROVE  f[i] = IF i = 0 THEN Nothing ELSE Placed(f[i - 1], segs[i])
<1> DEFINE Rhs(j) == IF j = 0 THEN Nothing ELSE Placed(f[j - 1], segs[j])
<1>1. f = [j \in 0 .. n |-> Rhs(j)]
  BY Zenon DEF ScanTo
<1>2. [j \in 0 .. n |-> Rhs(j)][i] = Rhs(i)
  <2> HIDE DEF Rhs
  <2> QED OBVIOUS
<1>3. f[i] = Rhs(i)
  <2> HIDE DEF Rhs
  <2> QED BY ONLY <1>1, <1>2, Zenon
<1> QED BY ONLY <1>3, Zenon DEF Rhs

\* and the scan is its last element.
LEMMA ScanIs ==
  ASSUME NEW segs, Len(segs) \in Nat
  PROVE  \E f : ScanTo(f, segs, Len(segs)) /\ Scan(segs) = f[Len(segs)]
<1> DEFINE f == CHOOSE g : ScanTo(g, segs, Len(segs))
<1>1. ScanTo(f, segs, Len(segs))
  BY ScanExists
<1>2. Scan(segs) = f[Len(segs)]
  BY DEF Scan, ScanTo, Nothing
<1> HIDE DEF f
<1> QED BY <1>1, <1>2

(***************************************************************************)
(* The scan keeps every unit: those of the slots it shuts, then those of   *)
(* the segments it leaves open, are those of the segments it meets.        *)
(***************************************************************************)
LEMMA ScanKeeps ==
  ASSUME NEW segs \in Seq(Piece), CP_FPC \in {1, 2}
  PROVE  /\ ScanState(Scan(segs))
         /\ ScanUnits(Scan(segs)) = AllUnits(segs)
         /\ Len(Scan(segs).shut) <= Len(segs)
<1> DEFINE n == Len(segs)
<1>1. n \in Nat
  BY LenProperties
<1>2. PICK f : ScanTo(f, segs, n) /\ Scan(segs) = f[n]
  BY <1>1, ScanIs
<1> DEFINE Good(i) ==
      /\ ScanState(f[i])
      /\ ScanUnits(f[i]) = AllUnits(SubSeq(segs, 1, i))
      /\ Len(f[i].shut) + Len(f[i].open) <= i
<1> DEFINE S == {j \in Nat : j \in 0 .. n => Good(j)}
<1>3. 0 \in S
  <2>1. f[0] = Nothing
    <3>1. 0 \in 0 .. n
      BY <1>1
    <3>2. f[0] = IF 0 = 0 THEN Nothing ELSE Placed(f[0 - 1], segs[0])
      BY ONLY <1>2, <3>1, ScanStep
    <3> QED BY <3>2
  <2>2. <<>> \in Seq(Shut) /\ <<>> \in Seq(Carry) /\ Len(<<>>) = 0
    OBVIOUS
  <2>3. Nothing.shut = <<>> /\ Nothing.open = <<>>
    BY DEF Nothing
  <2>4. ScanState(Nothing)
    BY <2>2, <2>3 DEF ScanState
  <2>5. SubSeq(segs, 1, 0) = <<>>
    BY SubSeqEmpty
  <2>6. ScanUnits(Nothing) = <<>>
    BY <2>3, SlotsOfEmpty, AllUnitsEmpty DEF ScanUnits
  <2>7. Len(Nothing.shut) + Len(Nothing.open) <= 0
    BY <2>2, <2>3
  <2>8. Good(0)
    BY <2>1, <2>4, <2>5, <2>6, <2>7, AllUnitsEmpty
  <2> HIDE DEF Good
  <2> QED BY <2>8
<1>4. ASSUME NEW j \in S PROVE j + 1 \in S
  <2>1. j \in Nat /\ j + 1 \in Nat /\ (j + 1) - 1 = j
    OBVIOUS
  <2> SUFFICES ASSUME j + 1 \in 0 .. n PROVE Good(j + 1)
    BY <2>1
  <2>2. j \in 0 .. n /\ j + 1 \in 1 .. n /\ j + 1 # 0
    BY <1>1, <2>1
  <2>3. Good(j)
    BY <2>2
  <2> DEFINE s == segs[j + 1]
  <2>4. s \in Piece
    BY <2>2, ElementOfSeq
  <2>5. f[j + 1] = Placed(f[j], s)
    <3>1. f[j + 1] = IF j + 1 = 0 THEN Nothing
                     ELSE Placed(f[(j + 1) - 1], segs[j + 1])
      BY ONLY <1>2, j + 1 \in 0 .. n, ScanStep
    <3> QED BY <2>1, <2>2, <3>1
  <2> DEFINE acc == f[j]
  <2> DEFINE front == SubSeq(segs, 1, j)
  <2>6. PlacedUnits(acc, Placed(acc, s), s)
    <3>1. ScanState(acc)
      BY <2>3
    <3> HIDE DEF acc, s
    <3> QED BY <2>4, <3>1, PlacedKeeps
  <2>7. /\ SubSeq(segs, 1, j + 1) = Append(front, s)
        /\ front \in Seq(Piece)
    <3>1. SubSeq(segs, 1, j + 1)
            = Append(SubSeq(segs, 1, (j + 1) - 1), segs[j + 1])
      BY <2>2, SubSeqRecursiveSecond
    <3>2. front \in Seq(Piece)
      BY <1>1, <2>2, SubSeqProperties
    <3> QED BY <2>1, <3>1, <3>2
  <2>8. ScanUnits(acc) = AllUnits(front) /\ Len(acc.shut) + Len(acc.open) <= j
    BY <2>3
  <2> DEFINE p == Placed(acc, s)
  <2>9. ScanState(p) /\ ScanUnits(p) = ScanUnits(acc) \o Units(s)
    BY <2>6 DEF PlacedUnits
  <2>10. Len(p.shut) + Len(p.open) <= j + 1
    <3>1. Len(p.shut) + Len(p.open) <= Len(acc.shut) + Len(acc.open) + 1
      BY <2>6 DEF PlacedUnits
    <3>2. /\ Len(p.shut) \in Nat /\ Len(p.open) \in Nat
          /\ Len(acc.shut) \in Nat /\ Len(acc.open) \in Nat
      BY <2>3, <2>9, LenProperties DEF ScanState
    <3> DEFINE la == Len(p.shut)
    <3> DEFINE lb == Len(p.open)
    <3> DEFINE lc == Len(acc.shut)
    <3> DEFINE ld == Len(acc.open)
    <3>3. /\ la \in Nat /\ lb \in Nat /\ lc \in Nat /\ ld \in Nat
          /\ la + lb <= lc + ld + 1
      BY ONLY <3>1, <3>2
    <3>4. lc + ld <= j
      BY ONLY <2>8
    <3> HIDE DEF la, lb, lc, ld
    <3>5. la + lb <= j + 1
      BY ONLY <2>1, <3>3, <3>4
    <3> QED BY ONLY <3>5 DEF la, lb
  <2> HIDE DEF front, s
  <2>11. AllUnits(Append(front, s)) = AllUnits(front) \o Units(s)
    BY <2>4, <2>7, AllUnitsAppend
  <2>12. ScanUnits(p) = AllUnits(SubSeq(segs, 1, j + 1))
    BY <2>7, <2>8, <2>9, <2>11
  <2>13. f[j + 1] = p
    BY <2>5 DEF s
  <2> HIDE DEF p, acc
  <2> QED BY <2>9, <2>10, <2>12, <2>13
<1>5. S = Nat
  <2> S \in SUBSET Nat OBVIOUS
  <2> HIDE DEF S
  <2> QED BY <1>3, <1>4, NatSetInduction
<1>6. Good(n)
  <2>1. n \in S /\ n \in 0 .. n
    <3> HIDE DEF S, Good
    <3> QED BY <1>1, <1>5
  <2> HIDE DEF Good
  <2> QED BY <2>1
<1>7. SubSeq(segs, 1, n) = segs
  BY SubSeqFull
<1>8. Len(f[n].shut) <= n
  <2>1. Len(f[n].shut) \in Nat /\ Len(f[n].open) \in Nat
    BY <1>6, LenProperties DEF ScanState
  <2>2. Len(f[n].shut) + Len(f[n].open) <= n
    BY <1>6
  <2> DEFINE a == Len(f[n].shut)
  <2> DEFINE b == Len(f[n].open)
  <2>3. a \in Nat /\ b \in Nat /\ a + b <= n
    BY <2>1, <2>2
  <2> HIDE DEF a, b
  <2>4. a <= n
    BY <1>1, <2>3
  <2> QED BY <2>4 DEF a
<1> QED BY <1>2, <1>6, <1>7, <1>8

-----------------------------------------------------------------------------
(* The builds.                                                             *)

\* The quotients the parameter guards leave.
LEMMA Division ==
  ASSUME NEW d \in Nat \ {0}
  PROVE  /\ d \div d = 1 /\ (2 * d) \div d = 2
         /\ (2 * d - 1) \div d = 1 /\ (3 * d) \div d = 3
<1>1. d \div d = 1
  BY SMT
<1>2. (2 * d) \div d = 2
  BY SMT
<1>3. (2 * d - 1) \div d = 1
  BY SMT
<1>4. (3 * d) \div d = 3
  BY SMT
<1> QED BY <1>1, <1>2, <1>3, <1>4

\* What the parameter guards admit.
BuildTyped ==
  /\ build.segs \in Nat \ {0} /\ build.slots \in Nat \ {0}
  /\ build.compact \in BOOLEAN
  /\ CP_FPC \in {1, 2}
  /\ CP_NE = build.segs + CP_FPC - 1
  /\ CP_NSL \in Nat /\ CP_NE <= CP_NSL

\* A slot has one segment or two, and the slots of CP_NB beats are enough
\* for every segment a scan may meet.
LEMMA BuildFacts ==
  ASSUME build \in Builds PROVE BuildTyped
<1> DEFINE d == build.slots
<1>1. /\ build.segs \in Nat \ {0} /\ d \in Nat \ {0}
      /\ build.compact \in BOOLEAN
      /\ build.segs = d \/ build.segs = 2 * d
  BY BuildsAssumption
<1> DEFINE beats == (CP_NE + d - 1) \div d
<1> DEFINE fits == {n \in {2, 4, 8} : n >= beats}
<1>2. CP_NB = CHOOSE n \in fits : \A m \in fits : n <= m
  BY DEF CP_NB
<1>3. CP_NSL = d * CP_NB /\ CP_NE = build.segs + CP_FPC - 1
  BY DEF CP_NSL, CP_NE
<1>4. CASE build.segs = d
  <2>1. CP_FPC = 1
    BY <1>1, <1>4, Division DEF CP_FPC
  <2>2. CP_NE = d
    BY <1>1, <1>3, <1>4, <2>1
  <2>3. beats = 1
    <3>1. CP_NE + d - 1 = 2 * d - 1
      BY <1>1, <2>2
    <3> QED BY <1>1, <3>1, Division
  <2> HIDE DEF beats
  <2>4. fits = {2, 4, 8}
    BY <2>3
  <2>5. CP_NB = 2
    <3> HIDE DEF fits
    <3> QED BY <1>2, <2>4
  <2>6. CP_NSL \in Nat /\ d <= CP_NSL
    <3> HIDE DEF d
    <3> QED BY <1>1, <1>3, <2>5
  <2> QED BY <1>1, <1>3, <2>1, <2>2, <2>6 DEF BuildTyped
<1>5. CASE build.segs = 2 * d
  <2>1. CP_FPC = 2
    BY <1>1, <1>5, Division DEF CP_FPC
  <2>2. CP_NE = 2 * d + 1
    BY <1>1, <1>3, <1>5, <2>1
  <2>3. beats = 3
    <3>1. CP_NE + d - 1 = 3 * d
      BY <1>1, <2>2
    <3> QED BY <1>1, <3>1, Division
  <2> HIDE DEF beats
  <2>4. fits = {4, 8}
    BY <2>3
  <2>5. CP_NB = 4
    <3> HIDE DEF fits
    <3> QED BY <1>2, <2>4
  <2>6. CP_NSL \in Nat /\ 2 * d + 1 <= CP_NSL
    <3> HIDE DEF d
    <3> QED BY <1>1, <1>3, <2>5
  <2> QED BY <1>1, <1>3, <2>1, <2>2, <2>6 DEF BuildTyped
<1> QED BY <1>1, <1>4, <1>5

\* Every slot the scan shuts is written.
LEMMA SlotsAll ==
  ASSUME build \in Builds, cy_reg \in Seq(Carry), rx_cpl_reg \in Seq(Piece),
         Len(cy_reg) < CP_FPC, Len(rx_cpl_reg) <= build.segs
  PROVE  /\ Slots \in Seq(Piece)
         /\ Scanned.open \in Seq(Carry) /\ Len(Scanned.open) < CP_FPC
         /\ AllUnits(Slots) \o AllUnits(Scanned.open)
              = AllUnits(cy_reg) \o AllUnits(rx_cpl_reg)
<1>1. BuildTyped
  BY BuildFacts
<1>2. /\ cy_reg \in Seq(Piece)
      /\ Len(cy_reg) \in Nat /\ Len(rx_cpl_reg) \in Nat
  BY CarryIsPiece, LenProperties
<1> DEFINE segs == cy_reg \o rx_cpl_reg
<1>3. segs \in Seq(Piece) /\ Len(segs) = Len(cy_reg) + Len(rx_cpl_reg)
  BY <1>2, ConcatProperties
<1>4. AllUnits(segs) = AllUnits(cy_reg) \o AllUnits(rx_cpl_reg)
  BY ONLY <1>2, rx_cpl_reg \in Seq(Piece), AllUnitsConcat
<1>5. CP_FPC \in {1, 2}
  BY <1>1 DEF BuildTyped
<1>6. Scanned = Scan(segs)
  BY DEF Scanned
<1> HIDE DEF segs
<1>7. /\ ScanState(Scanned)
      /\ ScanUnits(Scanned) = AllUnits(segs)
      /\ Len(Scanned.shut) <= Len(segs)
  BY ONLY <1>3, <1>5, <1>6, ScanKeeps
<1> DEFINE shut == Scanned.shut
<1>8. /\ shut \in Seq(Shut) /\ Len(shut) \in Nat
      /\ DOMAIN shut = 1 .. Len(shut)
      /\ Scanned.open \in Seq(Carry) /\ Len(Scanned.open) < CP_FPC
  BY <1>7, LenProperties DEF ScanState
<1>9. ~(Len(shut) > CP_NSL)
  <2> DEFINE a == Len(shut)
  <2> DEFINE b == Len(cy_reg)
  <2> DEFINE c == Len(rx_cpl_reg)
  <2>1. a \in Nat /\ b \in Nat /\ c \in Nat /\ a <= b + c
    BY ONLY <1>2, <1>3, <1>7, <1>8
  <2>2. b < CP_FPC /\ c <= build.segs
    OBVIOUS
  <2>3. /\ build.segs \in Nat /\ CP_FPC \in Nat /\ CP_NSL \in Nat
        /\ build.segs + CP_FPC - 1 <= CP_NSL
    BY <1>1 DEF BuildTyped
  <2> HIDE DEF a, b, c
  <2>4. ~(a > CP_NSL)
    BY ONLY <2>1, <2>2, <2>3
  <2> QED BY <2>4 DEF a
<1>10. Slots = SlotsOf(shut)
  <2>1. Slots = [i \in 1 .. Len(shut) |-> Slot(shut[i])]
    BY <1>9 DEF Slots
  <2> QED BY <1>8, <2>1 DEF SlotsOf
<1>11. Slots \in Seq(Piece)
  BY <1>8, <1>10, SlotsOfTyped
<1> QED BY <1>4, <1>7, <1>8, <1>10, <1>11 DEF ScanUnits

-----------------------------------------------------------------------------
(* The realignment of the beat held.                                       *)

\* Lists of one element or none.
LEMMA FlattenShort ==
  ASSUME NEW X, NEW tt \in Seq({x \in Seq(X) : Len(x) <= 1})
  PROVE  Len(FlattenSeq(tt)) <= Len(tt)
<1> DEFINE Y == {x \in Seq(X) : Len(x) <= 1}
<1> DEFINE Z == {uu \in Seq(Y) : Len(FlattenSeq(uu)) <= Len(uu)}
<1>1. <<>> \in Z
  BY FlattenEmpty
<1>2. ASSUME NEW uu \in Z, NEW y \in Y PROVE Append(uu, y) \in Z
  <2>1. uu \in Seq(Seq(X)) /\ y \in Seq(X)
    BY SeqMonotonic
  <2>2. FlattenSeq(Append(uu, y)) = FlattenSeq(uu) \o y
    BY ONLY <2>1, FlattenAppend
  <2>3. FlattenSeq(uu) \in Seq(X)
    BY <2>1, FlattenTyped
  <2>4. Len(FlattenSeq(uu) \o y) = Len(FlattenSeq(uu)) + Len(y)
    BY <2>1, <2>3, ConcatProperties
  <2>5. Append(uu, y) \in Seq(Y) /\ Len(Append(uu, y)) = Len(uu) + 1
    OBVIOUS
  <2> DEFINE a == Len(FlattenSeq(uu))
  <2> DEFINE b == Len(uu)
  <2> DEFINE c == Len(y)
  <2>6. /\ a \in Nat /\ b \in Nat /\ c \in Nat /\ a <= b /\ c <= 1
    BY <2>1, <2>3, LenProperties
  <2> HIDE DEF a, b, c
  <2>7. a + c <= b + 1
    BY ONLY <2>6
  <2> QED BY <2>2, <2>4, <2>5, <2>7 DEF a, b, c
<1>3. Z \in SUBSET Seq(Y)
  OBVIOUS
<1> HIDE DEF Z
<1>4. Z = Seq(Y)
  <2> HIDE DEF Y
  <2> QED BY ONLY <1>1, <1>2, <1>3, SeqSetInduction
<1> QED BY <1>4 DEF Z

\* A segment makes one realigned segment at most.
LEMMA MovedShort ==
  ASSUME NEW s, NEW n PROVE Len(Moved(s, n)) <= 1
BY DEF Moved, When

\* An idle segment is a segment, and not valid.
LEMMA IdleIsSegment == Idle \in Segment /\ ~Idle.valid
BY DEF Idle, Segment, Ids

\* The segment behind the beat held.
Behind(b) == IF b = NoBeat THEN Idle ELSE b[1]

\* The realigned segments are what the segments of the beat held make, and
\* no more than there are segments.
LEMMA RealignedIs ==
  ASSUME rc_int_reg \in Seq(Segment), Len(rc_int_reg) = build.segs,
         NEW b, Behind(b) \in Segment
  PROVE  /\ Realigned(b) = FlattenSeq(MovedOfEach(rc_int_reg, Behind(b)))
         /\ Realigned(b) \in Seq(Piece)
         /\ Len(Realigned(b)) <= build.segs
<1> DEFINE n == build.segs
<1> DEFINE rc == rc_int_reg
<1> DEFINE x == Behind(b)
<1>1. n \in Nat /\ Len(rc) = n
  BY LenProperties
<1>2. Full(b) = rc \o <<x>>
  BY DEF Full, Behind
<1>3. /\ \A i \in 1 .. n : Full(b)[i] = rc[i]
      /\ Full(b)[n + 1] = x
  BY <1>1, <1>2
<1>4. \A i \in 1 .. n : Full(b)[i + 1] = After(rc, x, i)
  <2> TAKE i \in 1 .. n
  <2>1. CASE i = n
    BY <1>1, <1>3, <2>1 DEF After
  <2>2. CASE i # n
    <3>1. i + 1 \in 1 .. n
      BY <1>1, <2>2
    <3> QED BY <1>1, <1>3, <2>2, <3>1 DEF After
  <2> QED BY <2>1, <2>2
<1> DEFINE mm == MovedOfEach(rc, x)
<1> DEFINE moved == [i \in 1 .. n |-> Moved(Full(b)[i], Full(b)[i + 1])]
<1> HIDE DEF x
<1>5. moved = mm
  BY <1>1, <1>3, <1>4 DEF MovedOfEach
<1>6. Realigned(b) = FlattenSeq(mm)
  BY <1>5 DEF Realigned
<1>7. mm \in Seq(Seq(Piece)) /\ Len(mm) = n
      /\ \A i \in 1 .. n : mm[i] = Moved(rc[i], After(rc, x, i))
  BY <1>1, MovedOfEachTyped DEF x
<1> HIDE DEF mm
<1>8. Realigned(b) \in Seq(Piece)
  BY <1>6, <1>7, FlattenTyped
<1>9. Len(Realigned(b)) <= n
  <2> DEFINE Y == {y \in Seq(Piece) : Len(y) <= 1}
  <2>1. DOMAIN mm = 1 .. n /\ \A i \in 1 .. n : mm[i] \in Y
    BY <1>7, MovedShort, ElementOfSeq, LenProperties
  <2>2. mm \in Seq(Y)
    <3>1. mm = [i \in 1 .. n |-> mm[i]]
      BY <1>7, <2>1, LenProperties
    <3>2. n \in Nat /\ \A i \in 1 .. n : mm[i] \in Y
      BY <1>1, <2>1
    <3> HIDE DEF Y, n
    <3>3. [i \in 1 .. n |-> mm[i]] \in Seq(Y)
      BY ONLY <3>2, IsASeq
    <3> QED BY ONLY <3>1, <3>3
  <2> QED BY <1>6, <1>7, <2>2, FlattenShort
<1> QED BY <1>6, <1>8, <1>9 DEF mm, x

\* The segments of a beat follow each other.
InLine(rc) == \A i \in 1 .. Len(rc) : i # Len(rc) => Follows(rc[i], rc[i + 1])

\* With a beat behind it the beat held leaves whole; what the new beat's
\* first segment brings goes with it, and the rest is held.
LEMMA TakesBeat ==
  ASSUME NEW rc \in Seq(Segment), rc # <<>>, InLine(rc),
         NEW b \in Seq(Segment), b # <<>>,
         Follows(rc[Len(rc)], b[1]),
         ~rc[Len(rc)].valid => ~b[1].valid \/ b[1].sop,
         \A i \in 1 .. Len(b) :
           i > 1 /\ ~b[i - 1].valid => ~b[i].valid \/ b[i].sop
  PROVE  AllUnits(FlattenSeq(MovedOfEach(rc, b[1]))) \o HeldUnits(b)
           = HeldUnits(rc) \o FlattenSeq(BusOfEach(b))
<1> DEFINE n == Len(rc)
<1> DEFINE x == b[1]
<1>1. n \in Nat \ {0} /\ 1 \in 1 .. Len(b) /\ rc[n] \in Segment
  BY EmptySeq, LenProperties, ElementOfSeq
<1>2. x \in Segment
  BY <1>1, ElementOfSeq
<1>3. \A i \in 1 .. n : Follows(rc[i], After(rc, x, i))
  BY DEF InLine, After
<1>4. Handed(rc[n], x) = Brings(x)
  BY DEF Handed, Brings
<1>5. Brings(x) \o HeldUnits(b) = FlattenSeq(BusOfEach(b))
  BY HeldBus
<1> DEFINE m == AllUnits(FlattenSeq(MovedOfEach(rc, x)))
<1> HIDE DEF x
<1>6. m = HeldUnits(rc) \o Brings(x)
  BY <1>2, <1>3, <1>4, AllMoved
<1> DEFINE h == HeldUnits(rc)
<1> DEFINE g == Brings(x)
<1> DEFINE k == HeldUnits(b)
<1>7. h \in Seq(Unit) /\ g \in Seq(Unit) /\ k \in Seq(Unit)
  BY <1>2, HeldUnitsTyped, BringsTyped
<1> HIDE DEF h, g, k, m
<1>8. (h \o g) \o k = h \o (g \o k)
  <2>1. Regroups(h, g, k)
    BY ONLY <1>7, Regroup, Zenon
  <2> QED BY ONLY <2>1 DEF Regroups
<1> QED BY <1>5, <1>6, <1>8 DEF h, g, k, m, x

\* What is left of a beat when no other takes its place.
Left(rc) ==
  [i \in 1 .. Len(rc) |->
     IF Stuck(rc[i], After(rc, Idle, i)) THEN rc[i] ELSE Idle]

\* Only a last segment that goes on is left.
LEMMA LeftIs ==
  ASSUME NEW rc \in Seq(Segment), rc # <<>>, InLine(rc)
  PROVE  /\ Left(rc) \in Seq(Segment) /\ Len(Left(rc)) = Len(rc)
         /\ \A i \in 1 .. Len(rc) : i # Len(rc) => Left(rc)[i] = Idle
         /\ Left(rc)[Len(rc)]
              = IF rc[Len(rc)].valid /\ rc[Len(rc)].eop = "no"
                THEN rc[Len(rc)] ELSE Idle
<1> DEFINE n == Len(rc)
<1>1. n \in Nat \ {0} /\ \A i \in 1 .. n : rc[i] \in Segment
  BY EmptySeq, LenProperties, ElementOfSeq
<1>2. Left(rc) \in Seq(Segment) /\ Len(Left(rc)) = n
  <2>1. \A i \in 1 .. n :
          (IF Stuck(rc[i], After(rc, Idle, i)) THEN rc[i] ELSE Idle)
             \in Segment
    BY <1>1, IdleIsSegment
  <2>2. Left(rc) \in Seq(Segment)
    BY <1>1, <2>1, IsASeq DEF Left
  <2> QED BY <1>1, <2>2 DEF Left
<1>3. \A i \in 1 .. n : i # n => Left(rc)[i] = Idle
  <2> TAKE i \in 1 .. n
  <2>1. i # n => After(rc, Idle, i) = rc[i + 1] /\ Follows(rc[i], rc[i + 1])
    BY DEF After, InLine
  <2>2. i # n => ~Stuck(rc[i], After(rc, Idle, i))
    BY <2>1 DEF Follows, Stuck
  <2> QED BY <2>2 DEF Left
<1>4. Left(rc)[n] = IF rc[n].valid /\ rc[n].eop = "no" THEN rc[n] ELSE Idle
  <2>1. n \in 1 .. n /\ After(rc, Idle, n) = Idle
    BY <1>1 DEF After
  <2>2. Left(rc)[n] = IF Stuck(rc[n], After(rc, Idle, n)) THEN rc[n] ELSE Idle
    BY <2>1 DEF Left
  <2> QED BY <2>1, <2>2, IdleIsSegment DEF Stuck
<1> QED BY <1>2, <1>3, <1>4

\* With nothing behind it, what does not leave is held.
LEMMA TakesNothing ==
  ASSUME NEW rc \in Seq(Segment), rc # <<>>, InLine(rc)
  PROVE  AllUnits(FlattenSeq(MovedOfEach(rc, Idle))) \o HeldUnits(Left(rc))
           = HeldUnits(rc)
<1> DEFINE n == Len(rc)
<1> DEFINE l == Left(rc)
<1>1. n \in Nat \ {0} /\ rc[n] \in Segment
  BY EmptySeq, LenProperties, ElementOfSeq
<1>2. /\ l \in Seq(Segment) /\ Len(l) = n
      /\ \A i \in 1 .. n : i # n => l[i] = Idle
      /\ l[n] = IF rc[n].valid /\ rc[n].eop = "no" THEN rc[n] ELSE Idle
  BY LeftIs
<1> HIDE DEF l
<1>3. l # <<>> /\ \A i \in 1 .. Len(l) : i # Len(l) => ~l[i].valid
  BY <1>1, <1>2, IdleIsSegment
<1>4. HeldUnits(l) = Carries(l[n])
  BY <1>2, <1>3, HeldLast
<1>5. \A i \in 1 .. n : i # n => Follows(rc[i], After(rc, Idle, i))
  BY DEF InLine, After
<1>6. CASE rc[n].valid /\ rc[n].eop = "no"
  <2>1. Stuck(rc[n], Idle)
    BY <1>6, IdleIsSegment DEF Stuck
  <2>2. AllUnits(FlattenSeq(MovedOfEach(rc, Idle))) \o Carries(rc[n])
          = HeldUnits(rc)
    BY <1>5, <2>1, IdleIsSegment, AllMovedButLast
  <2> QED BY <1>2, <1>4, <1>6, <2>2 DEF l
<1>7. CASE ~(rc[n].valid /\ rc[n].eop = "no")
  <2>1. After(rc, Idle, n) = Idle
    BY DEF After
  <2>2. Follows(rc[n], Idle)
    BY <1>7, IdleIsSegment DEF Follows
  <2>3. \A i \in 1 .. n : Follows(rc[i], After(rc, Idle, i))
    BY <1>5, <2>1, <2>2
  <2>4. AllUnits(FlattenSeq(MovedOfEach(rc, Idle)))
          = HeldUnits(rc) \o Handed(rc[n], Idle)
    BY <2>3, IdleIsSegment, AllMoved
  <2>5. Handed(rc[n], Idle) = <<>> /\ Carries(Idle) = <<>>
    BY IdleIsSegment DEF Handed, Brings, Carries
  <2>6. HeldUnits(l) = <<>>
    BY <1>2, <1>4, <1>7, <2>5
  <2>7. HeldUnits(rc) \in Seq(Unit)
    BY HeldUnitsTyped
  <2>8. HeldUnits(rc) \o <<>> = HeldUnits(rc)
    BY <2>7, ConcatEmptySeq
  <2> QED BY <2>4, <2>5, <2>6, <2>8 DEF l
<1> QED BY <1>6, <1>7

-----------------------------------------------------------------------------
(* The invariant, and an edge of the realignment.                          *)

\* The types of the registers and of the account.
TypeOK ==
  /\ build \in Builds
  /\ rc_int_reg \in Seq(Segment) /\ Len(rc_int_reg) = build.segs
  /\ rx_cpl_reg \in Seq(Piece) /\ Len(rx_cpl_reg) <= build.segs
  /\ b1_valid_reg \in BOOLEAN
  /\ b1_slots \in Seq(Piece) /\ cp_reg \in Seq(Piece)
  /\ cy_reg \in Seq(Carry) /\ Len(cy_reg) < CP_FPC
  /\ bus_open \in BOOLEAN /\ bus_tag \in 0 .. 1
  /\ owed \in Seq(Unit)

\* Whether rc leaves its last TLP open.
Open(rc) == rc[Len(rc)].valid /\ rc[Len(rc)].eop = "no"

\* The segments held follow each other, the bus is open if their last one
\* is, and what is not valid is empty.
Framed ==
  /\ InLine(rc_int_reg)
  /\ bus_open = Open(rc_int_reg)
  /\ ~b1_valid_reg => b1_slots = <<>>
  /\ ~build.compact => b1_slots = <<>> /\ cy_reg = <<>> /\ cp_reg = <<>>

\* The units of slots, slots, the carry and the realigned, and those held.
Kept(cp, b1, cy, rx, rc) ==
  AllUnits(cp) \o (AllUnits(b1) \o
    (AllUnits(cy) \o (AllUnits(rx) \o HeldUnits(rc))))

\* What is owed to the FIFO is what the registers keep, oldest first.
OwedIsKept == owed = Kept(cp_reg, b1_slots, cy_reg, rx_cpl_reg, rc_int_reg)

\* The inductive invariant.
Inv == TypeOK /\ Framed /\ OwedIsKept

\* A beat of the core: the number does not change its frames.
BeatOnBus(c) ==
  /\ c \in Seq(Segment) /\ Len(c) = build.segs
  /\ InLine(c)
  /\ bus_open => c[1].valid /\ ~c[1].sop
  /\ ~bus_open => ~c[1].valid \/ c[1].sop
  /\ \A i \in 1 .. Len(c) :
       i > 1 /\ ~c[i - 1].valid => ~c[i].valid \/ c[i].sop

\* A numbered beat is framed as the bus is.
LEMMA NumberedIs ==
  ASSUME build \in Builds, bus_open \in BOOLEAN, bus_tag \in 0 .. 1,
         NEW b \in Beats(build, bus_open)
  PROVE  /\ BeatOnBus(Numbered(b))
         /\ OpenAfter(b) = Open(Numbered(b))
<1> DEFINE n == build.segs
<1> DEFINE c == Numbered(b)
<1>1. n \in Nat \ {0}
  BY BuildFacts DEF BuildTyped
<1>2. /\ b \in [1 .. n -> [valid : BOOLEAN, sop : BOOLEAN,
                           eop : {"no", "lo", "hi"}, id : {Idle.id}]]
      /\ \A i \in 1 .. n :
           /\ OpenBefore(bus_open, b, i) => b[i].valid
           /\ b[i].valid => b[i].sop = ~OpenBefore(bus_open, b, i)
  BY BeatsAssumption
<1>3. \A i \in 1 .. n :
        /\ c[i] \in Segment
        /\ c[i].valid = b[i].valid /\ c[i].sop = b[i].sop
        /\ c[i].eop = b[i].eop
  <2> TAKE i \in 1 .. n
  <2>1. c[i] = [b[i] EXCEPT !.id = <<bus_tag, i>>]
    BY <1>2 DEF Numbered
  <2>2. <<bus_tag, i>> \in Ids
    BY DEF Ids
  <2>3. b[i] \in [valid : BOOLEAN, sop : BOOLEAN,
                  eop : {"no", "lo", "hi"}, id : {Idle.id}]
    BY <1>2
  <2> HIDE DEF c
  <2> QED BY <2>1, <2>2, <2>3 DEF Segment
<1>4. DOMAIN b = 1 .. n
  BY <1>2
<1>5. c \in Seq(Segment) /\ Len(c) = n
  <2>1. c = [i \in 1 .. n |-> c[i]]
    BY <1>4 DEF Numbered
  <2> HIDE DEF c, n
  <2>2. [i \in 1 .. n |-> c[i]] \in Seq(Segment)
    BY <1>1, <1>3, IsASeq
  <2>3. DOMAIN c = 1 .. n
    BY <2>1
  <2> QED BY <1>1, <2>1, <2>2, <2>3, LenProperties
<1>6. Len(b) = n
  <2> DEFINE X == [valid : BOOLEAN, sop : BOOLEAN,
                   eop : {"no", "lo", "hi"}, id : {Idle.id}]
  <2>1. b \in Seq(X)
    <3>1. b = [i \in 1 .. n |-> b[i]] /\ \A i \in 1 .. n : b[i] \in X
      BY <1>2
    <3> HIDE DEF n, X
    <3>2. [i \in 1 .. n |-> b[i]] \in Seq(X)
      BY <1>1, <3>1, IsASeq
    <3> QED BY <3>1, <3>2
  <2> HIDE DEF X
  <2> QED BY <1>1, <1>4, <2>1, LenProperties
<1> HIDE DEF c
<1>7. OpenAfter(b) = Open(c)
  <2>1. n \in 1 .. n
    BY <1>1
  <2>2. c[n].valid = b[n].valid /\ c[n].eop = b[n].eop
    BY <1>3, <2>1
  <2> QED BY <1>5, <1>6, <2>2 DEF OpenAfter, Open
<1>8. \A i \in 1 .. n : i > 1 => OpenBefore(bus_open, b, i)
                          = (c[i - 1].valid /\ c[i - 1].eop = "no")
  <2> TAKE i \in 1 .. n
  <2> SUFFICES ASSUME i > 1
               PROVE  OpenBefore(bus_open, b, i)
                        = (c[i - 1].valid /\ c[i - 1].eop = "no")
    OBVIOUS
  <2>1. i - 1 \in 1 .. n /\ i # 1
    BY <1>1
  <2>2. c[i - 1].valid = b[i - 1].valid /\ c[i - 1].eop = b[i - 1].eop
    BY <1>3, <2>1
  <2> QED BY <2>1, <2>2 DEF OpenBefore
<1>9. InLine(c)
  <2> SUFFICES ASSUME NEW i \in 1 .. n, i # n
               PROVE  Follows(c[i], c[i + 1])
    BY <1>5 DEF InLine
  <2> DEFINE j == i + 1
  <2>1. j \in 1 .. n /\ j > 1 /\ j - 1 = i
    BY <1>1
  <2> HIDE DEF j
  <2>2. OpenBefore(bus_open, b, j) = (c[i].valid /\ c[i].eop = "no")
    BY <1>8, <2>1
  <2>3. /\ OpenBefore(bus_open, b, j) => c[j].valid
        /\ c[j].valid => c[j].sop = ~OpenBefore(bus_open, b, j)
    BY <1>2, <1>3, <2>1
  <2>4. Follows(c[i], c[j])
    BY <2>2, <2>3 DEF Follows
  <2> QED BY <2>4 DEF j
<1>10. /\ bus_open => c[1].valid /\ ~c[1].sop
       /\ ~bus_open => ~c[1].valid \/ c[1].sop
  <2>1. 1 \in 1 .. n /\ OpenBefore(bus_open, b, 1) = bus_open
    BY <1>1 DEF OpenBefore
  <2> QED BY <1>2, <1>3, <2>1
<1>11. \A i \in 1 .. n :
         i > 1 /\ ~c[i - 1].valid => ~c[i].valid \/ c[i].sop
  <2> TAKE i \in 1 .. n
  <2>1. i > 1 /\ ~c[i - 1].valid => ~OpenBefore(bus_open, b, i)
    BY <1>8
  <2> QED BY <1>2, <1>3, <2>1
<1> QED BY <1>5, <1>7, <1>9, <1>10, <1>11 DEF BeatOnBus, c

\* What a beat of segments brings.
Sent(b) == FlattenSeq([i \in DOMAIN b |-> BusUnits(b[i])])

\* A step of the realignment from the registers to rx and rc.
Realigns(rx, rc, sent) ==
  /\ rx \in Seq(Piece) /\ Len(rx) <= build.segs
  /\ rc \in Seq(Segment) /\ Len(rc) = build.segs
  /\ InLine(rc)
  /\ sent \in Seq(Unit)
  /\ AllUnits(rx) \o HeldUnits(rc) = HeldUnits(rc_int_reg) \o sent

\* A beat taken over the realignment.
LEMMA BeatTaken ==
  ASSUME TypeOK, Framed, NEW c, BeatOnBus(c)
  PROVE  c # NoBeat /\ Realigns(Realigned(c), c, Sent(c))
<1> DEFINE n == build.segs
<1> DEFINE rc == rc_int_reg
<1>1. n \in Nat \ {0}
  BY BuildFacts DEF BuildTyped, TypeOK
<1>2. /\ rc \in Seq(Segment) /\ Len(rc) = n /\ rc # <<>>
      /\ c \in Seq(Segment) /\ Len(c) = n /\ c # <<>>
      /\ InLine(rc) /\ InLine(c)
  BY <1>1, EmptySeq DEF TypeOK, Framed, BeatOnBus
<1>3. Behind(c) = c[1] /\ c[1] \in Segment /\ rc[n] \in Segment
  BY <1>1, <1>2, ElementOfSeq DEF Behind, NoBeat
<1>4. /\ Realigned(c) = FlattenSeq(MovedOfEach(rc, c[1]))
      /\ Realigned(c) \in Seq(Piece) /\ Len(Realigned(c)) <= n
  BY <1>2, <1>3, RealignedIs
<1>5. bus_open = (rc[n].valid /\ rc[n].eop = "no")
  BY <1>2 DEF Framed, Open
<1>6. /\ Follows(rc[n], c[1])
      /\ ~rc[n].valid => ~c[1].valid \/ c[1].sop
  BY <1>3, <1>5 DEF BeatOnBus, Follows, Segment
<1>7. \A i \in 1 .. Len(c) :
        i > 1 /\ ~c[i - 1].valid => ~c[i].valid \/ c[i].sop
  BY DEF BeatOnBus
<1>8. AllUnits(FlattenSeq(MovedOfEach(rc, c[1]))) \o HeldUnits(c)
        = HeldUnits(rc) \o FlattenSeq(BusOfEach(c))
  BY <1>2, <1>6, <1>7, TakesBeat
<1>9. Sent(c) = FlattenSeq(BusOfEach(c)) /\ Sent(c) \in Seq(Unit)
  BY <1>2, BusOfEachTyped, FlattenTyped DEF Sent, BusOfEach
<1> QED BY <1>2, <1>4, <1>8, <1>9 DEF Realigns, NoBeat

\* An edge of the realignment without a beat.
LEMMA BeatMissed ==
  ASSUME TypeOK, Framed
  PROVE  /\ Realigns(Realigned(NoBeat), Remaining, Sent(NoBeat))
         /\ Sent(NoBeat) = <<>>
         /\ Open(Remaining) = Open(rc_int_reg)
         /\ Remaining = Left(rc_int_reg)
<1> DEFINE n == build.segs
<1> DEFINE rc == rc_int_reg
<1>1. n \in Nat \ {0}
  BY BuildFacts DEF BuildTyped, TypeOK
<1>2. rc \in Seq(Segment) /\ Len(rc) = n /\ rc # <<>> /\ InLine(rc)
  BY <1>1, EmptySeq DEF TypeOK, Framed
<1>3. Behind(NoBeat) = Idle
  BY DEF Behind
<1>4. /\ Realigned(NoBeat) = FlattenSeq(MovedOfEach(rc, Idle))
      /\ Realigned(NoBeat) \in Seq(Piece) /\ Len(Realigned(NoBeat)) <= n
  BY <1>2, <1>3, IdleIsSegment, RealignedIs
<1>5. Remaining = Left(rc)
  <2>1. Full(NoBeat) = rc \o <<Idle>>
    BY DEF Full
  <2>2. \A i \in 1 .. n : Full(NoBeat)[i + 1] = After(rc, Idle, i)
    <3> TAKE i \in 1 .. n
    <3>1. CASE i = n
      <4>1. Full(NoBeat)[n + 1] = Idle
        BY <1>1, <1>2, <2>1
      <4> QED BY <1>2, <3>1, <4>1 DEF After
    <3>2. CASE i # n
      <4>1. i + 1 \in 1 .. n
        BY <1>1, <3>2
      <4>2. Full(NoBeat)[i + 1] = rc[i + 1]
        BY <1>1, <1>2, <2>1, <4>1
      <4> QED BY <1>2, <3>2, <4>2 DEF After
    <3> QED BY <3>1, <3>2
  <2> QED BY <1>2, <2>2 DEF Remaining, Left, Stuck
<1>6. /\ Left(rc) \in Seq(Segment) /\ Len(Left(rc)) = n
      /\ \A i \in 1 .. n : i # n => Left(rc)[i] = Idle
      /\ Left(rc)[n] = IF rc[n].valid /\ rc[n].eop = "no"
                       THEN rc[n] ELSE Idle
  BY <1>2, LeftIs
<1>7. InLine(Left(rc))
  BY <1>6, IdleIsSegment DEF InLine, Follows
<1>8. AllUnits(FlattenSeq(MovedOfEach(rc, Idle))) \o HeldUnits(Left(rc))
        = HeldUnits(rc)
  BY <1>2, TakesNothing
<1>9. Sent(NoBeat) = <<>>
  <2>1. [i \in DOMAIN NoBeat |-> BusUnits(NoBeat[i])] = <<>>
    BY DEF NoBeat
  <2> QED BY <2>1, FlattenEmpty DEF Sent
<1>10. HeldUnits(rc) \in Seq(Unit) /\ <<>> \in Seq(Unit)
  BY <1>2, HeldUnitsTyped
<1>11. HeldUnits(rc) \o <<>> = HeldUnits(rc)
  BY <1>10, ConcatEmptySeq
<1>12. Open(Left(rc)) = Open(rc)
  BY <1>2, <1>6, IdleIsSegment DEF Open
<1> QED BY <1>4, <1>5, <1>6, <1>7, <1>8, <1>9, <1>10, <1>11, <1>12
     DEF Realigns

-----------------------------------------------------------------------------
(* Lists that hand over.                                                   *)

\* What is behind the first list of two.
LEMMA BackOf ==
  ASSUME NEW U, NEW g \in Seq(U), NEW t \in Seq(U)
  PROVE  SubSeq(g \o t, Len(g) + 1, Len(g \o t)) = t
<1> DEFINE q == g \o t
<1> DEFINE m == Len(g)
<1> DEFINE n == Len(t)
<1>1. /\ q \in Seq(U) /\ Len(q) = m + n /\ m \in Nat /\ n \in Nat
      /\ \A i \in 1 .. n : q[m + i] = t[i]
  OBVIOUS
<1> HIDE DEF q
<1> DEFINE r == SubSeq(q, m + 1, m + n)
<1>2. r \in Seq(U) /\ Len(r) = n /\ \A i \in 1 .. n : r[i] = q[m + i]
  <2> HIDE DEF m, n
  <2>1. m + 1 \in 1 .. Len(q) + 1 /\ m + n \in m .. Len(q)
    BY <1>1
  <2>2. /\ Len(r) = n
        /\ r \in Seq(U)
        /\ \A i \in 1 .. n : r[i] = q[m + i]
    BY <1>1, <2>1, SMT
  <2> QED BY <2>2
<1> HIDE DEF r
<1>3. r = t
  BY <1>1, <1>2, SeqEqual
<1> QED BY <1>1, <1>3 DEF r, q

\* A list cut after k elements.
LEMMA CutAt ==
  ASSUME NEW U, NEW q \in Seq(U), NEW k \in 0 .. Len(q)
  PROVE  /\ SubSeq(q, 1, k) \in Seq(U)
         /\ SubSeq(q, k + 1, Len(q)) \in Seq(U)
         /\ q = SubSeq(q, 1, k) \o SubSeq(q, k + 1, Len(q))
<1> DEFINE a == SubSeq(q, 1, k)
<1> DEFINE b == SubSeq(q, k + 1, Len(q))
<1>1. a \in Seq(U) /\ Len(a) = k /\ \A i \in 1 .. k : a[i] = q[i]
  OBVIOUS
<1>2. /\ b \in Seq(U) /\ Len(b) = Len(q) - k
      /\ \A i \in 1 .. Len(q) - k : b[i] = q[k + i]
  OBVIOUS
<1> HIDE DEF a, b
<1>3. /\ a \o b \in Seq(U) /\ Len(a \o b) = Len(q)
      /\ \A i \in 1 .. Len(q) : (a \o b)[i] = q[i]
  <2> DEFINE n == Len(q)
  <2>1. n \in Nat /\ k \in 0 .. n /\ Len(a) = k /\ Len(b) = n - k
    BY <1>1, <1>2
  <2>2. /\ a \o b \in Seq(U) /\ Len(a \o b) = Len(a) + Len(b)
        /\ \A i \in 1 .. Len(a) + Len(b) :
             (a \o b)[i] = IF i <= Len(a) THEN a[i] ELSE b[i - Len(a)]
    BY <1>1, <1>2, ConcatProperties
  <2> HIDE DEF n
  <2>3. Len(a) + Len(b) = n
    BY <2>1
  <2>4. \A i \in 1 .. n : i <= k => (a \o b)[i] = q[i]
    BY <1>1, <2>1, <2>2, <2>3
  <2>5. ASSUME NEW i \in 1 .. n, ~(i <= k) PROVE (a \o b)[i] = q[i]
    <3>1. i - k \in 1 .. n - k /\ k + (i - k) = i
      BY <2>1, <2>5
    <3>2. b[i - k] = q[k + (i - k)]
      BY <1>2, <3>1 DEF n
    <3> QED BY <2>1, <2>2, <2>3, <2>5, <3>1, <3>2
  <2> QED BY <2>2, <2>3, <2>4, <2>5 DEF n
<1>4. a \o b = q
  BY <1>3, SeqEqual
<1> QED BY <1>1, <1>2, <1>4 DEF a, b

\* Brackets moved to the right over a new end.
SixIn(U, c, b, y, x, h, s) == {c, b, y, x, h, s} \subseteq Seq(U)

\* The new end joins the innermost list.
EndJoins(c, b, y, x, h, s) ==
  (c \o (b \o (y \o (x \o h)))) \o s = c \o (b \o (y \o (x \o (h \o s))))

\* The brackets move.
LEMMA JoinsEnd ==
  ASSUME NEW U, NEW c, NEW b, NEW y, NEW x, NEW h, NEW s,
         SixIn(U, c, b, y, x, h, s)
  PROVE  EndJoins(c, b, y, x, h, s)
<1> DEFINE t1 == x \o h
<1> DEFINE t2 == y \o t1
<1> DEFINE t3 == b \o t2
<1>0. /\ c \in Seq(U) /\ b \in Seq(U) /\ y \in Seq(U)
      /\ x \in Seq(U) /\ h \in Seq(U) /\ s \in Seq(U)
  BY DEF SixIn
<1>1. t1 \in Seq(U)
  BY <1>0, ConcatProperties
<1>2. t2 \in Seq(U)
  <2> HIDE DEF t1
  <2> QED BY <1>0, <1>1, ConcatProperties
<1>3. t3 \in Seq(U)
  <2> HIDE DEF t2
  <2> QED BY <1>0, <1>2, ConcatProperties
<1>4. (x \o h) \o s = x \o (h \o s)
  <2>1. x \in Seq(U) /\ h \in Seq(U) /\ s \in Seq(U)
    BY <1>0
  <2>2. Regroups(x, h, s)
    BY ONLY <2>1, Regroup, Zenon
  <2> QED BY ONLY <2>2 DEF Regroups
<1>5. (y \o t1) \o s = y \o (t1 \o s)
  <2> HIDE DEF t1
  <2>1. y \in Seq(U) /\ t1 \in Seq(U) /\ s \in Seq(U)
    BY <1>0, <1>1, <1>2, <1>3
  <2>2. Regroups(y, t1, s)
    BY ONLY <2>1, Regroup, Zenon
  <2> QED BY ONLY <2>2 DEF Regroups
<1>6. (b \o t2) \o s = b \o (t2 \o s)
  <2> HIDE DEF t2
  <2>1. b \in Seq(U) /\ t2 \in Seq(U) /\ s \in Seq(U)
    BY <1>0, <1>1, <1>2, <1>3
  <2>2. Regroups(b, t2, s)
    BY ONLY <2>1, Regroup, Zenon
  <2> QED BY ONLY <2>2 DEF Regroups
<1>7. (c \o t3) \o s = c \o (t3 \o s)
  <2> HIDE DEF t3
  <2>1. c \in Seq(U) /\ t3 \in Seq(U) /\ s \in Seq(U)
    BY <1>0, <1>1, <1>2, <1>3
  <2>2. Regroups(c, t3, s)
    BY ONLY <2>1, Regroup, Zenon
  <2> QED BY ONLY <2>2 DEF Regroups
<1> QED BY ONLY <1>4, <1>5, <1>6, <1>7 DEF EndJoins

\* Every list hands to the next.
HandsOn(U, r, b, y, x, h, s, c1, b1, y1, x1, h1) ==
  /\ {r, b, y, x, h, s, b1, y1, x1, h1} \subseteq Seq(U)
  /\ r \o b = c1 /\ y \o x = b1 \o y1 /\ h \o s = x1 \o h1

\* The chain with a new end is the chain after the edge.
HandedOn(r, b, y, x, h, s, c1, b1, y1, x1, h1) ==
  (r \o (b \o (y \o (x \o h)))) \o s = c1 \o (b1 \o (y1 \o (x1 \o h1)))

\* The whole chain moves.
LEMMA KeptMoves ==
  ASSUME NEW U, NEW r, NEW b, NEW y, NEW x, NEW h, NEW s,
         NEW c1, NEW b1, NEW y1, NEW x1, NEW h1,
         HandsOn(U, r, b, y, x, h, s, c1, b1, y1, x1, h1)
  PROVE  HandedOn(r, b, y, x, h, s, c1, b1, y1, x1, h1)
<1> DEFINE z == x1 \o h1
<1>0. /\ r \in Seq(U) /\ b \in Seq(U) /\ y \in Seq(U) /\ x \in Seq(U)
      /\ h \in Seq(U) /\ s \in Seq(U) /\ b1 \in Seq(U) /\ y1 \in Seq(U)
      /\ x1 \in Seq(U) /\ h1 \in Seq(U)
      /\ r \o b = c1 /\ y \o x = b1 \o y1 /\ h \o s = x1 \o h1
  BY DEF HandsOn
<1>1. z \in Seq(U)
  BY <1>0, ConcatProperties
<1>2. (r \o (b \o (y \o (x \o h)))) \o s
        = r \o (b \o (y \o (x \o (h \o s))))
  <2>1. SixIn(U, r, b, y, x, h, s)
    BY <1>0 DEF SixIn
  <2>2. EndJoins(r, b, y, x, h, s)
    BY ONLY <2>1, JoinsEnd, Zenon
  <2> QED BY ONLY <2>2 DEF EndJoins
<1>3. h \o s = z
  BY <1>0
<1> HIDE DEF z
<1>4. (y \o x) \o z = y \o (x \o z)
  <2>1. y \in Seq(U) /\ x \in Seq(U) /\ z \in Seq(U)
    BY <1>0, <1>1
  <2>2. Regroups(y, x, z)
    BY ONLY <2>1, Regroup, Zenon
  <2> QED BY ONLY <2>2 DEF Regroups
<1>5. (b1 \o y1) \o z = b1 \o (y1 \o z)
  <2>1. b1 \in Seq(U) /\ y1 \in Seq(U) /\ z \in Seq(U)
    BY <1>0, <1>1
  <2>2. Regroups(b1, y1, z)
    BY ONLY <2>1, Regroup, Zenon
  <2> QED BY ONLY <2>2 DEF Regroups
<1> DEFINE w == b1 \o (y1 \o z)
<1>6. w \in Seq(U)
  <2>1. y1 \o z \in Seq(U)
    BY <1>0, <1>1, ConcatProperties
  <2> QED BY <1>0, <2>1, ConcatProperties
<1>7. y \o (x \o z) = w
  BY <1>0, <1>4, <1>5
<1> HIDE DEF w
<1>8. (r \o b) \o w = r \o (b \o w)
  <2>1. r \in Seq(U) /\ b \in Seq(U) /\ w \in Seq(U)
    BY <1>0, <1>6
  <2>2. Regroups(r, b, w)
    BY ONLY <2>1, Regroup, Zenon
  <2> QED BY ONLY <2>2 DEF Regroups
<1>9. r \o (b \o (y \o (x \o (h \o s)))) = c1 \o w
  BY <1>0, <1>3, <1>7, <1>8
<1> QED BY <1>2, <1>9 DEF w, z, HandedOn

\* The beats that hold l slots, d a beat.
LEMMA BeatsOf ==
  ASSUME NEW d \in Nat \ {0}, NEW l \in Nat
  PROVE  /\ (l + d - 1) \div d = 0 <=> l = 0
         /\ (l + d - 1) \div d = 1 => l <= d
<1>1. (l + d - 1) \div d = 0 => l = 0
  BY SMT
<1>2. l = 0 => (l + d - 1) \div d = 0
  BY SMT
<1>3. (l + d - 1) \div d = 1 => l <= d
  BY SMT
<1> QED BY <1>1, <1>2, <1>3

\* The slots that stay when the FIFO is ready or not.
Rest(fifo_tlp_ready) ==
  IF fifo_tlp_ready THEN SubSeq(cp_reg, build.slots + 1, Len(cp_reg))
                    ELSE cp_reg

\* The slots in cp_reg are those on offer and those behind them; the next
\* ones are loaded only when none stay.
LEMMA OfferIs ==
  ASSUME TypeOK, NEW fifo_tlp_ready \in BOOLEAN, build.compact
  PROVE  /\ OnOffer \in Seq(Piece) /\ Rest(fifo_tlp_ready) \in Seq(Piece)
         /\ cp_reg = (IF fifo_tlp_ready THEN OnOffer ELSE <<>>)
                        \o Rest(fifo_tlp_ready)
         /\ b2_free(fifo_tlp_ready) => Rest(fifo_tlp_ready) = <<>>
         /\ BeatsLeft = 0 => cp_reg = <<>> /\ OnOffer = <<>>
<1> DEFINE d == build.slots
<1> DEFINE l == Len(cp_reg)
<1> DEFINE k == IF l < d THEN l ELSE d
<1> DEFINE back == SubSeq(cp_reg, k + 1, l)
<1>1. d \in Nat \ {0} /\ l \in Nat /\ cp_reg \in Seq(Piece)
  BY BuildFacts, LenProperties DEF BuildTyped, TypeOK
<1>2. k \in 0 .. l
  BY <1>1
<1>3. OnOffer = SubSeq(cp_reg, 1, k)
  BY DEF OnOffer
<1>4. /\ OnOffer \in Seq(Piece) /\ back \in Seq(Piece)
      /\ cp_reg = OnOffer \o back
  <2> HIDE DEF k
  <2> QED BY <1>1, <1>2, <1>3, CutAt
<1>5. SubSeq(cp_reg, d + 1, l) = back
  <2>1. CASE l < d
    <3>1. k = l /\ d + 1 > l /\ k + 1 > l
      BY <1>1, <2>1
    <3> HIDE DEF k, d, l
    <3>2. SubSeq(cp_reg, d + 1, l) = <<>> /\ SubSeq(cp_reg, k + 1, l) = <<>>
      BY <1>1, <3>1, SubSeqEmpty
    <3> QED BY <3>2
  <2>2. CASE ~(l < d)
    BY <2>2
  <2> QED BY <2>1, <2>2
<1>6. fifo_tlp_ready => Rest(fifo_tlp_ready) = back
  BY <1>5 DEF Rest
<1>7. ~fifo_tlp_ready => Rest(fifo_tlp_ready) = cp_reg
  BY DEF Rest
<1>8. BeatsLeft = 0 => l = 0
  BY <1>1, BeatsOf DEF BeatsLeft
<1>9. BeatsLeft = 1 => l <= d
  BY <1>1, BeatsOf DEF BeatsLeft
<1>10. l = 0 => cp_reg = <<>> /\ OnOffer = <<>> /\ back = <<>>
  <2> SUFFICES ASSUME l = 0
               PROVE  cp_reg = <<>> /\ OnOffer = <<>> /\ back = <<>>
    OBVIOUS
  <2>1. k = 0
    BY <1>1
  <2>2. cp_reg = <<>>
    BY <1>1, EmptySeq
  <2> HIDE DEF k, l
  <2>3. SubSeq(cp_reg, 1, k) = <<>> /\ SubSeq(cp_reg, k + 1, l) = <<>>
    BY <1>1, <2>1, SubSeqEmpty
  <2> QED BY <1>3, <2>2, <2>3
<1>11. l <= d => back = <<>>
  <2> SUFFICES ASSUME l <= d PROVE back = <<>>
    OBVIOUS
  <2>1. k + 1 > l /\ k \in Nat
    BY <1>1
  <2> HIDE DEF k, l
  <2> QED BY <1>1, <2>1, SubSeqEmpty
<1> HIDE DEF back, l, d, k
<1>12. <<>> \o cp_reg = cp_reg
  BY <1>1, ConcatEmptySeq
<1> QED BY <1>1, <1>4, <1>6, <1>7, <1>8, <1>9, <1>10, <1>11, <1>12 DEF b2_free

-----------------------------------------------------------------------------
(* An edge of the whole engine.                                            *)

\* What the FIFO takes at an edge.
Gone(fifo_tlp_ready) == IF fifo_tlp_ready THEN AllUnits(OnOffer) ELSE <<>>

\* What an edge does with the realignment's registers, sent being new.
FrontMoves(fifo_tlp_ready, sent) ==
  /\ stage_a_ready(fifo_tlp_ready)
       => Realigns(rx_cpl_reg', rc_int_reg', sent)
  /\ ~stage_a_ready(fifo_tlp_ready)
       => UNCHANGED <<rx_cpl_reg, rc_int_reg>> /\ sent = <<>>

\* What is taken leaves the account, what is sent joins it.
AccountMoves(fifo_tlp_ready, sent) ==
  owed' = SubSeq(owed, Len(Gone(fifo_tlp_ready)) + 1, Len(owed)) \o sent

\* So does the model's account.
LEMMA AccountIs ==
  ASSUME NEW b, NEW fifo_tlp_ready \in BOOLEAN, Account(b, fifo_tlp_ready)
  PROVE  AccountMoves(fifo_tlp_ready, Sent(b))
<1>1. Len(Gone(fifo_tlp_ready))
        = IF fifo_tlp_ready THEN Len(AllUnits(OnOffer)) ELSE 0
  <2>1. Len(<<>>) = 0
    OBVIOUS
  <2>2. CASE fifo_tlp_ready
    BY <2>2 DEF Gone
  <2>3. CASE ~fifo_tlp_ready
    BY <2>1, <2>3 DEF Gone
  <2> QED BY <2>2, <2>3
<1> QED BY <1>1 DEF Account, AccountMoves, Sent

\* An edge of the realignment, with a beat or without.
LEMMA FrontKeeps ==
  ASSUME TypeOK, Framed, NEW fifo_tlp_ready \in BOOLEAN,
         \/ \E b \in Beats(build, bus_open) : TakeBeat(b, fifo_tlp_ready)
         \/ TakeNothing(fifo_tlp_ready)
  PROVE  \E sent :
           /\ FrontMoves(fifo_tlp_ready, sent)
           /\ AccountMoves(fifo_tlp_ready, sent)
           /\ bus_open' = Open(rc_int_reg') /\ bus_tag' \in 0 .. 1
<1>1. ASSUME NEW b \in Beats(build, bus_open), TakeBeat(b, fifo_tlp_ready)
      PROVE  \E sent :
               /\ FrontMoves(fifo_tlp_ready, sent)
               /\ AccountMoves(fifo_tlp_ready, sent)
               /\ bus_open' = Open(rc_int_reg') /\ bus_tag' \in 0 .. 1
  <2> DEFINE c == Numbered(b)
  <2>1. /\ stage_a_ready(fifo_tlp_ready)
        /\ Realign(c, fifo_tlp_ready) /\ Account(c, fifo_tlp_ready)
        /\ bus_open' = OpenAfter(b) /\ bus_tag' = 1 - bus_tag
    BY <1>1 DEF TakeBeat
  <2>2. BeatOnBus(c) /\ OpenAfter(b) = Open(c)
    BY NumberedIs DEF TypeOK
  <2> HIDE DEF c
  <2>3. c # NoBeat /\ Realigns(Realigned(c), c, Sent(c))
    BY <2>2, BeatTaken
  <2>4. rx_cpl_reg' = Realigned(c) /\ rc_int_reg' = c
    BY <2>1, <2>3 DEF Realign
  <2>5. FrontMoves(fifo_tlp_ready, Sent(c))
    BY <2>1, <2>3, <2>4 DEF FrontMoves
  <2>6. AccountMoves(fifo_tlp_ready, Sent(c))
    BY <2>1, AccountIs
  <2>7. bus_open' = Open(rc_int_reg') /\ bus_tag' \in 0 .. 1
    BY <2>1, <2>2, <2>4 DEF TypeOK
  <2> QED BY <2>5, <2>6, <2>7
<1>2. ASSUME TakeNothing(fifo_tlp_ready)
      PROVE  \E sent :
               /\ FrontMoves(fifo_tlp_ready, sent)
               /\ AccountMoves(fifo_tlp_ready, sent)
               /\ bus_open' = Open(rc_int_reg') /\ bus_tag' \in 0 .. 1
  <2>1. /\ Realign(NoBeat, fifo_tlp_ready) /\ Account(NoBeat, fifo_tlp_ready)
        /\ bus_open' = bus_open /\ bus_tag' = bus_tag
    BY <1>2 DEF TakeNothing, coreVars
  <2>2. /\ Realigns(Realigned(NoBeat), Remaining, Sent(NoBeat))
        /\ Sent(NoBeat) = <<>>
        /\ Open(Remaining) = Open(rc_int_reg)
    BY BeatMissed
  <2>3. FrontMoves(fifo_tlp_ready, Sent(NoBeat))
    BY <2>1, <2>2 DEF FrontMoves, Realign
  <2>4. AccountMoves(fifo_tlp_ready, Sent(NoBeat))
    BY <2>1, AccountIs
  <2>5. bus_open' = Open(rc_int_reg')
    <3>1. bus_open = Open(rc_int_reg)
      BY DEF Framed
    <3>2. rc_int_reg' = Remaining \/ rc_int_reg' = rc_int_reg
      BY <2>1 DEF Realign
    <3> QED BY <2>1, <2>2, <3>1, <3>2
  <2>6. bus_tag' \in 0 .. 1
    BY <2>1 DEF TypeOK
  <2> QED BY <2>3, <2>4, <2>5, <2>6
<1> QED BY <1>1, <1>2

\* The front moves on good registers to good ones.
LEMMA FrontTyped ==
  ASSUME TypeOK, Framed, NEW fifo_tlp_ready, NEW sent,
         FrontMoves(fifo_tlp_ready, sent)
  PROVE  /\ rx_cpl_reg' \in Seq(Piece) /\ Len(rx_cpl_reg') <= build.segs
         /\ rc_int_reg' \in Seq(Segment) /\ Len(rc_int_reg') = build.segs
         /\ InLine(rc_int_reg')
         /\ sent \in Seq(Unit)
         /\ AllUnits(rx_cpl_reg') \in Seq(Unit)
         /\ HeldUnits(rc_int_reg') \in Seq(Unit)
<1>1. <<>> \in Seq(Unit)
  OBVIOUS
<1>2. CASE stage_a_ready(fifo_tlp_ready)
  BY <1>2, AllUnitsTyped, HeldUnitsTyped DEF FrontMoves, Realigns
<1>3. CASE ~stage_a_ready(fifo_tlp_ready)
  <2>1. rx_cpl_reg' = rx_cpl_reg /\ rc_int_reg' = rc_int_reg /\ sent = <<>>
    BY <1>3 DEF FrontMoves
  <2> QED BY <1>1, <2>1, AllUnitsTyped, HeldUnitsTyped DEF TypeOK, Framed
<1> QED BY <1>2, <1>3

\* The slots, the carry and their units after an edge.
BackMoves(fifo_tlp_ready, sent) ==
  /\ b1_valid_reg' \in BOOLEAN
  /\ b1_slots' \in Seq(Piece) /\ cp_reg' \in Seq(Piece)
  /\ cy_reg' \in Seq(Carry) /\ Len(cy_reg') < CP_FPC
  /\ ~b1_valid_reg' => b1_slots' = <<>>
  /\ ~build.compact => b1_slots' = <<>> /\ cy_reg' = <<>> /\ cp_reg' = <<>>
  /\ \E rest \in Seq(Unit) :
       /\ Gone(fifo_tlp_ready) \in Seq(Unit)
       /\ Kept(cp_reg, b1_slots, cy_reg, rx_cpl_reg, rc_int_reg)
            = Gone(fifo_tlp_ready) \o rest
       /\ Kept(cp_reg', b1_slots', cy_reg', rx_cpl_reg', rc_int_reg')
            = rest \o sent

\* What the registers keep is a list of units.
LEMMA KeptTyped ==
  ASSUME NEW cp \in Seq(Piece), NEW b1 \in Seq(Piece), NEW cy \in Seq(Piece),
         NEW rx \in Seq(Piece), NEW rc \in Seq(Segment)
  PROVE  Kept(cp, b1, cy, rx, rc) \in Seq(Unit)
<1>1. /\ AllUnits(cp) \in Seq(Unit) /\ AllUnits(b1) \in Seq(Unit)
      /\ AllUnits(cy) \in Seq(Unit) /\ AllUnits(rx) \in Seq(Unit)
      /\ HeldUnits(rc) \in Seq(Unit)
  BY AllUnitsTyped, HeldUnitsTyped
<1>2. AllUnits(rx) \o HeldUnits(rc) \in Seq(Unit)
  BY <1>1, ConcatProperties
<1>3. AllUnits(cy) \o (AllUnits(rx) \o HeldUnits(rc)) \in Seq(Unit)
  BY <1>1, <1>2, ConcatProperties
<1>4. AllUnits(b1) \o (AllUnits(cy) \o (AllUnits(rx) \o HeldUnits(rc)))
        \in Seq(Unit)
  BY <1>1, <1>3, ConcatProperties
<1> QED BY <1>1, <1>4, ConcatProperties DEF Kept

\* Without compaction the realigned segments are on offer.
LEMMA NoCompactKeeps ==
  ASSUME TypeOK, Framed, NEW fifo_tlp_ready \in BOOLEAN, NoCompact,
         NEW sent, FrontMoves(fifo_tlp_ready, sent)
  PROVE  BackMoves(fifo_tlp_ready, sent)
<1>1. ~build.compact /\ UNCHANGED <<b1_valid_reg, b1_slots, cy_reg, cp_reg>>
  BY DEF NoCompact
<1>2. b1_slots = <<>> /\ cy_reg = <<>> /\ cp_reg = <<>>
  BY <1>1 DEF Framed
<1>3. OnOffer = rx_cpl_reg /\ stage_a_ready(fifo_tlp_ready) = fifo_tlp_ready
  BY <1>1 DEF OnOffer, stage_a_ready
<1> DEFINE x == AllUnits(rx_cpl_reg)
<1> DEFINE h == HeldUnits(rc_int_reg)
<1> DEFINE x1 == AllUnits(rx_cpl_reg')
<1> DEFINE h1 == HeldUnits(rc_int_reg')
<1>4. /\ x \in Seq(Unit) /\ h \in Seq(Unit) /\ sent \in Seq(Unit)
      /\ x1 \in Seq(Unit) /\ h1 \in Seq(Unit)
  BY FrontTyped, AllUnitsTyped, HeldUnitsTyped DEF TypeOK
<1>5. ASSUME NEW rx \in Seq(Piece), NEW rc \in Seq(Segment)
      PROVE  Kept(<<>>, <<>>, <<>>, rx, rc) = AllUnits(rx) \o HeldUnits(rc)
  <2> DEFINE q == AllUnits(rx) \o HeldUnits(rc)
  <2>1. q \in Seq(Unit)
    BY AllUnitsTyped, HeldUnitsTyped, ConcatProperties
  <2>2. Kept(<<>>, <<>>, <<>>, rx, rc) = <<>> \o (<<>> \o (<<>> \o q))
    BY AllUnitsEmpty DEF Kept
  <2> HIDE DEF q
  <2>3. <<>> \o q = q
    BY <2>1, ConcatEmptySeq
  <2> QED BY <2>2, <2>3 DEF q
<1>6. /\ Kept(cp_reg, b1_slots, cy_reg, rx_cpl_reg, rc_int_reg) = x \o h
      /\ Kept(cp_reg', b1_slots', cy_reg', rx_cpl_reg', rc_int_reg')
           = x1 \o h1
  BY <1>1, <1>2, <1>5, FrontTyped DEF TypeOK
<1>7. \E rest \in Seq(Unit) :
        /\ Gone(fifo_tlp_ready) \in Seq(Unit)
        /\ x \o h = Gone(fifo_tlp_ready) \o rest
        /\ x1 \o h1 = rest \o sent
  <2>1. CASE fifo_tlp_ready
    <3>1. Gone(fifo_tlp_ready) = x
      BY <1>3, <2>1 DEF Gone
    <3>2. x1 \o h1 = h \o sent
      BY <1>3, <2>1 DEF FrontMoves, Realigns
    <3> HIDE DEF x, h, x1, h1
    <3> QED BY <1>4, <3>1, <3>2
  <2>2. CASE ~fifo_tlp_ready
    <3>1. Gone(fifo_tlp_ready) = <<>> /\ <<>> \in Seq(Unit)
      BY <2>2 DEF Gone
    <3>2. x1 = x /\ h1 = h /\ sent = <<>>
      BY <1>3, <2>2 DEF FrontMoves
    <3> HIDE DEF x, h, x1, h1
    <3>3. x \o h \in Seq(Unit)
      BY <1>4, ConcatProperties
    <3>4. <<>> \o (x \o h) = x \o h /\ (x \o h) \o <<>> = x \o h
      BY ONLY <3>3, ConcatEmptySeq
    <3> QED BY <3>1, <3>2, <3>3, <3>4
  <2> QED BY <2>1, <2>2
<1>8. Len(cy_reg) < CP_FPC /\ b1_valid_reg \in BOOLEAN /\ cy_reg \in Seq(Carry)
  BY DEF TypeOK
<1>9. <<>> \in Seq(Piece)
  OBVIOUS
<1> QED BY <1>1, <1>2, <1>6, <1>7, <1>8, <1>9 DEF BackMoves

\* With compaction slots move to cp_reg when it is free, and the scan fills
\* slots when these are.
LEMMA CompactKeeps ==
  ASSUME TypeOK, Framed, NEW fifo_tlp_ready \in BOOLEAN,
         Compact(fifo_tlp_ready),
         NEW sent, FrontMoves(fifo_tlp_ready, sent)
  PROVE  BackMoves(fifo_tlp_ready, sent)
<1> DEFINE load == b2_load(fifo_tlp_ready)
<1> DEFINE free == b1_free(fifo_tlp_ready)
<1> DEFINE take == free /\ rx_cpl_reg # <<>>
<1> DEFINE kept == Rest(fifo_tlp_ready)
<1> DEFINE gone == IF fifo_tlp_ready THEN OnOffer ELSE <<>>
<1>1. /\ build.compact
      /\ b1_valid_reg' = (take \/ (b1_valid_reg /\ ~load))
      /\ b1_slots' = IF take THEN Slots ELSE IF load THEN <<>> ELSE b1_slots
      /\ cy_reg' = IF take THEN Scanned.open ELSE cy_reg
      /\ cp_reg' = IF load THEN b1_slots
                   ELSE IF BeatsLeft # 0 /\ fifo_tlp_ready
                   THEN SubSeq(cp_reg, build.slots + 1, Len(cp_reg))
                   ELSE cp_reg
  BY DEF Compact
<1>2. /\ load = (b1_valid_reg /\ b2_free(fifo_tlp_ready))
      /\ free = (~b1_valid_reg \/ load)
      /\ stage_a_ready(fifo_tlp_ready) = free
      /\ load \in BOOLEAN /\ free \in BOOLEAN
  BY <1>1 DEF b2_load, b1_free, stage_a_ready
<1>3. /\ OnOffer \in Seq(Piece) /\ kept \in Seq(Piece)
      /\ cp_reg = gone \o kept
      /\ load => kept = <<>>
      /\ BeatsLeft = 0 => cp_reg = <<>> /\ OnOffer = <<>>
  BY <1>1, <1>2, OfferIs
<1>4. /\ b1_slots \in Seq(Piece) /\ cp_reg \in Seq(Piece)
      /\ cy_reg \in Seq(Carry) /\ Len(cy_reg) < CP_FPC
      /\ rx_cpl_reg \in Seq(Piece) /\ Len(rx_cpl_reg) <= build.segs
      /\ cy_reg \in Seq(Piece) /\ rc_int_reg \in Seq(Segment)
      /\ b1_valid_reg \in BOOLEAN /\ build \in Builds
  BY CarryIsPiece DEF TypeOK
<1>5. /\ Slots \in Seq(Piece)
      /\ Scanned.open \in Seq(Carry) /\ Len(Scanned.open) < CP_FPC
      /\ AllUnits(Slots) \o AllUnits(Scanned.open)
           = AllUnits(cy_reg) \o AllUnits(rx_cpl_reg)
  BY <1>4, SlotsAll
<1>6. /\ rx_cpl_reg' \in Seq(Piece) /\ rc_int_reg' \in Seq(Segment)
      /\ sent \in Seq(Unit)
      /\ AllUnits(rx_cpl_reg') \in Seq(Unit)
      /\ HeldUnits(rc_int_reg') \in Seq(Unit)
  BY FrontTyped
<1>7. ~load => cp_reg' = kept
  <2>1. CASE BeatsLeft # 0 /\ fifo_tlp_ready
    BY <1>1, <2>1 DEF Rest
  <2>2. CASE ~fifo_tlp_ready
    BY <1>1, <2>2 DEF Rest
  <2>3. CASE BeatsLeft = 0 /\ fifo_tlp_ready
    <3>1. gone = <<>>
      BY <1>3, <2>3
    <3>2. <<>> \o kept = kept
      BY <1>3, ConcatEmptySeq
    <3> HIDE DEF load, kept, gone
    <3> QED BY <1>1, <1>3, <2>3, <3>1, <3>2
  <2> QED BY <2>1, <2>2, <2>3
<1>8. load => cp_reg' = b1_slots /\ kept = <<>>
  BY <1>1, <1>3
<1> DEFINE r == AllUnits(kept)
<1> DEFINE b == AllUnits(b1_slots)
<1> DEFINE y == AllUnits(cy_reg)
<1> DEFINE x == AllUnits(rx_cpl_reg)
<1> DEFINE h == HeldUnits(rc_int_reg)
<1> DEFINE c1 == AllUnits(cp_reg')
<1> DEFINE b1 == AllUnits(b1_slots')
<1> DEFINE y1 == AllUnits(cy_reg')
<1> DEFINE x1 == AllUnits(rx_cpl_reg')
<1> DEFINE h1 == HeldUnits(rc_int_reg')
<1> DEFINE g == Gone(fifo_tlp_ready)
<1>9. /\ cp_reg' \in Seq(Piece) /\ b1_slots' \in Seq(Piece)
      /\ cy_reg' \in Seq(Carry) /\ cy_reg' \in Seq(Piece)
      /\ Len(cy_reg') < CP_FPC
      /\ b1_valid_reg' \in BOOLEAN
  <2>1. <<>> \in Seq(Piece)
    OBVIOUS
  <2>2. cp_reg' \in Seq(Piece)
    BY <1>3, <1>4, <1>7, <1>8
  <2>3. b1_slots' \in Seq(Piece)
    BY <1>1, <1>4, <1>5, <2>1
  <2>4. cy_reg' \in Seq(Carry) /\ Len(cy_reg') < CP_FPC
    BY <1>1, <1>4, <1>5
  <2>5. b1_valid_reg' \in BOOLEAN
    BY <1>1, <1>2, <1>4
  <2> QED BY <2>2, <2>3, <2>4, <2>5, CarryIsPiece
<1>10. AllUnits(cp_reg) = g \o r /\ g \in Seq(Unit)
  <2>1. gone \in Seq(Piece)
    BY <1>3
  <2>2. AllUnits(gone) = g
    BY AllUnitsEmpty DEF Gone
  <2>3. AllUnits(gone) \in Seq(Unit)
    BY <2>1, AllUnitsTyped
  <2> HIDE DEF gone, g
  <2>4. AllUnits(gone \o kept) = AllUnits(gone) \o AllUnits(kept)
    BY ONLY <1>3, <2>1, AllUnitsConcat
  <2> QED BY <1>3, <2>2, <2>3, <2>4
<1>11. /\ r \in Seq(Unit) /\ b \in Seq(Unit) /\ y \in Seq(Unit)
       /\ x \in Seq(Unit) /\ h \in Seq(Unit) /\ sent \in Seq(Unit)
       /\ c1 \in Seq(Unit) /\ b1 \in Seq(Unit) /\ y1 \in Seq(Unit)
       /\ x1 \in Seq(Unit) /\ h1 \in Seq(Unit)
  BY <1>3, <1>4, <1>6, <1>9, AllUnitsTyped, HeldUnitsTyped
<1>12. ~b1_valid_reg => b = <<>>
  BY AllUnitsEmpty DEF Framed
<1>13. free => r \o b = c1
  <2>1. CASE load
    <3>1. r = <<>> /\ c1 = b
      BY <1>8, <2>1, AllUnitsEmpty
    <3>2. <<>> \o b = b
      BY <1>11, ConcatEmptySeq
    <3> HIDE DEF r, b, c1
    <3> QED BY <3>1, <3>2
  <2>2. CASE ~load /\ free
    <3>1. b = <<>> /\ c1 = r
      BY <1>2, <1>7, <1>12, <2>2
    <3>2. r \o <<>> = r
      BY <1>11, ConcatEmptySeq
    <3> HIDE DEF r, b, c1
    <3> QED BY <3>1, <3>2
  <2> QED BY <1>2, <2>1, <2>2
<1>14. free => y \o x = b1 \o y1
  <2>1. CASE take
    BY <1>1, <1>5, <2>1
  <2>2. CASE free /\ ~take
    <3>1. rx_cpl_reg = <<>> /\ cy_reg' = cy_reg
      BY <1>1, <2>2
    <3>2. b1_slots' = <<>>
      <4>1. CASE load
        BY <1>1, <2>2, <4>1
      <4>2. CASE ~load
        <5>1. ~b1_valid_reg /\ b1_slots = <<>>
          BY <1>2, <2>2, <4>2 DEF Framed
        <5> QED BY <1>1, <2>2, <4>2, <5>1
      <4> QED BY <4>1, <4>2
    <3>3. x = <<>> /\ b1 = <<>> /\ y1 = y
      BY <3>1, <3>2, AllUnitsEmpty
    <3>4. y \o <<>> = y /\ <<>> \o y = y
      BY <1>11, ConcatEmptySeq
    <3> HIDE DEF x, b1, y1, y
    <3> QED BY <3>3, <3>4
  <2> QED BY <2>1, <2>2
<1>15. free => h \o sent = x1 \o h1
  BY <1>2 DEF FrontMoves, Realigns
<1> DEFINE rest == r \o (b \o (y \o (x \o h)))
<1>16. rest \in Seq(Unit)
  BY <1>3, <1>4, KeptTyped DEF Kept
<1>17. Kept(cp_reg, b1_slots, cy_reg, rx_cpl_reg, rc_int_reg) = g \o rest
  <2>1. Kept(cp_reg, b1_slots, cy_reg, rx_cpl_reg, rc_int_reg)
          = (g \o r) \o (b \o (y \o (x \o h)))
    BY <1>10 DEF Kept
  <2> DEFINE t == b \o (y \o (x \o h))
  <2>2. t \in Seq(Unit)
    <3>1. x \o h \in Seq(Unit)
      BY <1>11, ConcatProperties
    <3>2. y \o (x \o h) \in Seq(Unit)
      BY <1>11, <3>1, ConcatProperties
    <3> QED BY <1>11, <3>2, ConcatProperties
  <2> HIDE DEF t, g, r
  <2>3. (g \o r) \o t = g \o (r \o t)
    <3>1. g \in Seq(Unit) /\ r \in Seq(Unit) /\ t \in Seq(Unit)
      BY <1>10, <1>11, <2>2
    <3>2. Regroups(g, r, t)
      BY ONLY <3>1, Regroup, Zenon
    <3> QED BY ONLY <3>2 DEF Regroups
  <2> QED BY <2>1, <2>3 DEF t
<1>18. Kept(cp_reg', b1_slots', cy_reg', rx_cpl_reg', rc_int_reg')
         = rest \o sent
  <2> DEFINE all == c1 \o (b1 \o (y1 \o (x1 \o h1)))
  <2>1. Kept(cp_reg', b1_slots', cy_reg', rx_cpl_reg', rc_int_reg') = all
    BY DEF Kept
  <2>2. CASE free
    <3>1. HandsOn(Unit, r, b, y, x, h, sent, c1, b1, y1, x1, h1)
      <4> HIDE DEF r, b, y, x, h, c1, b1, y1, x1, h1
      <4> QED BY <1>11, <1>13, <1>14, <1>15, <2>2 DEF HandsOn
    <3> HIDE DEF r, b, y, x, h, c1, b1, y1, x1, h1
    <3>2. HandedOn(r, b, y, x, h, sent, c1, b1, y1, x1, h1)
      BY ONLY <3>1, KeptMoves, Zenon
    <3>3. rest \o sent = all
      BY ONLY <3>2 DEF HandedOn
    <3> QED BY <2>1, <3>3
  <2>3. CASE ~free
    <3>1. ~take /\ ~load
      BY <1>2, <2>3
    <3>2. rx_cpl_reg' = rx_cpl_reg /\ rc_int_reg' = rc_int_reg /\ sent = <<>>
      BY <1>2, <2>3 DEF FrontMoves
    <3>3. b1_slots' = b1_slots /\ cy_reg' = cy_reg /\ cp_reg' = kept
      BY <1>1, <1>7, <3>1
    <3>4. all = rest
      BY <3>2, <3>3
    <3>5. rest \o <<>> = rest
      <4> HIDE DEF rest
      <4> QED BY <1>16, ConcatEmptySeq
    <3> HIDE DEF rest, all
    <3> QED BY <2>1, <3>2, <3>4, <3>5
  <2> QED BY <1>2, <2>2, <2>3
<1>19. ~b1_valid_reg' => b1_slots' = <<>>
  <2> SUFFICES ASSUME ~b1_valid_reg' PROVE b1_slots' = <<>>
    OBVIOUS
  <2>1. ~take
    BY <1>1
  <2>2. CASE load
    BY <1>1, <2>1, <2>2
  <2>3. CASE ~load
    <3>1. ~b1_valid_reg
      BY <1>1, <2>3
    <3> QED BY <1>1, <2>1, <2>3, <3>1 DEF Framed
  <2> QED BY <2>2, <2>3
<1> HIDE DEF rest
<1> QED BY <1>1, <1>9, <1>10, <1>16, <1>17, <1>18, <1>19 DEF BackMoves

\* Either way nothing is lost.
LEMMA BackKeeps ==
  ASSUME TypeOK, Framed, NEW fifo_tlp_ready \in BOOLEAN,
         Compact(fifo_tlp_ready) \/ NoCompact,
         NEW sent, FrontMoves(fifo_tlp_ready, sent)
  PROVE  BackMoves(fifo_tlp_ready, sent)
BY CompactKeeps, NoCompactKeeps

\* An edge takes the gone off the account and puts the sent behind it.
LEMMA EdgeMoves ==
  ASSUME Inv, NEW fifo_tlp_ready \in BOOLEAN, Edge(fifo_tlp_ready)
  PROVE  /\ Inv'
         /\ \E rest \in Seq(Unit), sent \in Seq(Unit) :
              /\ Gone(fifo_tlp_ready) \in Seq(Unit)
              /\ owed = Gone(fifo_tlp_ready) \o rest
              /\ owed' = rest \o sent
<1>1. TypeOK /\ Framed /\ OwedIsKept
  BY DEF Inv
<1>2. /\ Compact(fifo_tlp_ready) \/ NoCompact
      /\ build' = build
      /\ \/ \E b \in Beats(build, bus_open) : TakeBeat(b, fifo_tlp_ready)
         \/ TakeNothing(fifo_tlp_ready)
  BY DEF Edge
<1>3. PICK sent :
        /\ FrontMoves(fifo_tlp_ready, sent)
        /\ AccountMoves(fifo_tlp_ready, sent)
        /\ bus_open' = Open(rc_int_reg') /\ bus_tag' \in 0 .. 1
  BY <1>1, <1>2, FrontKeeps
<1>4. /\ rx_cpl_reg' \in Seq(Piece) /\ Len(rx_cpl_reg') <= build.segs
      /\ rc_int_reg' \in Seq(Segment) /\ Len(rc_int_reg') = build.segs
      /\ InLine(rc_int_reg')
      /\ sent \in Seq(Unit)
  BY <1>1, <1>3, FrontTyped
<1>5. BackMoves(fifo_tlp_ready, sent)
  BY <1>1, <1>2, <1>3, BackKeeps
<1> DEFINE g == Gone(fifo_tlp_ready)
<1> DEFINE new == Kept(cp_reg', b1_slots', cy_reg', rx_cpl_reg', rc_int_reg')
<1>6. PICK rest \in Seq(Unit) :
        /\ g \in Seq(Unit)
        /\ Kept(cp_reg, b1_slots, cy_reg, rx_cpl_reg, rc_int_reg) = g \o rest
        /\ new = rest \o sent
  BY <1>5 DEF BackMoves
<1>7. owed = g \o rest
  BY <1>1, <1>6 DEF OwedIsKept
<1>8. owed' = SubSeq(owed, Len(g) + 1, Len(owed)) \o sent
  BY <1>3 DEF AccountMoves
<1> HIDE DEF g, new
<1>9. SubSeq(g \o rest, Len(g) + 1, Len(g \o rest)) = rest
  BY <1>6, BackOf
<1>10. owed' = rest \o sent
  BY <1>7, <1>8, <1>9
<1>11. owed' = new
  BY <1>6, <1>10
<1>12. OwedIsKept'
  BY <1>11 DEF OwedIsKept, new
<1>13. owed' \in Seq(Unit)
  BY <1>4, <1>6, <1>10, ConcatProperties
<1>14. CP_FPC' = CP_FPC
  BY <1>2 DEF CP_FPC
<1>15. bus_open' \in BOOLEAN
  <2>1. build.segs \in Nat \ {0}
    BY <1>1, BuildFacts DEF BuildTyped, TypeOK
  <2>2. rc_int_reg'[build.segs] \in Segment
    BY <1>4, <2>1, ElementOfSeq
  <2> QED BY <1>3, <1>4, <2>2 DEF Open, Segment
<1>16. TypeOK'
  BY <1>1, <1>2, <1>3, <1>4, <1>5, <1>13, <1>14, <1>15
     DEF TypeOK, BackMoves
<1>17. Framed'
  BY <1>2, <1>3, <1>4, <1>5 DEF Framed, BackMoves
<1> QED BY <1>4, <1>6, <1>7, <1>10, <1>12, <1>16, <1>17 DEF Inv, g

-----------------------------------------------------------------------------
(* The invariant holds, and nothing finished stays behind.                 *)

\* Reset and Init leave the registers empty.
Fresh ==
  /\ build \in Builds
  /\ rc_int_reg = Empty(build) /\ rx_cpl_reg = <<>>
  /\ b1_valid_reg = FALSE /\ b1_slots = <<>>
  /\ cy_reg = <<>> /\ cp_reg = <<>>
  /\ bus_open = FALSE /\ bus_tag = 0 /\ owed = <<>>

\* Empty registers satisfy the invariant.
LEMMA FreshKeeps == Fresh => Inv
<1> SUFFICES ASSUME Fresh PROVE Inv
  OBVIOUS
<1> DEFINE n == build.segs
<1> DEFINE rc == rc_int_reg
<1>1. n \in Nat \ {0} /\ CP_FPC \in {1, 2}
  BY BuildFacts DEF BuildTyped, Fresh
<1>2. /\ rc = [i \in 1 .. n |-> Idle]
      /\ build \in Builds /\ bus_open = FALSE /\ bus_tag = 0
      /\ rx_cpl_reg = <<>> /\ b1_slots = <<>> /\ cy_reg = <<>>
      /\ cp_reg = <<>> /\ owed = <<>> /\ b1_valid_reg = FALSE
  BY DEF Fresh, Empty
<1>3. rc \in Seq(Segment) /\ Len(rc) = n
      /\ \A i \in 1 .. n : rc[i] = Idle
  <2> HIDE DEF n, rc
  <2>1. rc \in Seq(Segment)
    BY <1>1, <1>2, IdleIsSegment, IsASeq
  <2> QED BY <1>1, <1>2, <2>1, LenProperties
<1>4. InLine(rc) /\ Open(rc) = FALSE
  <2>1. n \in 1 .. n
    BY <1>1
  <2> HIDE DEF n, rc
  <2> QED BY <1>1, <1>3, <2>1, IdleIsSegment DEF InLine, Follows, Open
<1>5. HeldUnits(rc) = <<>>
  <2>1. rc # <<>> /\ n \in 1 .. n
    BY <1>1, <1>3, EmptySeq
  <2>2. \A i \in 1 .. Len(rc) : i # Len(rc) => ~rc[i].valid
    BY <1>3, IdleIsSegment
  <2>3. HeldUnits(rc) = Carries(rc[n])
    BY <1>3, <2>1, <2>2, HeldLast
  <2> QED BY <1>3, <2>1, <2>3, IdleIsSegment DEF Carries
<1>6. Kept(<<>>, <<>>, <<>>, <<>>, rc) = <<>>
  <2>1. <<>> \o <<>> = <<>>
    OBVIOUS
  <2> QED BY <1>5, <2>1, AllUnitsEmpty DEF Kept
<1>7. /\ <<>> \in Seq(Piece) /\ <<>> \in Seq(Carry) /\ <<>> \in Seq(Unit)
      /\ Len(<<>>) = 0
  OBVIOUS
<1>8. TypeOK
  <2>1. Len(rx_cpl_reg) <= build.segs /\ Len(cy_reg) < CP_FPC
    <3> HIDE DEF rc
    <3> QED BY <1>1, <1>2, <1>7
  <2>2. rc_int_reg \in Seq(Segment) /\ Len(rc_int_reg) = build.segs
    BY <1>3
  <2>3. /\ rx_cpl_reg \in Seq(Piece) /\ b1_slots \in Seq(Piece)
        /\ cp_reg \in Seq(Piece) /\ cy_reg \in Seq(Carry)
        /\ owed \in Seq(Unit)
    BY <1>2, <1>7
  <2>4. /\ b1_valid_reg \in BOOLEAN /\ bus_open \in BOOLEAN
        /\ bus_tag \in 0 .. 1 /\ build \in Builds
    <3>1. b1_valid_reg \in BOOLEAN /\ bus_open \in BOOLEAN
      BY <1>2, Zenon
    <3>2. bus_tag = 0 /\ build \in Builds
      BY <1>2
    <3>3. bus_tag \in 0 .. 1
      BY ONLY <3>2
    <3> QED BY <3>1, <3>2, <3>3, Zenon
  <2> QED BY ONLY <2>1, <2>2, <2>3, <2>4 DEF TypeOK
<1>9. Framed
  BY <1>2, <1>4 DEF Framed
<1>10. OwedIsKept
  BY <1>2, <1>6 DEF OwedIsKept
<1> QED BY <1>8, <1>9, <1>10 DEF Inv

\* So they are at first
LEMMA InitIsFresh == Init => Fresh
BY DEF Init, Fresh

\* and after a reset.
LEMMA ResetIsFresh == Inv /\ Reset => Fresh'
BY DEF Inv, TypeOK, Reset, Fresh, Empty

\* The invariant is inductive.
LEMMA NextInv == Inv /\ [Next]_vars => Inv'
<1> SUFFICES ASSUME Inv, [Next]_vars PROVE Inv'
  OBVIOUS
<1>1. CASE Reset
  <2>1. Fresh'
    BY <1>1, ResetIsFresh
  <2>2. (Fresh => Inv)'
    BY FreshKeeps, PTL
  <2> QED BY <2>1, <2>2
<1>2. ASSUME NEW fifo_tlp_ready \in BOOLEAN, Edge(fifo_tlp_ready)
      PROVE  Inv'
  BY <1>2, EdgeMoves
<1>3. CASE UNCHANGED vars
  <2>1. /\ build' = build /\ rc_int_reg' = rc_int_reg
        /\ rx_cpl_reg' = rx_cpl_reg /\ b1_valid_reg' = b1_valid_reg
        /\ b1_slots' = b1_slots /\ cy_reg' = cy_reg /\ cp_reg' = cp_reg
        /\ bus_open' = bus_open /\ bus_tag' = bus_tag /\ owed' = owed
    BY <1>3 DEF vars, coreVars
  <2>2. CP_FPC' = CP_FPC
    BY <2>1 DEF CP_FPC
  <2>3. TypeOK'
    BY <2>1, <2>2 DEF Inv, TypeOK
  <2>4. Framed'
    BY <2>1 DEF Inv, Framed
  <2>5. OwedIsKept'
    BY <2>1 DEF Inv, OwedIsKept
  <2> QED BY <2>3, <2>4, <2>5 DEF Inv
<1> QED BY <1>1, <1>2, <1>3 DEF Next

\* rc.sv's realignment, carry, slots and output beats keep every unit the
\* core sent, in order and once, until the FIFO takes it, for every build
\* the guards admit and every legal traffic of the core.
THEOREM KeepsItsAccount == Spec => [](TypeOK /\ OwedIsKept)
<1>1. Init => Inv
  BY InitIsFresh, FreshKeeps
<1>2. Inv => TypeOK /\ OwedIsKept
  BY DEF Inv
<1> QED BY <1>1, <1>2, NextInv, PTL DEF Spec

\* The whole invariant.
LEMMA InvHolds == Spec => []Inv
<1>1. Init => Inv
  BY InitIsFresh, FreshKeeps
<1> QED BY <1>1, NextInv, PTL DEF Spec

\* No end among the units of a carry.
LEMMA CarryPlain ==
  ASSUME NEW cy \in Seq(Carry) PROVE AllUnits(cy) \in Seq(Plain)
<1> DEFINE us == UnitsOfEach(cy)
<1>1. cy \in Seq(Piece)
  BY CarryIsPiece
<1>2. /\ us \in Seq(Seq(Unit)) /\ Len(us) = Len(cy)
      /\ \A i \in 1 .. Len(cy) : us[i] = Units(cy[i])
  BY <1>1, UnitsOfEachTyped
<1>3. ASSUME NEW x \in Carry PROVE Units(x) \in Seq(Plain)
  <2>1. x \in Piece /\ x.eop = FALSE
    BY DEF Carry
  <2>2. Units(x) = Marked(Body(x), FALSE)
    BY <2>1, UnitsTyped
  <2> QED BY <2>1, <2>2, BodyTyped, MarkedOpen
<1>4. \A i \in 1 .. Len(cy) : us[i] \in Seq(Plain)
  BY <1>2, <1>3, ElementOfSeq
<1> HIDE DEF us
<1>5. us \in Seq(Seq(Plain))
  <2>1. Len(us) \in Nat /\ us = [i \in 1 .. Len(us) |-> us[i]]
    BY <1>2, LenProperties
  <2> DEFINE n == Len(us)
  <2>2. \A i \in 1 .. n : us[i] \in Seq(Plain)
    BY <1>2, <1>4
  <2>3. n \in Nat /\ us = [i \in 1 .. n |-> us[i]]
    BY <2>1
  <2> HIDE DEF n
  <2>4. [i \in 1 .. n |-> us[i]] \in Seq(Seq(Plain))
    BY <2>2, <2>3, IsASeq
  <2> QED BY <2>3, <2>4
<1> QED BY <1>5, AllUnitsIs, FlattenTyped DEF us

\* A segment that goes on carries no end.
LEMMA CarriesPlain ==
  ASSUME NEW s \in Segment, s.eop = "no" PROVE Carries(s) \in Seq(Plain)
<1>1. <<>> \in Seq(Plain)
  OBVIOUS
<1>2. CASE ~s.valid
  BY <1>1, <1>2 DEF Carries
<1>3. CASE s.valid /\ s.sop
  <2>1. Carries(s) = Marked(BusBody(s), FALSE)
    BY <1>3, BusUnitsTyped DEF Carries
  <2> QED BY <2>1, BusBodyTyped, MarkedOpen
<1>4. CASE s.valid /\ ~s.sop
  <2>1. Carries(s) = Marked(Part("hi", s), FALSE)
    BY <1>4 DEF Carries, When
  <2> QED BY <2>1, PartTyped, MarkedOpen
<1> QED BY <1>2, <1>3, <1>4

\* When nothing is on offer cp_reg is empty.
LEMMA NoOffer ==
  ASSUME TypeOK, build.compact, OnOffer = <<>> PROVE cp_reg = <<>>
<1> DEFINE d == build.slots
<1> DEFINE l == Len(cp_reg)
<1> DEFINE k == IF l < d THEN l ELSE d
<1>1. d \in Nat \ {0} /\ l \in Nat /\ cp_reg \in Seq(Piece)
  BY BuildFacts, LenProperties DEF BuildTyped, TypeOK
<1>2. k \in 0 .. l
  BY <1>1
<1>3. OnOffer = SubSeq(cp_reg, 1, k)
  BY DEF OnOffer
<1>4. Len(SubSeq(cp_reg, 1, k)) = k
  <2> HIDE DEF k
  <2> QED BY <1>1, <1>2
<1>5. k = 0
  <2>1. Len(<<>>) = 0
    OBVIOUS
  <2> HIDE DEF k
  <2> QED BY <1>3, <1>4, <2>1
<1>6. l = 0
  BY <1>1, <1>5
<1> QED BY <1>1, <1>6, EmptySeq

\* When the engine is quiet the carry and a stuck segment are all it has,
\* and neither holds an end.
LEMMA InvFinished == Inv => FinishedLeave
<1> SUFFICES ASSUME Inv, Quiet, NEW i \in DOMAIN owed PROVE ~owed[i].eop
  BY DEF FinishedLeave
<1> DEFINE rc == rc_int_reg
<1>1. TypeOK /\ Framed /\ OwedIsKept
  BY DEF Inv
<1>2. /\ rx_cpl_reg = <<>> /\ ~b1_valid_reg /\ OnOffer = <<>>
      /\ Realigned(NoBeat) = <<>>
  BY DEF Quiet
<1>3. b1_slots = <<>> /\ cp_reg = <<>>
  <2>1. build.compact \in BOOLEAN
    BY <1>1, BuildFacts DEF BuildTyped, TypeOK
  <2> QED BY <1>1, <1>2, <2>1, NoOffer DEF Framed
<1>4. HeldUnits(rc) \in Seq(Plain)
  <2> DEFINE n == Len(rc)
  <2> DEFINE l == Left(rc)
  <2>1. n \in Nat \ {0} /\ rc \in Seq(Segment) /\ rc # <<>> /\ InLine(rc)
    <3>1. build.segs \in Nat \ {0} /\ n = build.segs
      BY <1>1, BuildFacts DEF BuildTyped, TypeOK
    <3> QED BY <1>1, <3>1, EmptySeq DEF TypeOK, Framed
  <2>2. /\ l \in Seq(Segment) /\ Len(l) = n
        /\ \A j \in 1 .. n : j # n => l[j] = Idle
        /\ l[n] = IF rc[n].valid /\ rc[n].eop = "no" THEN rc[n] ELSE Idle
    BY <2>1, LeftIs
  <2>3. /\ AllUnits(Realigned(NoBeat)) \o HeldUnits(Remaining)
             = HeldUnits(rc) \o Sent(NoBeat)
        /\ Sent(NoBeat) = <<>> /\ Remaining = l
    BY <1>1, BeatMissed DEF Realigns
  <2>4. HeldUnits(l) \in Seq(Unit) /\ HeldUnits(rc) \in Seq(Unit)
    BY <2>1, <2>2, HeldUnitsTyped
  <2>5. HeldUnits(rc) = HeldUnits(l)
    <3>1. <<>> \o HeldUnits(l) = HeldUnits(l)
      BY <2>4, ConcatEmptySeq
    <3>2. HeldUnits(rc) \o <<>> = HeldUnits(rc)
      BY <2>4, ConcatEmptySeq
    <3> HIDE DEF l, rc
    <3> QED BY <1>2, <2>3, <3>1, <3>2, AllUnitsEmpty
  <2> HIDE DEF l
  <2>6. HeldUnits(l) = Carries(l[n])
    <3>1. \A j \in 1 .. Len(l) : j # Len(l) => ~l[j].valid
      BY <2>2, IdleIsSegment
    <3>2. l # <<>>
      BY <2>1, <2>2
    <3> QED BY <2>2, <3>1, <3>2, HeldLast
  <2>7. l[n] \in Segment /\ l[n].eop = "no"
    <3>1. l[n] \in Segment
      BY <2>1, <2>2, ElementOfSeq
    <3>2. Idle.eop = "no"
      BY DEF Idle
    <3> QED BY <2>2, <3>1, <3>2
  <2> QED BY <2>5, <2>6, <2>7, CarriesPlain
<1>5. AllUnits(cy_reg) \in Seq(Plain)
  BY <1>1, CarryPlain DEF TypeOK
<1> DEFINE y == AllUnits(cy_reg)
<1> DEFINE h == HeldUnits(rc)
<1>6. owed = <<>> \o (<<>> \o (y \o (<<>> \o h)))
  BY <1>1, <1>2, <1>3, AllUnitsEmpty DEF OwedIsKept, Kept
<1> HIDE DEF y, h
<1>7. <<>> \o h = h
  BY <1>4, ConcatEmptySeq DEF h
<1>8. y \o h \in Seq(Plain)
  BY <1>4, <1>5, ConcatProperties DEF y, h
<1>9. <<>> \o (y \o h) = y \o h
  BY <1>8, ConcatEmptySeq
<1>10. owed \in Seq(Plain)
  BY <1>6, <1>7, <1>8, <1>9
<1>11. owed[i] \in Plain
  BY <1>10
<1> QED BY <1>11 DEF Plain

\* rc.sv:868 and the carry: a completion that has arrived whole reaches the
\* FIFO without another beat of the core behind it.
THEOREM FinishedLeaveHolds == Spec => []FinishedLeave
BY InvHolds, InvFinished, PTL

-----------------------------------------------------------------------------
(* The stream.                                                             *)

\* A list begins what it is the front of.
LEMMA BeginningOf ==
  ASSUME NEW U, NEW q \in Seq(U), NEW r \in Seq(U)
  PROVE  Stream!Starts(q, q \o r)
<1>1. /\ q \o r \in Seq(U) /\ Len(q \o r) = Len(q) + Len(r)
      /\ Len(q) \in Nat /\ Len(r) \in Nat
  BY ConcatProperties, LenProperties
<1> DEFINE p == SubSeq(q \o r, 1, Len(q))
<1>2. /\ p \in Seq(U) /\ Len(p) = Len(q)
      /\ \A i \in 1 .. Len(q) : p[i] = q[i]
  OBVIOUS
<1>3. p = q
  <2> HIDE DEF p
  <2> QED BY <1>2, SeqEqual
<1>4. Len(q) <= Len(q \o r)
  <2> DEFINE a == Len(q)
  <2> DEFINE b == Len(r)
  <2> DEFINE c == Len(q \o r)
  <2>1. a \in Nat /\ b \in Nat /\ c = a + b
    BY <1>1
  <2> HIDE DEF a, b, c
  <2>2. a <= c
    BY <2>1
  <2> QED BY <2>2 DEF a, c
<1> QED BY <1>3, <1>4 DEF Stream!Starts

\* What is on offer is the oldest of what is owed.
OfferFirst ==
  /\ AllUnits(OnOffer) \in Seq(Unit) /\ owed \in Seq(Unit)
  /\ \E t \in Seq(Unit) : owed = AllUnits(OnOffer) \o t

\* It is, in every state the invariant admits.
LEMMA InvOfferFirst == Inv => OfferFirst
<1> SUFFICES ASSUME Inv PROVE OfferFirst
  OBVIOUS
<1>1. TypeOK /\ Framed /\ OwedIsKept
  BY DEF Inv
<1>2. /\ owed \in Seq(Unit) /\ build.compact \in BOOLEAN
      /\ rx_cpl_reg \in Seq(Piece) /\ rc_int_reg \in Seq(Segment)
      /\ b1_slots \in Seq(Piece) /\ cp_reg \in Seq(Piece)
      /\ cy_reg \in Seq(Piece)
  BY <1>1, CarryIsPiece, BuildFacts DEF BuildTyped, TypeOK
<1> DEFINE b == AllUnits(b1_slots)
<1> DEFINE y == AllUnits(cy_reg)
<1> DEFINE x == AllUnits(rx_cpl_reg)
<1> DEFINE h == HeldUnits(rc_int_reg)
<1>3. /\ b \in Seq(Unit) /\ y \in Seq(Unit) /\ x \in Seq(Unit)
      /\ h \in Seq(Unit)
  BY <1>2, AllUnitsTyped, HeldUnitsTyped
<1> DEFINE t == b \o (y \o (x \o h))
<1>4. x \o h \in Seq(Unit) /\ t \in Seq(Unit)
  <2>1. x \o h \in Seq(Unit)
    BY <1>3, ConcatProperties
  <2>2. y \o (x \o h) \in Seq(Unit)
    BY <1>3, <2>1, ConcatProperties
  <2> QED BY <1>3, <2>1, <2>2, ConcatProperties
<1>5. owed = AllUnits(cp_reg) \o t
  BY <1>1 DEF OwedIsKept, Kept
<1>6. CASE build.compact
  <2> DEFINE g == AllUnits(OnOffer)
  <2> DEFINE r == AllUnits(Rest(TRUE))
  <2>1. /\ OnOffer \in Seq(Piece) /\ Rest(TRUE) \in Seq(Piece)
        /\ cp_reg = OnOffer \o Rest(TRUE)
    BY <1>1, <1>6, OfferIs
  <2>2. g \in Seq(Unit) /\ r \in Seq(Unit)
    BY <2>1, AllUnitsTyped
  <2>3. AllUnits(OnOffer \o Rest(TRUE)) = g \o r
    BY ONLY <2>1, AllUnitsConcat
  <2> HIDE DEF g, r, t
  <2>4. owed = (g \o r) \o t
    BY <1>5, <2>1, <2>3
  <2>5. (g \o r) \o t = g \o (r \o t)
    <3>1. g \in Seq(Unit) /\ r \in Seq(Unit) /\ t \in Seq(Unit)
      BY <1>4, <2>2
    <3>2. Regroups(g, r, t)
      BY ONLY <3>1, Regroup, Zenon
    <3> QED BY ONLY <3>2 DEF Regroups
  <2>6. r \o t \in Seq(Unit)
    BY <1>4, <2>2, ConcatProperties
  <2> QED BY <1>2, <2>2, <2>4, <2>5, <2>6 DEF OfferFirst, g
<1>7. CASE ~build.compact
  <2>1. OnOffer = rx_cpl_reg
    BY <1>7 DEF OnOffer
  <2>2. b1_slots = <<>> /\ cy_reg = <<>> /\ cp_reg = <<>>
    BY <1>1, <1>7 DEF Framed
  <2>3. owed = <<>> \o (<<>> \o (<<>> \o (x \o h)))
    BY <1>5, <2>2, AllUnitsEmpty
  <2>4. <<>> \o (x \o h) = x \o h
    <3> DEFINE q == x \o h
    <3>1. q \in Seq(Unit)
      BY <1>4
    <3> HIDE DEF q
    <3>2. <<>> \o q = q
      BY <3>1, ConcatEmptySeq
    <3> QED BY <3>2 DEF q
  <2>5. owed = x \o h
    BY <2>3, <2>4
  <2> QED BY <1>2, <1>3, <2>1, <2>5 DEF OfferFirst
<1> QED BY <1>2, <1>6, <1>7

\* What is not taken stays on offer.
LEMMA OfferStays ==
  ASSUME TypeOK, Edge(FALSE), NEW sent, FrontMoves(FALSE, sent),
         AllUnits(OnOffer) # <<>>
  PROVE  OnOffer' = OnOffer
<1>1. /\ build' = build
      /\ Compact(FALSE) \/ NoCompact
      /\ build.compact \in BOOLEAN
  BY BuildFacts DEF BuildTyped, Edge, TypeOK
<1>2. CASE build.compact
  <2>1. BeatsLeft # 0
    BY <1>2, OfferIs, AllUnitsEmpty
  <2>2. ~b2_load(FALSE) /\ Compact(FALSE)
    BY <1>1, <1>2, <2>1 DEF b2_load, b2_free, NoCompact
  <2>3. cp_reg' = cp_reg
    BY <2>2 DEF Compact
  <2>4. OnOffer = SubSeq(cp_reg, 1, IF Len(cp_reg) < build.slots
                                    THEN Len(cp_reg) ELSE build.slots)
    BY <1>2 DEF OnOffer
  <2>5. OnOffer' = SubSeq(cp_reg', 1, IF Len(cp_reg') < build'.slots
                                      THEN Len(cp_reg') ELSE build'.slots)
    <3>1. build'.compact
      BY <1>1, <1>2
    <3> QED BY <3>1 DEF OnOffer
  <2> QED BY <1>1, <2>3, <2>4, <2>5, Zenon
<1>3. CASE ~build.compact
  <2>1. ~stage_a_ready(FALSE)
    BY <1>3 DEF stage_a_ready
  <2>2. rx_cpl_reg' = rx_cpl_reg
    BY <2>1 DEF FrontMoves
  <2>3. OnOffer = rx_cpl_reg
    BY <1>3 DEF OnOffer
  <2>4. OnOffer' = rx_cpl_reg'
    <3>1. ~build'.compact
      BY <1>1, <1>3
    <3> QED BY <3>1 DEF OnOffer
  <2> QED BY <2>2, <2>3, <2>4
<1> QED BY <1>1, <1>2, <1>3

\* Empty registers offer nothing.
LEMMA FreshOffer == Fresh => owed = <<>> /\ AllUnits(OnOffer) = <<>>
<1> SUFFICES ASSUME Fresh PROVE owed = <<>> /\ AllUnits(OnOffer) = <<>>
  OBVIOUS
<1>1. build \in Builds /\ cp_reg = <<>> /\ rx_cpl_reg = <<>> /\ owed = <<>>
  BY DEF Fresh
<1>2. build.slots \in Nat \ {0} /\ build.compact \in BOOLEAN
  BY <1>1, BuildFacts DEF BuildTyped
<1>3. OnOffer = <<>>
  <2>1. Len(<<>>) = 0 /\ SubSeq(<<>>, 1, 0) = <<>>
    BY SubSeqEmpty
  <2>2. CASE build.compact
    <3>1. Len(cp_reg) < build.slots /\ Len(cp_reg) = 0
      BY <1>1, <1>2, <2>1
    <3>2. OnOffer = SubSeq(cp_reg, 1, Len(cp_reg))
      BY <2>2, <3>1 DEF OnOffer
    <3> QED BY <1>1, <2>1, <3>1, <3>2
  <2>3. CASE ~build.compact
    BY <1>1, <2>3 DEF OnOffer
  <2> QED BY <1>2, <2>2, <2>3
<1> QED BY <1>1, <1>3, AllUnitsEmpty

\* An edge is a step of the stream.
LEMMA EdgeIsStep ==
  ASSUME Inv, OfferFirst', NEW fifo_tlp_ready \in BOOLEAN,
         Edge(fifo_tlp_ready)
  PROVE  Stream!Step
<1> DEFINE shown == AllUnits(OnOffer)
<1>1. PICK rest \in Seq(Unit), sent \in Seq(Unit) :
        /\ Gone(fifo_tlp_ready) \in Seq(Unit)
        /\ owed = Gone(fifo_tlp_ready) \o rest
        /\ owed' = rest \o sent
  BY EdgeMoves
<1>2. Stream!Starts(rest, owed')
  BY <1>1, BeginningOf
<1>3. Stream!Starts(shown', owed')
  <2>1. PICK t \in Seq(Unit) :
          /\ AllUnits(OnOffer)' \in Seq(Unit)
          /\ owed' = AllUnits(OnOffer)' \o t
    BY DEF OfferFirst
  <2> DEFINE q == AllUnits(OnOffer)'
  <2>2. q \in Seq(Unit) /\ owed' = q \o t
    BY <2>1
  <2> HIDE DEF q
  <2>3. Stream!Starts(q, q \o t)
    BY <2>2, BeginningOf
  <2> QED BY <2>2, <2>3 DEF q
<1>4. CASE fifo_tlp_ready
  <2>1. Gone(fifo_tlp_ready) = shown
    BY <1>4 DEF Gone
  <2>2. shown \in Seq(Unit) /\ owed = shown \o rest
    BY <1>1, <2>1
  <2> HIDE DEF shown
  <2>3. SubSeq(owed, Len(shown) + 1, Len(owed)) = rest
    BY <2>2, BackOf
  <2>4. Stream!Taken
    BY <1>2, <2>3 DEF Stream!Taken, shown
  <2> QED BY <1>3, <2>4 DEF Stream!Step, shown
<1>5. CASE ~fifo_tlp_ready
  <2>1. owed = rest
    <3>1. owed = <<>> \o rest
      BY <1>1, <1>5 DEF Gone
    <3>2. <<>> \o rest = rest
      BY ConcatEmptySeq
    <3> QED BY <3>1, <3>2
  <2>2. Stream!Starts(owed, owed')
    BY <1>2, <2>1
  <2>3. shown # <<>> => shown' = shown
    <3> SUFFICES ASSUME shown # <<>> PROVE shown' = shown
      OBVIOUS
    <3>1. TypeOK /\ Framed /\ Edge(FALSE)
      BY <1>5 DEF Inv
    <3>2. PICK new : FrontMoves(FALSE, new)
      BY <3>1, FrontKeeps DEF Edge
    <3>3. OnOffer' = OnOffer
      BY <3>1, <3>2, OfferStays
    <3> QED BY <3>3
  <2> HIDE DEF shown
  <2>4. Stream!Stays
    BY <2>2, <2>3 DEF Stream!Stays, shown
  <2> QED BY <1>3, <2>4 DEF Stream!Step, shown
<1> QED BY <1>4, <1>5

\* The engine implements TlpStream: the FIFO gets what the core sent, in
\* order and once, and what is on offer stays until it is taken.
THEOREM RcIsAStream == Spec => ImplementsStream
<1>1. Init => Stream!Init
  BY InitIsFresh, FreshOffer DEF Stream!Init
<1>2. Inv /\ Inv' /\ [Next]_vars => [Stream!Next]_<<owed, AllUnits(OnOffer)>>
  <2> SUFFICES ASSUME Inv, Inv', [Next]_vars
               PROVE  [Stream!Next]_<<owed, AllUnits(OnOffer)>>
    OBVIOUS
  <2>1. OfferFirst'
    <3>1. (Inv => OfferFirst)'
      BY InvOfferFirst, PTL
    <3> QED BY <3>1
  <2>2. ASSUME NEW fifo_tlp_ready \in BOOLEAN, Edge(fifo_tlp_ready)
        PROVE  Stream!Next
    <3>1. Stream!Step
      BY <2>1, <2>2, EdgeIsStep
    <3> QED BY <3>1 DEF Stream!Next
  <2>3. CASE Reset
    <3>1. Fresh'
      BY <2>3, ResetIsFresh
    <3>2. (Fresh => owed = <<>> /\ AllUnits(OnOffer) = <<>>)'
      BY FreshOffer, PTL
    <3>3. owed' = <<>> /\ AllUnits(OnOffer)' = <<>>
      BY <3>1, <3>2
    <3> QED BY <3>3 DEF Stream!Next, Stream!Flush
  <2>4. CASE UNCHANGED vars
    <3>1. build' = build /\ cp_reg' = cp_reg /\ rx_cpl_reg' = rx_cpl_reg
          /\ owed' = owed
      BY <2>4 DEF vars, coreVars
    <3>2. OnOffer' = OnOffer
      BY <3>1 DEF OnOffer
    <3> QED BY <3>1, <3>2
  <2> QED BY <2>2, <2>3, <2>4 DEF Next
<1> QED BY <1>1, <1>2, InvHolds, PTL
     DEF Spec, ImplementsStream, Stream!Spec

=============================================================================
