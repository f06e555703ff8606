------------------------------ MODULE TlpBeats ------------------------------
(***************************************************************************)
(* The dwords of one beat of a TLP interface and the packet marks on them, *)
(* as both halves of the gearbox and their neighbours read them.           *)
(***************************************************************************)
EXTENDS Naturals, Sequences, FiniteSets

\* What a neighbour that drives the interface right promises: packets come
\* one after the other.  With a packet open where the beat begins or not, the
\* dwords that start and end a packet take turns; a packet may end on the
\* dword that starts it, and the next one starts after that.
Alternate(open, starts, ends) ==
  LET k == IF open THEN 1 ELSE 0
  IN  /\ Len(ends) <= Len(starts) + k
      /\ Len(starts) + k <= Len(ends) + 1
      /\ \A i \in DOMAIN starts, j \in DOMAIN ends :
           IF j < i + k THEN ends[j] < starts[i] ELSE starts[i] <= ends[j]

\* The dwords of D as they follow each other on the interface.
InOrder(D) ==
  [i \in 1 .. Cardinality(D) |->
     CHOOSE d \in D : Cardinality({e \in D : e < d}) = i - 1]

\* How a neighbour counts packets: dword d is in one when more have started,
\* on it or before, than have ended before it.
Begun(starts, d) == Cardinality({i \in DOMAIN starts : starts[i] <= d})
Ended(ends, d) == Cardinality({j \in DOMAIN ends : ends[j] < d})

InPacket(open, starts, ends, d) ==
  (IF open THEN 1 ELSE 0) + Begun(starts, d) > Ended(ends, d)

Marks(s) == {s[i] : i \in DOMAIN s}

\* How the gearbox walks over the marks of a beat (cq_open_walk of the CQ half
\* and cc_open_walk of the CC half are the same walk): is a packet open just
\* before dword d, with one open at the beginning or not?  And is d a packet's?
OpenBefore(starts, ends, open, d) ==
  \/ open /\ \A e \in ends : e >= d
  \/ \E s \in starts : s < d /\ \A e \in ends : e < s \/ e >= d

Carries(starts, ends, open, d) ==
  d \in starts \/ OpenBefore(starts, ends, open, d)

=============================================================================
