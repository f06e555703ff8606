-------------------------- MODULE CqGearboxProofs --------------------------
(***************************************************************************)
(* Proofs about the completer-request gearbox, for every set of beats and  *)
(* every width of a half.  Its input buffer is a queue of at most two      *)
(* beats; the gearbox uses the buffer within its promises; with one packet *)
(* per beat tlast and is_eop agree on every half; and on the quarter grid  *)
(* two marks per half are enough.                                          *)
(***************************************************************************)
EXTENDS CqGearbox, TlpBeatsProofs

-----------------------------------------------------------------------------
(* The four ways an edge moves beats, and reset, keep the two facts.       *)

LEMMA TypeStep ==
  ASSUME SkidTypeOK, [SkidNext]_skidVars
  PROVE  SkidTypeOK'
<1>1. CASE UNCHANGED skidVars
  BY <1>1 DEF SkidTypeOK, skidVars
<1>2. ASSUME NEW tvalid \in BOOLEAN, NEW reg_ready \in BOOLEAN,
             NEW beat \in Beats, SkidEdge(tvalid, beat, reg_ready)
      PROVE  SkidTypeOK'
  <2>1. CASE StoreToReg(tvalid, beat, reg_ready)
    BY <1>2, <2>1 DEF StoreToReg, SkidTypeOK
  <2>2. CASE StoreToSkid(tvalid, beat, reg_ready)
    BY <1>2, <2>2 DEF StoreToSkid, SkidTypeOK
  <2>3. CASE SkidToReg(reg_ready)
    BY <1>2, <2>3 DEF SkidToReg, SkidTypeOK
  <2>4. CASE SkidHold(reg_ready)
    BY <1>2, <2>4 DEF SkidHold, SkidTypeOK
  <2> QED BY <1>2, <2>1, <2>2, <2>3, <2>4 DEF SkidEdge
<1>3. ASSUME NEW reg_ready \in BOOLEAN, NEW beat \in Beats,
             SkidReset(beat, reg_ready)
      PROVE  SkidTypeOK'
  BY <1>3 DEF SkidReset, SkidTypeOK
<1> QED BY <1>1, <1>2, <1>3 DEF SkidNext

LEMMA InvStep ==
  ASSUME SkidTypeOK, SkidInv, [SkidNext]_skidVars
  PROVE  SkidInv'
<1>1. CASE UNCHANGED skidVars
  BY <1>1 DEF SkidInv, skidVars
<1>2. ASSUME NEW tvalid \in BOOLEAN, NEW reg_ready \in BOOLEAN,
             NEW beat \in Beats, SkidEdge(tvalid, beat, reg_ready)
      PROVE  SkidInv'
  <2>1. CASE StoreToReg(tvalid, beat, reg_ready)
    BY <2>1 DEF StoreToReg, SkidInv
  <2>2. CASE StoreToSkid(tvalid, beat, reg_ready)
    BY <2>2 DEF StoreToSkid, SkidInv
  <2>3. CASE SkidToReg(reg_ready)
    BY <2>3 DEF SkidToReg, SkidInv
  <2>4. CASE SkidHold(reg_ready)
    BY <2>4 DEF SkidHold, SkidInv
  <2> QED BY <1>2, <2>1, <2>2, <2>3, <2>4 DEF SkidEdge
<1>3. ASSUME NEW reg_ready \in BOOLEAN, NEW beat \in Beats,
             SkidReset(beat, reg_ready)
      PROVE  SkidInv'
  BY <1>3 DEF SkidReset, SkidInv
<1> QED BY <1>1, <1>2, <1>3 DEF SkidNext

(***************************************************************************)
(* tready is never high over an occupied skid register, and the skid       *)
(* register is never occupied behind an empty output register.             *)
(***************************************************************************)
THEOREM SkidNeverOverrun == SkidSpec => [](SkidTypeOK /\ SkidInv)
<1>1. SkidInit => SkidTypeOK /\ SkidInv
  BY DEF SkidInit, SkidTypeOK, SkidInv
<1>2. SkidTypeOK /\ SkidInv /\ [SkidNext]_skidVars => (SkidTypeOK /\ SkidInv)'
  BY TypeStep, InvStep
<1> QED BY <1>1, <1>2, PTL DEF SkidSpec

-----------------------------------------------------------------------------
(* The beats held, oldest first.                                           *)

LEMMA ShortQueues ==
  ASSUME NEW a \in Beats, NEW b \in Beats
  PROVE  /\ <<a>> \o <<b>> = <<a, b>>
         /\ Append(<<>>, a) = <<a>>
         /\ Append(<<a>>, b) = <<a, b>>
         /\ Tail(<<a>>) = <<>>
         /\ Tail(<<a, b>>) = <<b>>
<1> DEFINE u == Append(<<a>>, b)
           v == <<a, b>>
<1>1. u = v
  <2>1. u \in Seq(Beats) /\ v \in Seq(Beats)
    OBVIOUS
  <2>2. Len(u) = 2 /\ u[1] = a /\ u[2] = b
    OBVIOUS
  <2>3. Len(v) = 2 /\ v[1] = a /\ v[2] = b
    OBVIOUS
  <2> HIDE DEF u, v
  <2>4. \A i \in 1 .. Len(u) : u[i] = v[i]
    BY <2>2, <2>3
  <2> QED BY <2>1, <2>2, <2>3, <2>4, SeqEqual
<1>2. <<a>> \o <<b>> = u
  BY AppendIsConcat
<1>3. Append(<<>>, a) = <<a>>
  OBVIOUS
<1>4. Tail(<<a>>) = <<>>
  OBVIOUS
<1>5. Tail(<<a, b>>) = <<b>>
  OBVIOUS
<1> QED BY <1>1, <1>2, <1>3, <1>4, <1>5

\* The beats in the two registers, oldest first.
Held ==
  (IF cq_reg_tvalid THEN <<cq_reg>> ELSE <<>>)
    \o (IF cq_skid_tvalid THEN <<cq_skid>> ELSE <<>>)

LEMMA HeldBeats ==
  ASSUME SkidTypeOK, SkidInv
  PROVE  /\ ~cq_reg_tvalid => Held = <<>>
         /\ cq_reg_tvalid /\ ~cq_skid_tvalid => Held = <<cq_reg>>
         /\ cq_skid_tvalid => Held = <<cq_reg, cq_skid>>
<1>1. CASE ~cq_reg_tvalid
  BY <1>1 DEF Held, SkidInv
<1>2. CASE cq_reg_tvalid /\ ~cq_skid_tvalid
  BY <1>2 DEF Held, SkidTypeOK
<1>3. CASE cq_skid_tvalid
  <2>1. Held = <<cq_reg>> \o <<cq_skid>>
    BY <1>3 DEF Held, SkidInv
  <2>2. Held = <<cq_reg, cq_skid>>
    BY <2>1, ShortQueues DEF SkidTypeOK
  <2> QED BY <2>2, <1>3 DEF SkidInv
<1> QED BY <1>1, <1>2, <1>3 DEF SkidInv, SkidTypeOK

(***************************************************************************)
(* What one edge does to the beats held: the oldest leaves if the output   *)
(* was valid and taken, and the beat on the bus joins if it was valid and  *)
(* tready was high.  In particular no accepted beat is dropped.            *)
(***************************************************************************)
LEMMA EdgeMovesBeats ==
  ASSUME SkidTypeOK, SkidInv,
         NEW tvalid \in BOOLEAN, NEW reg_ready \in BOOLEAN, NEW beat \in Beats,
         SkidEdge(tvalid, beat, reg_ready)
  PROVE  LET kept == IF cq_reg_tvalid /\ reg_ready THEN Tail(Held) ELSE Held
         IN  Held' = IF tvalid /\ cq_in_ready_reg THEN Append(kept, beat)
                                                  ELSE kept
<1>0. SkidTypeOK' /\ SkidInv'
  <2>1. SkidNext
    BY DEF SkidNext
  <2> QED BY <2>1, TypeStep, InvStep
<1>1. /\ ~cq_reg_tvalid => Held = <<>>
      /\ cq_reg_tvalid /\ ~cq_skid_tvalid => Held = <<cq_reg>>
      /\ cq_skid_tvalid => Held = <<cq_reg, cq_skid>>
  BY HeldBeats
<1>2. /\ ~cq_reg_tvalid' => Held' = <<>>
      /\ cq_reg_tvalid' /\ ~cq_skid_tvalid' => Held' = <<cq_reg'>>
      /\ cq_skid_tvalid' => Held' = <<cq_reg', cq_skid'>>
  <2>1. (SkidTypeOK /\ SkidInv)' =>
          (/\ ~cq_reg_tvalid => Held = <<>>
           /\ cq_reg_tvalid /\ ~cq_skid_tvalid => Held = <<cq_reg>>
           /\ cq_skid_tvalid => Held = <<cq_reg, cq_skid>>)'
    BY HeldBeats, PTL
  <2> QED BY <1>0, <2>1
<1> DEFINE kept == IF cq_reg_tvalid /\ reg_ready THEN Tail(Held) ELSE Held
           next == IF tvalid /\ cq_in_ready_reg THEN Append(kept, beat)
                                                ELSE kept
<1> SUFFICES Held' = next
  OBVIOUS
<1>3. CASE StoreToReg(tvalid, beat, reg_ready)
  <2>1. cq_in_ready_reg /\ ~cq_skid_tvalid
    BY <1>3 DEF StoreToReg, SkidInv
  <2>2. kept = <<>>
    <3>1. CASE cq_reg_tvalid
      BY <1>1, <1>3, <2>1, <3>1, ShortQueues DEF StoreToReg, SkidTypeOK
    <3>2. CASE ~cq_reg_tvalid
      BY <1>1, <3>2
    <3> QED BY <3>1, <3>2
  <2>3. CASE tvalid
    <3>1. next = <<beat>>
      BY <2>1, <2>2, <2>3, ShortQueues
    <3>2. Held' = <<beat>>
      BY <1>2, <1>3, <2>1, <2>3 DEF StoreToReg
    <3> QED BY <3>1, <3>2
  <2>4. CASE ~tvalid
    BY <1>2, <1>3, <2>2, <2>4 DEF StoreToReg
  <2> QED BY <2>3, <2>4
<1>4. CASE StoreToSkid(tvalid, beat, reg_ready)
  <2>1. cq_in_ready_reg /\ ~cq_skid_tvalid /\ cq_reg_tvalid /\ ~reg_ready
    BY <1>4 DEF StoreToSkid, SkidInv
  <2>2. kept = <<cq_reg>>
    BY <1>1, <2>1
  <2>3. CASE tvalid
    <3>1. next = <<cq_reg, beat>>
      BY <2>1, <2>2, <2>3, ShortQueues DEF SkidTypeOK
    <3>2. Held' = <<cq_reg, beat>>
      BY <1>2, <1>4, <2>1, <2>3 DEF StoreToSkid
    <3> QED BY <3>1, <3>2
  <2>4. CASE ~tvalid
    BY <1>2, <1>4, <2>1, <2>2, <2>4 DEF StoreToSkid
  <2> QED BY <2>3, <2>4
<1>5. CASE SkidToReg(reg_ready)
  <2>1. ~cq_in_ready_reg /\ reg_ready
    BY <1>5 DEF SkidToReg
  <2>2. next = kept
    BY <2>1
  <2>3. CASE cq_skid_tvalid
    <3>1. kept = <<cq_skid>>
      BY <1>1, <2>1, <2>3, ShortQueues DEF SkidInv, SkidTypeOK
    <3>2. Held' = <<cq_skid>>
      BY <1>2, <1>5, <2>3 DEF SkidToReg
    <3> QED BY <2>2, <3>1, <3>2
  <2>4. CASE ~cq_skid_tvalid
    <3>1. kept = <<>>
      <4>1. CASE cq_reg_tvalid
        BY <1>1, <2>1, <2>4, <4>1, ShortQueues DEF SkidTypeOK
      <4>2. CASE ~cq_reg_tvalid
        BY <1>1, <4>2
      <4> QED BY <4>1, <4>2
    <3>2. Held' = <<>>
      BY <1>2, <1>5, <2>4 DEF SkidToReg
    <3> QED BY <2>2, <3>1, <3>2
  <2> QED BY <2>3, <2>4
<1>6. CASE SkidHold(reg_ready)
  <2>1. ~cq_in_ready_reg /\ ~reg_ready
    BY <1>6 DEF SkidHold
  <2>2. Held' = Held
    BY <1>6 DEF SkidHold, Held
  <2> QED BY <2>1, <2>2
<1> QED BY <1>3, <1>4, <1>5, <1>6 DEF SkidEdge

-----------------------------------------------------------------------------
(***************************************************************************)
(* The beats accepted and not yet passed on, as the two handshakes count   *)
(* them, are the beats in the two registers: every edge moves both alike.  *)
(***************************************************************************)
LedgerIsHeld == accepted = Held

LEMMA HeldShows ==
  ASSUME SkidTypeOK, SkidInv
  PROVE  /\ Held \in Seq(Beats)
         /\ cq_reg_tvalid => Held # <<>>
         /\ cq_in_ready_reg => Len(Held) < 2
         /\ Fifo!Oldest(Held) = IF cq_reg_tvalid THEN <<cq_reg>> ELSE <<>>
<1>1. /\ cq_reg \in Beats /\ cq_skid \in Beats
      /\ ~cq_reg_tvalid => Held = <<>>
      /\ cq_reg_tvalid /\ ~cq_skid_tvalid => Held = <<cq_reg>>
      /\ cq_skid_tvalid => Held = <<cq_reg, cq_skid>>
      /\ cq_in_ready_reg => ~cq_skid_tvalid
      /\ cq_skid_tvalid => cq_reg_tvalid
  BY HeldBeats DEF SkidTypeOK, SkidInv
<1>2. CASE ~cq_reg_tvalid
  BY <1>1, <1>2 DEF Fifo!Oldest
<1>3. CASE cq_reg_tvalid /\ ~cq_skid_tvalid
  <2>1. /\ <<cq_reg>> \in Seq(Beats) /\ <<cq_reg>> # <<>>
        /\ Len(<<cq_reg>>) = 1 /\ Head(<<cq_reg>>) = cq_reg
    BY <1>1
  <2>2. Held = <<cq_reg>>
    BY <1>1, <1>3
  <2> QED BY <1>3, <2>1, <2>2 DEF Fifo!Oldest
<1>4. CASE cq_skid_tvalid
  <2>1. /\ <<cq_reg, cq_skid>> \in Seq(Beats)
        /\ <<cq_reg, cq_skid>> # <<>>
        /\ Head(<<cq_reg, cq_skid>>) = cq_reg
    BY <1>1
  <2>2. Held = <<cq_reg, cq_skid>> /\ ~cq_in_ready_reg /\ cq_reg_tvalid
    BY <1>1, <1>4
  <2> QED BY <2>1, <2>2 DEF Fifo!Oldest
<1> QED BY <1>2, <1>3, <1>4

\* Adding nothing or one beat to a list.
LEMMA ListPlus ==
  ASSUME NEW kept \in Seq(Beats), NEW beat \in Beats
  PROVE  kept \o <<>> = kept /\ kept \o <<beat>> = Append(kept, beat)
BY EmptyRight, AppendIsConcat

LEMMA LedgerMoves ==
  ASSUME SkidTypeOK, SkidInv, LedgerIsHeld,
         NEW tvalid \in BOOLEAN, NEW reg_ready \in BOOLEAN, NEW beat \in Beats,
         SkidEdge(tvalid, beat, reg_ready)
  PROVE  LET kept == IF cq_reg_tvalid /\ reg_ready THEN Tail(accepted)
                                                   ELSE accepted
         IN  /\ kept \in Seq(Beats)
             /\ accepted' = IF tvalid /\ cq_in_ready_reg
                              THEN Append(kept, beat) ELSE kept
             /\ LedgerIsHeld'
<1> DEFINE kept == IF cq_reg_tvalid /\ reg_ready THEN Tail(accepted)
                                                 ELSE accepted
           joins == tvalid /\ cq_in_ready_reg
<1>1. kept \in Seq(Beats)
  <2>1. accepted \in Seq(Beats) /\ (cq_reg_tvalid => accepted # <<>>)
    BY HeldShows DEF LedgerIsHeld
  <2> QED BY <2>1, HeadTailProperties
<1>2. accepted' = kept \o (IF joins THEN <<beat>> ELSE <<>>)
  BY DEF SkidEdge, Handshakes
<1>3. accepted' = IF joins THEN Append(kept, beat) ELSE kept
  <2> HIDE DEF kept, joins
  <2> QED BY <1>1, <1>2, ListPlus
<1>4. Held' = IF joins THEN Append(kept, beat) ELSE kept
  BY EdgeMovesBeats DEF LedgerIsHeld
<1> QED BY <1>1, <1>3, <1>4 DEF LedgerIsHeld

LEMMA LedgerHolds ==
  ASSUME SkidTypeOK, SkidInv, LedgerIsHeld, [SkidNext]_skidVars
  PROVE  LedgerIsHeld'
<1>1. CASE UNCHANGED skidVars
  BY <1>1 DEF skidVars, LedgerIsHeld, Held
<1>2. ASSUME NEW tvalid \in BOOLEAN, NEW reg_ready \in BOOLEAN,
             NEW beat \in Beats, SkidEdge(tvalid, beat, reg_ready)
      PROVE  LedgerIsHeld'
  BY <1>2, LedgerMoves
<1>3. ASSUME NEW reg_ready \in BOOLEAN, NEW beat \in Beats,
             SkidReset(beat, reg_ready)
      PROVE  LedgerIsHeld'
  BY <1>3 DEF SkidReset, LedgerIsHeld, Held
<1> QED BY <1>1, <1>2, <1>3 DEF SkidNext

QInv == SkidTypeOK /\ SkidInv /\ LedgerIsHeld

RegOut == IF cq_reg_tvalid THEN <<cq_reg>> ELSE <<>>

ShowsOldest == RegOut = Fifo!Oldest(accepted)

LEMMA QInvShows == QInv => ShowsOldest
BY HeldShows DEF QInv, LedgerIsHeld, ShowsOldest, RegOut

LEMMA QInvInit == SkidInit => Fifo!Init /\ QInv
<1> SUFFICES ASSUME SkidInit PROVE Fifo!Init /\ QInv
  OBVIOUS
<1>1. SkidTypeOK /\ SkidInv /\ accepted = <<>> /\ ~cq_reg_tvalid
  BY DEF SkidInit, SkidTypeOK, SkidInv
<1>2. Held = <<>>
  BY <1>1, HeldBeats
<1> QED BY <1>1, <1>2 DEF Fifo!Init, QInv, LedgerIsHeld

(***************************************************************************)
(* The output register always shows the oldest beat that was accepted and  *)
(* not yet passed on, and there are never more than two such beats: beats  *)
(* are accepted by the handshake on s_axis_cq, passed on by the handshake  *)
(* of the output register and otherwise only dropped by rst, so none is    *)
(* lost, repeated, changed or overtaken in between.                        *)
(***************************************************************************)
THEOREM SkidIsQueue == SkidSpec => ImplementsFifo
<1> USE DEF Fifo!Next, Fifo!Put, Fifo!Take, Fifo!Pass, Fifo!Flush, Fifo!Joined
<1>1. SkidInit => Fifo!Init /\ QInv
  BY QInvInit
<1>2. QInv /\ [SkidNext]_skidVars => QInv'
  BY TypeStep, InvStep, LedgerHolds DEF QInv
<1>3. (QInv => ShowsOldest) /\ (QInv' => ShowsOldest')
  BY QInvShows, PTL
<1>4. QInv /\ QInv' /\ [SkidNext]_skidVars
        => [Fifo!Next]_<<accepted, IF cq_reg_tvalid THEN <<cq_reg>> ELSE <<>> >>
  <2> SUFFICES ASSUME QInv, QInv', [SkidNext]_skidVars
               PROVE  [Fifo!Next]_<<accepted, RegOut>>
    BY DEF RegOut
  <2>0. /\ RegOut' = Fifo!Oldest(accepted')
        /\ SkidTypeOK /\ SkidInv /\ LedgerIsHeld
        /\ RegOut' = IF cq_reg_tvalid' THEN <<cq_reg'>> ELSE <<>>
    BY <1>3 DEF QInv, ShowsOldest, Fifo!Oldest, RegOut
  <2>1. CASE UNCHANGED skidVars
    BY <2>1 DEF skidVars, RegOut
  <2>2. ASSUME NEW tvalid \in BOOLEAN, NEW reg_ready \in BOOLEAN,
               NEW beat \in Beats, SkidEdge(tvalid, beat, reg_ready)
        PROVE  [Fifo!Next]_<<accepted, RegOut>>
    <3> DEFINE kept == IF cq_reg_tvalid /\ reg_ready THEN Tail(accepted)
                                                     ELSE accepted
    <3>1. /\ accepted' = IF tvalid /\ cq_in_ready_reg
                           THEN Append(kept, beat) ELSE kept
          /\ kept \in Seq(Beats)
      BY <2>0, <2>2, LedgerMoves
    <3>2. /\ cq_reg_tvalid => accepted # <<>>
          /\ cq_in_ready_reg => Len(accepted) < 2
      BY <2>0, HeldShows DEF LedgerIsHeld
    <3> HIDE DEF kept
    <3>3. CASE tvalid /\ cq_in_ready_reg
      <4>1. /\ accepted' = Append(kept, beat)
            /\ Len(accepted') = Len(kept) + 1
            /\ accepted'[Len(accepted')] = beat
        BY <3>1, <3>3, AppendProperties
      <4>2. Fifo!Joined(kept)
        BY <4>1
      <4>3. Fifo!Put \/ Fifo!Pass
        BY <3>2, <3>3, <4>2 DEF kept
      <4> QED BY <2>0, <4>3
    <3>4. CASE ~(tvalid /\ cq_in_ready_reg)
      <4>1. accepted' = accepted \/ Fifo!Take
        BY <3>1, <3>2, <3>4 DEF kept
      <4>2. accepted' = accepted => RegOut' = RegOut
        BY <1>3, <2>0 DEF QInv, ShowsOldest
      <4> QED BY <2>0, <4>1, <4>2
    <3> QED BY <3>3, <3>4
  <2>3. ASSUME NEW reg_ready \in BOOLEAN, NEW beat \in Beats,
               SkidReset(beat, reg_ready)
        PROVE  Fifo!Next
    <3>1. accepted' = <<>>
      BY <2>3 DEF SkidReset
    <3> QED BY <2>0, <3>1
  <2> QED BY <2>1, <2>2, <2>3 DEF SkidNext
<1> QED BY <1>1, <1>2, <1>4, PTL
           DEF SkidSpec, ImplementsFifo, Fifo!Spec

-----------------------------------------------------------------------------
(* The gearbox around its input buffer.                                    *)

LEMMA ReadyIsBoolean ==
  ASSUME NEW tready \in BOOLEAN
  PROVE  cq_reg_ready(tready) \in BOOLEAN
BY DEF cq_reg_ready

LEMMA StepIsBuffers ==
  ASSUME build \in Builds, [CqNext]_cqVars
  PROVE  [SkidNext]_skidVars /\ build' \in Builds
<1>1. CASE UNCHANGED cqVars
  BY <1>1 DEF cqVars
<1>2. ASSUME NEW tvalid \in BOOLEAN, NEW tready \in BOOLEAN,
             NEW beat \in Beats, Edge(tvalid, beat, tready)
      PROVE  SkidNext /\ build' \in Builds
  <2>1. SkidEdge(tvalid, beat, cq_reg_ready(tready)) /\ build' = build
    BY <1>2 DEF Edge
  <2> QED BY <2>1, ReadyIsBoolean DEF SkidNext
<1>3. ASSUME NEW tready \in BOOLEAN, Offer(tready)
      PROVE  SkidNext /\ build' \in Builds
  <2>1. CASE \E beat \in BusBeats(build) : Edge(TRUE, beat, tready)
    BY <1>2, <2>1, TrafficAssumption
  <2>2. CASE Edge(FALSE, Idle, tready)
    BY <1>2, <2>2, TrafficAssumption
  <2> QED BY <1>3, <2>1, <2>2 DEF Offer
<1>4. ASSUME NEW tready \in BOOLEAN, Reset(Idle, tready)
      PROVE  SkidNext /\ build' \in Builds
  <2>1. SkidReset(Idle, cq_reg_ready(tready)) /\ build' = build
    BY <1>4 DEF Reset
  <2> QED BY <2>1, ReadyIsBoolean, TrafficAssumption DEF SkidNext
<1> QED BY <1>1, <1>3, <1>4 DEF CqNext

(***************************************************************************)
(* Whatever the shim and the split do, what they do to the input buffer is *)
(* a behaviour of it: every theorem about the buffer holds in the gearbox. *)
(***************************************************************************)
THEOREM GearboxRunsBuffer ==
  CqSpec => SkidSpec
<1>1. CqInit => SkidInit /\ build \in Builds
  BY TrafficAssumption DEF CqInit, SkidInit
<1>2. build \in Builds /\ [CqNext]_cqVars
        => [SkidNext]_skidVars /\ (build \in Builds)'
  BY StepIsBuffers
<1> QED BY <1>1, <1>2, PTL DEF CqSpec, SkidSpec

(***************************************************************************)
(* In the gearbox, whatever the shim and the split do: the output register *)
(* always shows the oldest beat accepted on s_axis_cq and not yet split to *)
(* its end, of at most two, and tready is never high over an occupied skid *)
(* register.                                                               *)
(***************************************************************************)
THEOREM GearboxBufferIsQueue ==
  CqSpec => ImplementsFifo /\ []SkidInv
<1>1. CqSpec => SkidSpec
  BY GearboxRunsBuffer
<1>2. SkidTypeOK /\ SkidInv => SkidInv
  OBVIOUS
<1> QED BY <1>1, <1>2, SkidIsQueue, SkidNeverOverrun, PTL

-----------------------------------------------------------------------------
(* One packet per beat.                                                    *)

\* A half is where a dword's number says, for every width.
LEMMA HalfOfDword ==
  ASSUME NEW c, c.half \in Nat \ {0}, NEW d \in 0 .. 2 * c.half - 1
  PROVE  HalfOf(c, d) = IF d < c.half THEN 0 ELSE 1
<1> DEFINE h == c.half
<1>1. d < h => d \div h = 0
  BY SMT
<1>2. d >= h => d \div h = 1
  BY SMT
<1> QED BY <1>1, <1>2 DEF HalfOf

\* The dwords tkeep marks, and which halves hold any of them.
LEMMA KeptHalves ==
  ASSUME NEW c, ~c.straddle, c.half \in Nat \ {0}, NEW b, NEW open,
         b.keep \in 1 .. 2 * c.half
  PROVE  /\ Strb(c, b, open) = 0 .. b.keep - 1
         /\ \E d \in Strb(c, b, open) : HalfOf(c, d) = 0
         /\ (\E d \in Strb(c, b, open) : HalfOf(c, d) = 1) <=> b.keep > c.half
<1>1. Strb(c, b, open) = 0 .. b.keep - 1
  BY DEF Strb, Dwords
<1>2. \A d \in 0 .. b.keep - 1 :
        d \in 0 .. 2 * c.half - 1 /\ HalfOf(c, d) = IF d < c.half THEN 0 ELSE 1
  <2> TAKE d \in 0 .. b.keep - 1
  <2>1. d \in 0 .. 2 * c.half - 1
    OBVIOUS
  <2> QED BY <2>1, HalfOfDword
<1>3. 0 \in 0 .. b.keep - 1 /\ HalfOf(c, 0) = 0
  BY <1>2
<1>4. ASSUME b.keep > c.half
      PROVE  c.half \in 0 .. b.keep - 1 /\ HalfOf(c, c.half) = 1
  BY <1>2, <1>4
<1>5. ASSUME NEW d \in 0 .. b.keep - 1, HalfOf(c, d) = 1
      PROVE  b.keep > c.half
  BY <1>2, <1>5
<1> QED BY <1>1, <1>3, <1>4, <1>5

\* The half with the last of them has the end, if the packet ends at all.
LEMMA EndOfKept ==
  ASSUME NEW c, ~c.straddle, c.half \in Nat \ {0}, NEW b, NEW open,
         b.keep \in 1 .. 2 * c.half, NEW h \in {0, 1}
  PROVE  HalfEop(c, b, open, h) # {}
           <=> b.last /\ h = (IF b.keep > c.half THEN 1 ELSE 0)
<1> DEFINE ends == {x \in Strb(c, b, open) : /\ b.last /\ HalfOf(c, x) = h
                                             /\ x + 1 \notin Strb(c, b, open)}
<1>1. HalfEop(c, b, open, h) # {} <=> ends # {}
  BY DEF HalfEop
<1>2. Strb(c, b, open) = 0 .. b.keep - 1
  BY KeptHalves
<1>3. HalfOf(c, b.keep - 1) = IF b.keep > c.half THEN 1 ELSE 0
  <2>1. b.keep - 1 \in 0 .. 2 * c.half - 1
    OBVIOUS
  <2> QED BY <2>1, HalfOfDword
<1>4. \A x \in Strb(c, b, open) :
        x + 1 \notin Strb(c, b, open) <=> x = b.keep - 1
  BY <1>2
<1>5. ends # {} <=> b.last /\ HalfOf(c, b.keep - 1) = h
  BY <1>2, <1>4
<1> QED BY <1>1, <1>3, <1>5

-----------------------------------------------------------------------------
(***************************************************************************)
(* What the split of a beat on show depends on: the beats held are the     *)
(* bus's, and the high half is next only when the low half of the same     *)
(* beat has gone and the high half holds something.                        *)
(***************************************************************************)
WellTyped ==
  /\ build \in Builds
  /\ SkidTypeOK /\ SkidInv
  /\ cq_phase_reg \in BOOLEAN /\ cq_open_reg \in BOOLEAN

BusBeatsHeld ==
  /\ cq_reg_tvalid => cq_reg \in BusBeats(build)
  /\ cq_skid_tvalid => cq_skid \in BusBeats(build)

PhaseInBeat ==
  cq_phase_reg => cq_reg_tvalid /\ split.occ[0] /\ split.occ[1]

LEMMA SplitFields ==
  ASSUME WellTyped
  PROVE  /\ \A h \in {0, 1} :
              /\ split.occ[h] <=> \E d \in Strb(build, cq_reg, cq_open_reg) :
                                     HalfOf(build, d) = h
              /\ split.eops[h] = HalfEop(build, cq_reg, cq_open_reg, h)
         /\ split.open_next = OpenNext(build, cq_reg, cq_open_reg)
         /\ split.closes <=> BeatCloses(build, cq_reg, cq_open_reg)
BY DEF WellTyped, SkidTypeOK, split, SplitOf

PlainInv == WellTyped /\ BusBeatsHeld /\ PhaseInBeat

LEMMA PlainInit ==
  ASSUME CqInit
  PROVE  PlainInv
BY TrafficAssumption
   DEF CqInit, PlainInv, WellTyped, SkidTypeOK, SkidInv, BusBeatsHeld,
       PhaseInBeat

LEMMA OpenNextIsBoolean ==
  ASSUME PlainInv, cq_reg_tvalid
  PROVE  split.open_next \in BOOLEAN
<1>1. split.open_next = OpenNext(build, cq_reg, cq_open_reg)
  BY SplitFields DEF PlainInv
<1>2. CASE build.straddle
  BY <1>1, <1>2 DEF OpenNext, OpenBefore
<1>3. CASE ~build.straddle
  BY <1>1, <1>3 DEF OpenNext
<1> QED BY <1>2, <1>3

LEMMA EdgeKeepsPlain ==
  ASSUME PlainInv,
         NEW tvalid \in BOOLEAN, NEW tready \in BOOLEAN, NEW beat \in Beats,
         tvalid => beat \in BusBeats(build), Edge(tvalid, beat, tready)
  PROVE  PlainInv'
<1> DEFINE ready == cq_reg_ready(tready)
<1>1. /\ SkidEdge(tvalid, beat, ready) /\ ready \in BOOLEAN
      /\ Advance(tready) /\ build' = build
  BY ReadyIsBoolean DEF Edge
<1>2. SkidTypeOK' /\ SkidInv'
  <2>1. SkidNext
    BY <1>1 DEF SkidNext
  <2> QED BY <2>1, TypeStep, InvStep DEF PlainInv, WellTyped
<1>3. cq_phase_reg' \in BOOLEAN /\ cq_open_reg' \in BOOLEAN
  BY <1>1, OpenNextIsBoolean
     DEF Advance, PlainInv, WellTyped, cq_last_half, m_axis_cq_tvalid
<1>4. BusBeatsHeld'
  BY <1>1 DEF SkidEdge, StoreToReg, StoreToSkid, SkidToReg, SkidHold,
              PlainInv, BusBeatsHeld
<1>5. PhaseInBeat'
  <2> SUFFICES ASSUME cq_phase_reg' PROVE PhaseInBeat'
    BY DEF PhaseInBeat
  <2>1. cq_reg_tvalid /\ split.occ[0] /\ split.occ[1] /\ ~ready
    <3>1. CASE m_axis_cq_tvalid /\ tready
      BY <1>1, <3>1 DEF Advance, m_axis_cq_tvalid, cq_last_half, cq_reg_ready,
                        cq_any
    <3>2. CASE ~(m_axis_cq_tvalid /\ tready)
      BY <1>1, <3>2 DEF Advance, m_axis_cq_tvalid, cq_reg_ready, cq_any,
                        PlainInv, PhaseInBeat
    <3> QED BY <3>1, <3>2
  <2>2. cq_open_reg' = cq_open_reg
    BY <1>1, <2>1 DEF Advance, m_axis_cq_tvalid, cq_reg_ready, cq_any
  <2>3. cq_reg' = cq_reg /\ cq_reg_tvalid'
    BY <1>1, <2>1 DEF SkidEdge, StoreToReg, StoreToSkid, SkidToReg, SkidHold
  <2>4. split' = split
    BY <1>1, <2>2, <2>3 DEF split
  <2> QED BY <2>1, <2>3, <2>4 DEF PhaseInBeat
<1> QED BY <1>1, <1>2, <1>3, <1>4, <1>5 DEF PlainInv, WellTyped

LEMMA PlainStep ==
  ASSUME PlainInv, [CqNext]_cqVars
  PROVE  PlainInv'
<1>1. CASE UNCHANGED cqVars
  BY <1>1 DEF cqVars, skidVars, PlainInv, WellTyped, SkidTypeOK, SkidInv,
              BusBeatsHeld, PhaseInBeat, split
<1>2. ASSUME NEW tready \in BOOLEAN, Offer(tready)
      PROVE  PlainInv'
  <2>1. CASE \E beat \in BusBeats(build) : Edge(TRUE, beat, tready)
    BY <2>1, EdgeKeepsPlain, TrafficAssumption DEF PlainInv, WellTyped
  <2>2. CASE Edge(FALSE, Idle, tready)
    BY <2>2, EdgeKeepsPlain, TrafficAssumption
  <2> QED BY <1>2, <2>1, <2>2 DEF Offer
<1>3. ASSUME NEW tready \in BOOLEAN, Reset(Idle, tready)
      PROVE  PlainInv'
  <2>1. SkidReset(Idle, cq_reg_ready(tready)) /\ build' = build
    BY <1>3 DEF Reset
  <2>2. SkidTypeOK' /\ SkidInv'
    <3>1. SkidNext
      BY <2>1, ReadyIsBoolean, TrafficAssumption DEF SkidNext
    <3> QED BY <3>1, TypeStep, InvStep DEF PlainInv, WellTyped
  <2> QED BY <1>3, <2>1, <2>2 DEF Reset, SkidReset, PlainInv, WellTyped,
                                  BusBeatsHeld, PhaseInBeat
<1> QED BY <1>1, <1>2, <1>3 DEF CqNext

LEMMA PlainAgrees ==
  ASSUME PlainInv
  PROVE  LastMarksEop
<1> SUFFICES ASSUME m_axis_cq_tvalid, ~build.straddle
             PROVE  m_axis_cq_tlast <=> split.eops[cq_sel] # {}
  BY DEF LastMarksEop
<1> DEFINE both == cq_reg.keep > build.half
<1>1. /\ build.half \in Nat \ {0}
      /\ cq_reg.keep \in 1 .. 2 * build.half
  BY TrafficAssumption
     DEF PlainInv, WellTyped, BusBeatsHeld, m_axis_cq_tvalid, LegalBeat
<1>2. split.occ[0] /\ (split.occ[1] <=> both)
  BY <1>1, SplitFields, KeptHalves DEF PlainInv
<1>3. \A h \in {0, 1} : split.eops[h] # {}
                          <=> cq_reg.last /\ h = (IF both THEN 1 ELSE 0)
  BY <1>1, SplitFields, EndOfKept DEF PlainInv
<1>4. m_axis_cq_tlast <=> cq_last_half /\ cq_reg.last
  BY SplitFields DEF m_axis_cq_tlast, BeatCloses, PlainInv
<1>5. cq_last_half <=> cq_phase_reg \/ ~both
  BY <1>2 DEF cq_last_half
<1>6. cq_sel = (IF cq_phase_reg THEN 1 ELSE 0) /\ (cq_phase_reg => both)
  BY <1>2 DEF cq_sel, PlainInv, PhaseInBeat
<1> QED BY <1>3, <1>4, <1>5, <1>6

(***************************************************************************)
(* Without straddle, tlast and is_eop say the same of every half on show,  *)
(* for every width of a half and every tkeep.                              *)
(***************************************************************************)
THEOREM TlastMarksEop ==
  CqSpec => []LastMarksEop
<1>1. CqInit => PlainInv
  BY PlainInit
<1>2. PlainInv /\ [CqNext]_cqVars => PlainInv'
  BY PlainStep
<1>3. PlainInv => LastMarksEop
  BY PlainAgrees
<1> QED BY <1>1, <1>2, <1>3, PTL DEF CqSpec

-----------------------------------------------------------------------------
(* Straddled, packets starting a quarter of a beat apart.                  *)

\* A set of which any three elements are not all different has two at most.
LEMMA NoThreeDistinct ==
  ASSUME NEW M, IsFiniteSet(M),
         \A i, j, k \in M : i = j \/ j = k \/ i = k
  PROVE  Cardinality(M) \in Nat /\ Cardinality(M) <= 2
<1>1. CASE M = {}
  BY <1>1, FS_EmptySet
<1>2. ASSUME NEW i \in M
      PROVE  Cardinality(M) \in Nat /\ Cardinality(M) <= 2
  <2>1. CASE M = {i}
    BY <2>1, FS_Singleton
  <2>2. ASSUME NEW j \in M, j # i
        PROVE  Cardinality(M) \in Nat /\ Cardinality(M) <= 2
    <3>1. M = {i} \cup {j}
      BY <2>2
    <3>2. IsFiniteSet({i}) /\ Cardinality({i}) = 1
      BY FS_Singleton
    <3> QED BY <2>2, <3>1, <3>2, FS_AddElement
  <2> QED BY <2>1, <2>2
<1> QED BY <1>1, <1>2

\* The dwords a half holds.
Low(c, h) == IF h = 0 THEN 0 ELSE c.half
High(c, h) == IF h = 0 THEN c.half ELSE 2 * c.half

LEMMA HalfBounds ==
  ASSUME NEW c, c.half \in Nat \ {0}, NEW d \in Dwords(c), NEW h \in {0, 1},
         HalfOf(c, d) = h
  PROVE  d \in Nat /\ Low(c, h) <= d /\ d < High(c, h)
<1>1. d \in 0 .. 2 * c.half - 1
  BY DEF Dwords
<1> QED BY <1>1, HalfOfDword DEF Low, High

\* Two starts of a half, one after the other, are its first dword and its
\* middle one: the second is a quarter of a beat up.
LEMMA GridStart ==
  ASSUME NEW c, c.weight \in Nat \ {0}, c.half = 2 * c.weight,
         NEW p \in Nat, p * c.weight \in Dwords(c), NEW h \in {0, 1},
         Low(c, h) < p * c.weight, p * c.weight < High(c, h)
  PROVE  p * c.weight = Low(c, h) + c.weight
<1> DEFINE w == c.weight
<1>1. w \in Nat /\ w > 0
  OBVIOUS
<1>2. p = 0 \/ p = 1 \/ p = 2 \/ p = 3 \/ p >= 4
  OBVIOUS
<1>3. p >= 4 => p * w >= 4 * w
  BY <1>1
<1>4. p * w < 4 * w
  BY <1>1 DEF Dwords
<1>5. p = 0 \/ p = 1 \/ p = 2 \/ p = 3
  BY <1>1, <1>2, <1>3, <1>4
<1> QED BY <1>1, <1>5 DEF Low, High

\* Starts and ends on a beat in the order of their slots.
LEMMA StartsAndEnds ==
  ASSUME NEW c, c.straddle, c.half \in Nat \ {0}, c.weight \in Nat \ {0},
         NEW b, LegalBeat(c, b)
  PROVE  /\ b.sop_ptr \in Seq(Nat)
         /\ DOMAIN SopDw(c, b) = 1 .. Len(b.sop_ptr)
         /\ \A i \in DOMAIN SopDw(c, b) :
              /\ b.sop_ptr[i] \in Nat
              /\ SopDw(c, b)[i] = b.sop_ptr[i] * c.weight
              /\ SopDw(c, b)[i] \in Dwords(c)
         /\ Len(SopDw(c, b)) = Len(b.sop_ptr)
         /\ EopDw(c, b) = b.eop_ptr /\ EopDw(c, b) \in Seq(Dwords(c))
BY DEF LegalBeat, SopDw, SopAt, EopDw, Marks

LEMMA MarksAreLists ==
  ASSUME NEW c, c.straddle, c.half \in Nat \ {0}, c.weight \in Nat \ {0},
         NEW b, LegalBeat(c, b)
  PROVE  SopDw(c, b) \in Seq(Nat) /\ EopDw(c, b) \in Seq(Nat)
<1>1. Dwords(c) \in SUBSET Nat
  BY DEF Dwords
<1>2. /\ DOMAIN SopDw(c, b) = 1 .. Len(b.sop_ptr) /\ Len(b.sop_ptr) \in Nat
      /\ \A i \in DOMAIN SopDw(c, b) : SopDw(c, b)[i] \in Nat
      /\ SopDw(c, b) = [i \in DOMAIN b.sop_ptr |-> SopDw(c, b)[i]]
  <2>1. SopDw(c, b) = [i \in DOMAIN b.sop_ptr |-> SopDw(c, b)[i]]
    BY DEF SopDw
  <2> QED BY <1>1, <2>1, StartsAndEnds
<1>3. EopDw(c, b) \in Seq(Nat)
  BY <1>1, StartsAndEnds
<1>4. SopDw(c, b) \in Seq(Nat)
  <2> DEFINE S == SopDw(c, b)
             n == Len(b.sop_ptr)
  <2>1. S \in [1 .. n -> Nat] /\ n \in Nat
    BY <1>2
  <2> HIDE DEF S, n
  <2>2. S \in Seq(Nat)
    BY <2>1, SeqDef
  <2> QED BY <2>2 DEF S
<1> QED BY <1>3, <1>4

\* Successive starts are different dwords, and successive packets do not
\* share one: an end lies between.
LEMMA MarksClimb ==
  ASSUME NEW c, c.straddle, c.half \in Nat \ {0}, c.weight \in Nat \ {0},
         NEW b, LegalBeat(c, b),
         NEW k, k = IF b.open THEN 1 ELSE 0
  PROVE  /\ \A i, j \in DOMAIN SopDw(c, b) :
              i < j => SopDw(c, b)[i] < SopDw(c, b)[j]
         /\ \A j \in DOMAIN EopDw(c, b) :
              j > k => /\ j - k \in DOMAIN SopDw(c, b)
                       /\ SopDw(c, b)[j - k] <= EopDw(c, b)[j]
         /\ \A i, j \in DOMAIN EopDw(c, b) :
              i < j => /\ j - k \in DOMAIN SopDw(c, b)
                       /\ EopDw(c, b)[i] < SopDw(c, b)[j - k]
<1>1. SopDw(c, b) \in Seq(Nat) /\ EopDw(c, b) \in Seq(Nat)
  BY MarksAreLists
<1>2. k \in 0 .. 1 /\ Alternate(b.open, SopDw(c, b), EopDw(c, b))
  BY DEF LegalBeat
<1> DEFINE S == SopDw(c, b)
           E == EopDw(c, b)
           open == b.open
<1>3. /\ S \in Seq(Nat) /\ E \in Seq(Nat) /\ Alternate(open, S, E)
      /\ k \in 0 .. 1 /\ k = IF open THEN 1 ELSE 0
  BY <1>1, <1>2
<1> HIDE DEF S, E, open
<1>4. /\ \A i, j \in DOMAIN S : i < j => S[i] < S[j]
      /\ \A j \in DOMAIN E :
           j > k => j - k \in DOMAIN S /\ S[j - k] <= E[j]
      /\ \A i, j \in DOMAIN E :
           i < j => j - k \in DOMAIN S /\ E[i] < S[j - k]
  BY ONLY <1>3, AlternateClimbs
<1> QED BY <1>4 DEF S, E

\* On the quarter grid a legal beat never marks a third start or a third end
\* in a half.
LEMMA GridBeatFits ==
  ASSUME NEW c, c.straddle, c.half \in Nat \ {0}, c.weight \in Nat \ {0},
         2 * c.weight = c.half, NEW b, LegalBeat(c, b)
  PROVE  ~ErrSlot(c, b)
<1> DEFINE S == SopDw(c, b)
           E == EopDw(c, b)
           k == IF b.open THEN 1 ELSE 0
<1>1. /\ DOMAIN S = 1 .. Len(S) /\ Len(S) \in Nat
      /\ DOMAIN E = 1 .. Len(E) /\ Len(E) \in Nat
      /\ \A i \in DOMAIN S : S[i] \in Dwords(c) /\ S[i] \in Nat
      /\ \A i \in DOMAIN E : E[i] \in Dwords(c) /\ E[i] \in Nat
  <2>1. \A d \in Dwords(c) : d \in Nat
    BY DEF Dwords
  <2>2. S = SopDw(c, b) /\ E = EopDw(c, b)
    OBVIOUS
  <2> HIDE DEF S, E
  <2> QED BY <2>1, <2>2, StartsAndEnds
<1>2. /\ \A i, j \in DOMAIN S : i < j => S[i] < S[j]
      /\ \A j \in DOMAIN E : j > k => j - k \in DOMAIN S /\ S[j - k] <= E[j]
      /\ \A i, j \in DOMAIN E : i < j => /\ j - k \in DOMAIN S
                                         /\ E[i] < S[j - k]
  BY MarksClimb
<1>3. ASSUME NEW h \in {0, 1}, NEW i \in DOMAIN S,
             Low(c, h) < S[i], S[i] < High(c, h)
      PROVE  S[i] = Low(c, h) + c.weight
  <2>1. /\ b.sop_ptr[i] \in Nat /\ S[i] = b.sop_ptr[i] * c.weight
        /\ S[i] \in Dwords(c)
    BY StartsAndEnds
  <2> HIDE DEF S
  <2> QED BY <1>3, <2>1, GridStart
<1>4. \A h \in {0, 1} : Low(c, h) \in Nat /\ High(c, h) \in Nat
  BY DEF Low, High
<1> HIDE DEF S, E, k
<1>5. k \in {0, 1}
  BY DEF k
<1>6. ASSUME NEW h \in {0, 1}, NEW i \in DOMAIN S, NEW j \in DOMAIN S,
             i < j, Low(c, h) < S[i], S[j] < High(c, h)
      PROVE  FALSE
  <2>1. S[i] < S[j]
    BY <1>2, <1>6
  <2>2. S[i] = Low(c, h) + c.weight /\ S[j] = Low(c, h) + c.weight
    <3>1. S[i] < High(c, h) /\ Low(c, h) < S[j]
      BY <1>1, <1>4, <1>6, <2>1
    <3> QED BY <1>3, <1>6, <3>1
  <2> QED BY <1>1, <2>1, <2>2
<1>7. ASSUME NEW h \in {0, 1}
      PROVE  ~(Cardinality(MarksIn(c, S, h)) > HalfSlots)
  <2>1. \A i \in MarksIn(c, S, h) :
          /\ i \in DOMAIN S /\ i \in Nat
          /\ Low(c, h) <= S[i] /\ S[i] < High(c, h)
    BY <1>1, HalfBounds DEF MarksIn
  <2>2. ASSUME NEW i \in MarksIn(c, S, h), NEW j \in MarksIn(c, S, h),
               NEW l \in MarksIn(c, S, h), i < j, j < l
        PROVE  FALSE
    BY <1>4, <1>1, <1>2, <1>6, <2>1, <2>2
  <2>3. IsFiniteSet(MarksIn(c, S, h))
    <3>1. MarksIn(c, S, h) \in SUBSET (1 .. Len(S))
      BY <1>1 DEF MarksIn
    <3>2. IsFiniteSet(1 .. Len(S))
      BY <1>1, FS_Interval
    <3> QED BY <3>1, <3>2, FS_Subset
  <2>4. \A i, j, l \in MarksIn(c, S, h) : i = j \/ j = l \/ i = l
    BY <2>1, <2>2
  <2> QED BY <2>3, <2>4, NoThreeDistinct DEF HalfSlots
<1>8. ASSUME NEW h \in {0, 1}
      PROVE  ~(Cardinality(MarksIn(c, E, h)) > HalfSlots)
  <2>1. \A i \in MarksIn(c, E, h) :
          /\ i \in DOMAIN E /\ i \in Nat
          /\ Low(c, h) <= E[i] /\ E[i] < High(c, h)
    BY <1>1, HalfBounds DEF MarksIn
  <2>2. ASSUME NEW i \in MarksIn(c, E, h), NEW j \in MarksIn(c, E, h),
               NEW l \in MarksIn(c, E, h), i < j, j < l
        PROVE  FALSE
    <3>1. /\ j - k \in DOMAIN S /\ l - k \in DOMAIN S
          /\ E[i] < S[j - k] /\ S[l - k] <= E[l]
      <4>1. i \in DOMAIN E /\ j \in DOMAIN E /\ l \in DOMAIN E /\ l > k
        BY <1>5, <2>1, <2>2
      <4> QED BY <1>2, <2>2, <4>1
    <3>2. Low(c, h) < S[j - k] /\ S[l - k] < High(c, h)
      <4>1. Low(c, h) <= E[i] /\ E[l] < High(c, h)
        BY <2>1
      <4>2. /\ Low(c, h) \in Nat /\ High(c, h) \in Nat
            /\ E[i] \in Nat /\ E[l] \in Nat
            /\ S[j - k] \in Nat /\ S[l - k] \in Nat
        BY <1>4, <1>1, <2>1, <3>1
      <4> QED BY <3>1, <4>1, <4>2
    <3>3. j - k < l - k
      BY <1>5, <2>1, <2>2
    <3> QED BY <1>6, <3>1, <3>2, <3>3
  <2>3. IsFiniteSet(MarksIn(c, E, h))
    <3>1. MarksIn(c, E, h) \in SUBSET (1 .. Len(E))
      BY <1>1 DEF MarksIn
    <3>2. IsFiniteSet(1 .. Len(E))
      BY <1>1, FS_Interval
    <3> QED BY <3>1, <3>2, FS_Subset
  <2>4. \A i, j, l \in MarksIn(c, E, h) : i = j \/ j = l \/ i = l
    BY <2>1, <2>2
  <2> QED BY <2>3, <2>4, NoThreeDistinct DEF HalfSlots
<1> QED BY <1>7, <1>8 DEF ErrSlot, S, E

(***************************************************************************)
(* With packets starting on the quarter grid of the Versal pointer, two    *)
(* marks per half are always enough: the slot overflow is never reported,  *)
(* for every width of a half and all traffic the core may send.            *)
(***************************************************************************)
THEOREM QuarterGridNeverOverflows ==
  CqSpec => []QuarterGridFits
<1>1. CqInit => PlainInv
  BY PlainInit
<1>2. PlainInv /\ [CqNext]_cqVars => PlainInv'
  BY PlainStep
<1>3. ASSUME PlainInv
      PROVE  QuarterGridFits
  <2> SUFFICES ASSUME 2 * build.weight = build.half, cq_reg_tvalid,
                      split.err_slot
               PROVE  FALSE
    BY DEF QuarterGridFits, status_error_cq_slot_overflow
  <2>1. build \in Builds /\ cq_reg \in BusBeats(build)
    BY <1>3 DEF PlainInv, WellTyped, BusBeatsHeld
  <2>2. ErrSlot(build, cq_reg)
    BY <1>3 DEF PlainInv, WellTyped, SkidTypeOK, split, SplitOf
  <2>3. build.straddle
    BY <2>2 DEF ErrSlot
  <2> QED BY <2>1, <2>2, <2>3, GridBeatFits, TrafficAssumption
<1> QED BY <1>1, <1>2, <1>3, PTL DEF CqSpec

-----------------------------------------------------------------------------
(* The two halves of a beat carry what the beat carries.                   *)

\* A build and a beat it may be sent, a packet being open before it or not.
Sound(c) ==
  /\ c.straddle \in BOOLEAN
  /\ c.half \in Nat \ {0} /\ c.weight \in Nat \ {0}

Sent(c, b) == LegalBeat(c, b) /\ b.open \in BOOLEAN

\* What the core means by dword d, and what the shim reads of it in half h.
Word(c, b, d) ==
  IF c.straddle
    THEN [dw  |-> d,
          sop |-> {j \in DOMAIN b.sop_ptr : SopDw(c, b)[j] = d},
          eop |-> d \in EopAt(c, b)]
    ELSE [dw  |-> d,
          sop |-> IF d = 0 /\ ~b.open THEN {1} ELSE {},
          eop |-> b.last /\ d = b.keep - 1]

HalfWord(c, b, h, d) ==
  [dw  |-> d,
   sop |-> {x.slot : x \in {y \in HalfSop(c, b, b.open, h) :
                              y.ptr = d % c.half}},
   eop |-> d % c.half \in HalfEop(c, b, b.open, h)]

\* The dwords a half carries.
InHalf(c, b, h) == {d \in Strb(c, b, b.open) : HalfOf(c, d) = h}

LEMMA HalvesOfBeat ==
  ASSUME NEW c, Sound(c), NEW b
  PROVE  /\ Strb(c, b, b.open) \in SUBSET Dwords(c)
         /\ Strb(c, b, b.open) \in SUBSET Nat
         /\ Strb(c, b, b.open) = InHalf(c, b, 0) \cup InHalf(c, b, 1)
         /\ IsFiniteSet(Strb(c, b, b.open))
         /\ Cardinality(Strb(c, b, b.open)) \in Nat
         /\ Cardinality(Strb(c, b, b.open)) <= 2 * c.half
         /\ \A h \in {0, 1} : /\ InHalf(c, b, h) \in SUBSET Nat
                             /\ IsFiniteSet(InHalf(c, b, h))
         /\ \A x \in InHalf(c, b, 0), y \in InHalf(c, b, 1) : x < y
<1> DEFINE D == Strb(c, b, b.open)
<1>1. D \in SUBSET Dwords(c) /\ Dwords(c) \in SUBSET Nat
  BY DEF Strb, Dwords
<1>2. c.half \in Nat \ {0}
  BY DEF Sound
<1>3. \A d \in Dwords(c) : HalfOf(c, d) = IF d < c.half THEN 0 ELSE 1
  BY <1>2, HalfOfDword DEF Dwords
<1>4. IsFiniteSet(Dwords(c)) /\ Cardinality(Dwords(c)) = 2 * c.half
  <2> DEFINE n == 2 * c.half - 1
  <2>1. n \in Int /\ 0 \in Int /\ 0 <= n /\ n - 0 + 1 = 2 * c.half
    BY <1>2
  <2>2. Dwords(c) = 0 .. n
    BY DEF Dwords
  <2> HIDE DEF n
  <2>3. IsFiniteSet(0 .. n) /\ Cardinality(0 .. n) = n - 0 + 1
    BY <2>1, FS_Interval
  <2> QED BY <2>1, <2>2, <2>3
<1>5. /\ IsFiniteSet(D) /\ Cardinality(D) <= 2 * c.half
      /\ Cardinality(D) \in Nat
  BY <1>1, <1>4, FS_Subset, FS_CardinalityType
<1>6. ASSUME NEW h \in {0, 1}
      PROVE  InHalf(c, b, h) \in SUBSET Nat /\ IsFiniteSet(InHalf(c, b, h))
  <2>1. InHalf(c, b, h) \in SUBSET D
    BY DEF InHalf
  <2> QED BY <1>1, <1>5, <2>1, FS_Subset
<1>7. D = InHalf(c, b, 0) \cup InHalf(c, b, 1)
  BY <1>1, <1>3 DEF InHalf
<1>8. \A x \in InHalf(c, b, 0), y \in InHalf(c, b, 1) : x < y
  <2>1. ASSUME NEW x \in InHalf(c, b, 0), NEW y \in InHalf(c, b, 1)
        PROVE  x < y
    <3>1. x \in Nat /\ y \in Nat /\ x < c.half /\ ~(y < c.half)
      BY <1>1, <1>3 DEF InHalf
    <3> QED BY <1>2, <3>1
  <2> QED BY <2>1
<1> QED BY <1>1, <1>5, <1>6, <1>7, <1>8

\* What the core put on its bus, dword by dword.
LEMMA TokensByDword ==
  ASSUME NEW c, Sound(c), NEW b, Sent(c, b)
  PROVE  Tokens(c, b) = [i \in DOMAIN InOrder(Strb(c, b, b.open)) |->
                           Word(c, b, InOrder(Strb(c, b, b.open))[i])]
<1> DEFINE D == Strb(c, b, b.open)
           o == InOrder(D)
<1>1. CASE c.straddle
  <2>1. {d \in Dwords(c) : InPacket(b.open, SopDw(c, b), EopDw(c, b), d)} = D
    <3>1. /\ SopDw(c, b) \in Seq(Nat) /\ EopDw(c, b) \in Seq(Nat)
          /\ Alternate(b.open, SopDw(c, b), EopDw(c, b))
      BY <1>1, MarksAreLists DEF Sound, Sent, LegalBeat
    <3>2. \A d \in Dwords(c) :
            Carries(Marks(SopDw(c, b)), Marks(EopDw(c, b)), b.open, d)
              <=> InPacket(b.open, SopDw(c, b), EopDw(c, b), d)
      <4>1. \A d \in Dwords(c) : d \in Nat
        BY DEF Dwords
      <4> QED BY <3>1, <4>1, WalkCounts
    <3> QED BY <1>1, <3>2 DEF Strb, SopAt, EopAt
  <2>2. Tokens(c, b) = [i \in DOMAIN o |->
                         [dw  |-> o[i],
                          sop |-> {j \in DOMAIN b.sop_ptr :
                                     SopDw(c, b)[j] = o[i]},
                          eop |-> o[i] \in EopAt(c, b)]]
    BY <1>1, <2>1 DEF Tokens
  <2> HIDE DEF o
  <2> QED BY <1>1, <2>2 DEF Word, o
<1>2. CASE ~c.straddle
  <2>1. b.keep \in Nat \ {0} /\ D = 0 .. b.keep - 1
    <3>1. b.keep \in 1 .. 2 * c.half /\ c.half \in Nat \ {0}
      BY <1>2 DEF Sent, LegalBeat, Sound
    <3> QED BY <1>2, <3>1, KeptHalves
  <2>2. o = [i \in 1 .. b.keep |-> i - 1]
    BY <2>1, InOrderFromZero
  <2>3. \A i \in 1 .. b.keep : (i - 1 = 0 <=> i = 1)
                                /\ (i - 1 = b.keep - 1 <=> i = b.keep)
    BY <2>1
  <2>4. ASSUME NEW i \in 1 .. b.keep
        PROVE  Word(c, b, o[i])
                 = [dw  |-> i - 1,
                    sop |-> IF i = 1 /\ ~b.open THEN {1} ELSE {},
                    eop |-> b.last /\ i = b.keep]
    <3>1. o[i] = i - 1
      BY <2>2
    <3>2. (b.last /\ i - 1 = b.keep - 1) = (b.last /\ i = b.keep)
      BY <2>3
    <3> HIDE DEF o
    <3> QED BY <1>2, <2>3, <3>1, <3>2 DEF Word
  <2>5. DOMAIN o = 1 .. b.keep
    BY <2>2
  <2>6. Tokens(c, b) = [i \in 1 .. b.keep |->
                         [dw  |-> i - 1,
                          sop |-> IF i = 1 /\ ~b.open THEN {1} ELSE {},
                          eop |-> b.last /\ i = b.keep]]
    BY <1>2 DEF Tokens
  <2> HIDE DEF o
  <2> QED BY <2>4, <2>5, <2>6 DEF o
<1> QED BY <1>1, <1>2

\* Within a half, a dword is known by where in the half it is.
LEMMA PlaceInHalf ==
  ASSUME NEW n \in Nat \ {0}, NEW x \in 0 .. 2 * n - 1,
         NEW y \in 0 .. 2 * n - 1, x < n <=> y < n
  PROVE  x % n = y % n <=> x = y
<1>1. \A z \in 0 .. 2 * n - 1 : z % n = IF z < n THEN z ELSE z - n
  <2> SUFFICES ASSUME NEW z \in 0 .. 2 * n - 1
               PROVE  z % n = IF z < n THEN z ELSE z - n
    OBVIOUS
  <2>1. CASE z < n
    BY <2>1
  <2>2. CASE ~(z < n)
    <3>1. z - n \in 0 .. n - 1
      BY <2>2
    <3>2. \A u \in 0 .. n - 1 : (u + n) % n = u
      OBVIOUS
    <3>3. (z - n) + n = z
      OBVIOUS
    <3> QED BY <2>2, <3>1, <3>2, <3>3
  <2> QED BY <2>1, <2>2
<1> QED BY <1>1

LEMMA SamePlace ==
  ASSUME NEW c, c.half \in Nat \ {0}, NEW x \in Dwords(c),
         NEW y \in Dwords(c), HalfOf(c, x) = HalfOf(c, y)
  PROVE  x % c.half = y % c.half <=> x = y
<1>1. x \in 0 .. 2 * c.half - 1 /\ y \in 0 .. 2 * c.half - 1
  BY DEF Dwords
<1>2. x < c.half <=> y < c.half
  BY <1>1, HalfOfDword
<1> DEFINE n == c.half
<1> HIDE DEF n
<1>3. n \in Nat \ {0} /\ x \in 0 .. 2 * n - 1 /\ y \in 0 .. 2 * n - 1
        /\ (x < n <=> y < n)
  BY <1>1, <1>2 DEF n
<1>4. x % n = y % n <=> x = y
  BY ONLY <1>3, PlaceInHalf
<1> QED BY <1>4 DEF n

\* Two marks are all marked.
LEMMA AllSlots ==
  ASSUME NEW M \in SUBSET Nat, IsFiniteSet(M), Cardinality(M) <= HalfSlots
  PROVE  FirstSlots(M) = M
<1> SUFFICES ASSUME NEW i \in M
             PROVE  Cardinality({j \in M : j < i}) < HalfSlots
  BY DEF FirstSlots
<1> DEFINE B == {j \in M : j < i}
<1>1. B \in SUBSET M /\ i \notin B
  OBVIOUS
<1> HIDE DEF B
<1>2. /\ Cardinality(B) <= Cardinality(M)
      /\ Cardinality(B) = Cardinality(M) => M = B
      /\ Cardinality(B) \in Nat /\ Cardinality(M) \in Nat
  BY <1>1, FS_Subset, FS_CardinalityType
<1>3. Cardinality(B) < HalfSlots
  BY <1>1, <1>2 DEF HalfSlots
<1> QED BY <1>3 DEF B

LEMMA NothingDropped ==
  ASSUME NEW c, Sound(c), c.straddle, NEW b, Sent(c, b), ~ErrSlot(c, b),
         NEW h \in {0, 1}
  PROVE  /\ FirstSlots(MarksIn(c, SopDw(c, b), h)) = MarksIn(c, SopDw(c, b), h)
         /\ FirstSlots(MarksIn(c, EopDw(c, b), h)) = MarksIn(c, EopDw(c, b), h)
<1> SUFFICES ASSUME NEW dw \in {SopDw(c, b), EopDw(c, b)}
             PROVE  FirstSlots(MarksIn(c, dw, h)) = MarksIn(c, dw, h)
  OBVIOUS
<1>1. dw \in Seq(Nat)
  BY MarksAreLists DEF Sound, Sent
<1> DEFINE n == Len(dw)
           M == MarksIn(c, dw, h)
<1>2. n \in Nat /\ DOMAIN dw = 1 .. n
  BY <1>1
<1> HIDE DEF n
<1>3. M \in SUBSET (1 .. n)
  BY <1>2 DEF MarksIn
<1>4. IsFiniteSet(M) /\ M \in SUBSET Nat
  <2>1. IsFiniteSet(1 .. n) /\ 1 .. n \in SUBSET Nat
    BY <1>2, FS_Interval
  <2> HIDE DEF M
  <2>2. IsFiniteSet(M)
    BY <1>3, <2>1, FS_Subset
  <2> QED BY <1>3, <2>1, <2>2
<1>5. Cardinality(M) <= HalfSlots
  <2>1. ~(Cardinality(M) > HalfSlots)
    BY DEF ErrSlot
  <2>2. Cardinality(M) \in Nat
    BY <1>4, FS_CardinalityType
  <2> HIDE DEF M
  <2> QED BY <2>1, <2>2 DEF HalfSlots
<1> HIDE DEF M
<1>6. FirstSlots(M) = M
  BY <1>4, <1>5, AllSlots
<1> QED BY <1>6 DEF M

\* Unless marks are dropped, the shim reads of a dword what the core means.
LEMMA HalfWordIsWord ==
  ASSUME NEW c, Sound(c), NEW b, Sent(c, b), ~ErrSlot(c, b),
         NEW h \in {0, 1}, NEW d \in InHalf(c, b, h)
  PROVE  HalfWord(c, b, h, d) = Word(c, b, d)
<1>1. /\ d \in Dwords(c) /\ d \in Strb(c, b, b.open) /\ HalfOf(c, d) = h
      /\ c.half \in Nat \ {0}
  BY HalvesOfBeat DEF InHalf, Sound
<1> DEFINE sops == {x.slot : x \in {y \in HalfSop(c, b, b.open, h) :
                                     y.ptr = d % c.half}}
           eops == d % c.half \in HalfEop(c, b, b.open, h)
<1>2. HalfWord(c, b, h, d) = [dw |-> d, sop |-> sops, eop |-> eops]
  BY DEF HalfWord
<1>3. CASE c.straddle
  <2> DEFINE S == SopDw(c, b)
             E == EopDw(c, b)
  <2>1. /\ DOMAIN S = DOMAIN b.sop_ptr /\ \A i \in DOMAIN S : S[i] \in Dwords(c)
        /\ \A i \in DOMAIN E : E[i] \in Dwords(c)
    <3>1. DOMAIN S = DOMAIN b.sop_ptr
      BY DEF SopDw
    <3>2. LegalBeat(c, b) /\ c.half \in Nat \ {0} /\ c.weight \in Nat \ {0}
      BY DEF Sound, Sent
    <3>3. E \in Seq(Dwords(c)) /\ \A i \in DOMAIN S : S[i] \in Dwords(c)
      BY <1>3, <3>2, StartsAndEnds
    <3> HIDE DEF S, E
    <3> QED BY <3>1, <3>3
  <2> HIDE DEF S, E
  <2>2. \A i \in DOMAIN S :
          HalfOf(c, S[i]) = h /\ S[i] % c.half = d % c.half <=> S[i] = d
    BY <1>1, <2>1, SamePlace
  <2>3. \A i \in DOMAIN E :
          HalfOf(c, E[i]) = h /\ E[i] % c.half = d % c.half <=> E[i] = d
    BY <1>1, <2>1, SamePlace
  <2>4. sops = {j \in DOMAIN b.sop_ptr : S[j] = d}
    <3>1. HalfSop(c, b, b.open, h) = {[ptr |-> S[i] % c.half, slot |-> i] :
                                        i \in MarksIn(c, S, h)}
      BY <1>3, NothingDropped DEF HalfSop, S
    <3> DEFINE Mark(i) == [ptr |-> S[i] % c.half, slot |-> i]
               R == {Mark(i) : i \in MarksIn(c, S, h)}
    <3>3. sops = {x.slot : x \in {y \in R : y.ptr = d % c.half}}
      BY <3>1
    <3>4. \A i : Mark(i).ptr = S[i] % c.half /\ Mark(i).slot = i
      OBVIOUS
    <3> HIDE DEF Mark, sops
    <3>2. sops = {i \in MarksIn(c, S, h) : S[i] % c.half = d % c.half}
      BY <3>3, <3>4
    <3> QED BY <2>1, <2>2, <3>2 DEF MarksIn
  <2>5. eops <=> d \in Marks(E)
    <3>1. HalfEop(c, b, b.open, h) = {E[i] % c.half : i \in MarksIn(c, E, h)}
      BY <1>3, NothingDropped DEF HalfEop, E
    <3> QED BY <2>3, <3>1 DEF MarksIn, Marks
  <2>6. eops = (d \in EopAt(c, b))
    BY <2>5 DEF EopAt, E
  <2> HIDE DEF sops, eops
  <2> QED BY <1>2, <1>3, <2>4, <2>6 DEF Word, S
<1>4. CASE ~c.straddle
  <2>1. /\ b.keep \in 1 .. 2 * c.half /\ b.keep \in Nat
        /\ Strb(c, b, b.open) = 0 .. b.keep - 1
    <3>1. b.keep \in 1 .. 2 * c.half /\ b.keep \in Nat
      BY <1>1, <1>4 DEF Sent, LegalBeat
    <3> QED BY <1>1, <1>4, <3>1, KeptHalves
  <2>2. 0 \in Dwords(c) /\ HalfOf(c, 0) = 0 /\ 0 % c.half = 0
    <3>1. 0 \in 0 .. 2 * c.half - 1 /\ 0 < c.half
      BY <1>1
    <3>2. HalfOf(c, 0) = 0
      BY <1>1, <3>1, HalfOfDword
    <3>3. 0 % c.half = 0
      BY <1>1
    <3> QED BY <3>1, <3>2, <3>3 DEF Dwords
  <2>3. sops = IF d = 0 /\ ~b.open THEN {1} ELSE {}
    <3>1. HalfSop(c, b, b.open, h)
            = IF h = 0 /\ ~b.open THEN {[ptr |-> 0, slot |-> 1]} ELSE {}
      BY <1>4 DEF HalfSop
    <3>2. h = 0 => (d % c.half = 0 <=> d = 0)
      BY <1>1, <2>2, SamePlace
    <3>3. d = 0 => h = 0
      BY <1>1, <2>2
    <3> DEFINE r == [ptr |-> 0, slot |-> 1]
    <3>4. CASE h = 0 /\ ~b.open /\ d = 0
      <4>1. HalfSop(c, b, b.open, h) = {r} /\ r.ptr = 0 /\ r.slot = 1
              /\ d % c.half = 0
        BY <2>2, <3>1, <3>4
      <4> HIDE DEF r
      <4>2. {y \in HalfSop(c, b, b.open, h) : y.ptr = d % c.half} = {r}
        BY <4>1
      <4> QED BY <3>4, <4>1, <4>2
    <3>5. CASE ~(h = 0 /\ ~b.open /\ d = 0)
      <4>1. /\ \A y \in HalfSop(c, b, b.open, h) : y = r /\ h = 0 /\ ~b.open
            /\ r.ptr = 0
        BY <3>1
      <4> HIDE DEF r
      <4>2. {y \in HalfSop(c, b, b.open, h) : y.ptr = d % c.half} = {}
        BY <3>2, <3>5, <4>1
      <4> QED BY <3>3, <3>5, <4>2
    <3> QED BY <3>4, <3>5
  <2>4. \A x \in 0 .. b.keep - 1 :
          /\ x \in Dwords(c)
          /\ x + 1 \notin 0 .. b.keep - 1 <=> x = b.keep - 1
    <3>1. c.half \in Nat
      BY <1>1
    <3> QED BY <2>1, <3>1 DEF Dwords
  <2>5. eops <=> b.last /\ d = b.keep - 1
    <3>1. HalfEop(c, b, b.open, h)
            = {x % c.half : x \in {y \in 0 .. b.keep - 1 :
                 b.last /\ HalfOf(c, y) = h /\ y + 1 \notin 0 .. b.keep - 1}}
      BY <1>4, <2>1 DEF HalfEop
    <3>2. eops <=> \E x \in 0 .. b.keep - 1 :
                     /\ b.last /\ HalfOf(c, x) = h /\ x = b.keep - 1
                     /\ x % c.half = d % c.half
      BY <2>4, <3>1
    <3>3. \A x \in 0 .. b.keep - 1 :
            HalfOf(c, x) = h => (x % c.half = d % c.half <=> x = d)
      BY <1>1, <2>4, SamePlace
    <3> QED BY <1>1, <2>1, <3>2, <3>3
  <2>6. eops = (b.last /\ d = b.keep - 1)
    <3>1. b.last \in BOOLEAN
      BY <1>4 DEF Sent, LegalBeat
    <3> QED BY <2>5, <3>1
  <2> HIDE DEF sops, eops
  <2> QED BY <1>2, <1>4, <2>3, <2>6 DEF Word
<1> QED BY <1>3, <1>4

\* Half h, if the shim can read it.
HalfWords(c, b, h) ==
  LET s == InOrder(InHalf(c, b, h))
  IN  [i \in DOMAIN s |-> HalfWord(c, b, h, s[i])]

\* A beat's dwords are its low half's and then its high half's, whatever the
\* marks; unless some are dropped, the framing is the same too.
LEMMA WordsJoin ==
  ASSUME NEW c, Sound(c), NEW b, Sent(c, b),
         NEW low, low = HalfWords(c, b, 0),
         NEW high, high = HalfWords(c, b, 1)
  PROVE  /\ Tokens(c, b) \in Seq(Marks(Tokens(c, b)))
         /\ Len(Tokens(c, b)) \in Nat /\ Len(Tokens(c, b)) <= 2 * c.half
         /\ Len(low) \in Nat /\ Len(high) \in Nat
         /\ Len(Tokens(c, b)) = Len(low) + Len(high)
         /\ Len(low) = 0 <=> InHalf(c, b, 0) = {}
         /\ Len(high) = 0 <=> InHalf(c, b, 1) = {}
         /\ ~ErrSlot(c, b) => Tokens(c, b) = low \o high
         /\ \E W : low \in Seq(W) /\ high \in Seq(W)
<1> DEFINE A == InHalf(c, b, 0)
           B == InHalf(c, b, 1)
           D == Strb(c, b, b.open)
           a == InOrder(A)
           z == InOrder(B)
           o == InOrder(D)
           n == Cardinality(A)
           m == Cardinality(B)
           W == {HalfWord(c, b, 0, d) : d \in A}
                  \cup {HalfWord(c, b, 1, d) : d \in B}
<1>1. /\ A \in SUBSET Nat /\ IsFiniteSet(A) /\ B \in SUBSET Nat
      /\ IsFiniteSet(B) /\ D = A \cup B /\ \A x \in A, y \in B : x < y
      /\ Cardinality(D) <= 2 * c.half /\ Cardinality(D) \in Nat
      /\ D \in SUBSET Nat /\ IsFiniteSet(D)
  BY HalvesOfBeat
<1>2. /\ a \in Seq(A) /\ Len(a) = n /\ z \in Seq(B) /\ Len(z) = m
      /\ Len(o) = Cardinality(D) /\ o = a \o z /\ n \in Nat /\ m \in Nat
      /\ n = 0 <=> A = {}
      /\ m = 0 <=> B = {}
  <2> HIDE DEF A, B, D
  <2>1. o = a \o z
    BY <1>1, InOrderJoined
  <2>2. a \in Seq(A) /\ Len(a) = n /\ z \in Seq(B) /\ Len(z) = m
          /\ Len(o) = Cardinality(D)
    BY <1>1, InOrderEnumerates
  <2>3. n \in Nat /\ m \in Nat /\ (n = 0 <=> A = {}) /\ (m = 0 <=> B = {})
    BY <1>1, FS_CardinalityType, FS_EmptySet
  <2> QED BY <2>1, <2>2, <2>3
<1>3. /\ low = [i \in DOMAIN a |-> HalfWord(c, b, 0, a[i])]
      /\ high = [i \in DOMAIN z |-> HalfWord(c, b, 1, z[i])]
  BY DEF HalfWords
<1>4. Tokens(c, b) = [i \in DOMAIN o |-> Word(c, b, o[i])]
  BY TokensByDword
<1>5. ~ErrSlot(c, b) => /\ \A d \in A : HalfWord(c, b, 0, d) = Word(c, b, d)
                        /\ \A d \in B : HalfWord(c, b, 1, d) = Word(c, b, d)
  BY HalfWordIsWord
<1>6. W = {HalfWord(c, b, 0, d) : d \in A} \cup {HalfWord(c, b, 1, d) : d \in B}
  OBVIOUS
<1> HIDE DEF A, B, D, a, z, o, n, m, W
<1>7. /\ DOMAIN a = 1 .. n /\ DOMAIN z = 1 .. m
      /\ \A i \in 1 .. n : a[i] \in A
      /\ \A i \in 1 .. m : z[i] \in B
  BY <1>2
<1>8. /\ low \in Seq(W) /\ Len(low) = n /\ high \in Seq(W) /\ Len(high) = m
      /\ \A i \in 1 .. n : low[i] = HalfWord(c, b, 0, a[i])
      /\ \A i \in 1 .. m : high[i] = HalfWord(c, b, 1, z[i])
  <2>1. low = [i \in 1 .. n |-> HalfWord(c, b, 0, a[i])]
          /\ high = [i \in 1 .. m |-> HalfWord(c, b, 1, z[i])]
    BY <1>3, <1>7
  <2>2. /\ \A i \in 1 .. n : HalfWord(c, b, 0, a[i]) \in W
        /\ \A i \in 1 .. m : HalfWord(c, b, 1, z[i]) \in W
    BY <1>6, <1>7
  <2>3. n \in Nat /\ m \in Nat
    BY <1>2
  <2> QED BY ONLY <2>1, <2>2, <2>3
<1>9. /\ DOMAIN o = 1 .. n + m /\ Cardinality(D) = n + m
      /\ \A i \in 1 .. n : o[i] = a[i]
      /\ \A i \in 1 .. m : o[n + i] = z[i]
  <2>1. a \in Seq(D) /\ z \in Seq(D)
    <3>1. A \subseteq D /\ B \subseteq D
      BY <1>1
    <3>2. a \in Seq(A) /\ z \in Seq(B)
      BY <1>2
    <3> QED BY ONLY <3>1, <3>2, SeqOfMore
  <2>2. n = Len(a) /\ m = Len(z)
    BY <1>2
  <2>3. /\ DOMAIN (a \o z) = 1 .. n + m /\ Len(a \o z) = n + m
        /\ \A i \in 1 .. n : (a \o z)[i] = a[i]
        /\ \A i \in 1 .. m : (a \o z)[n + i] = z[i]
    BY ONLY <2>1, <2>2, TwoLists
  <2> QED BY <1>2, <2>3
<1> DEFINE t == Tokens(c, b)
<1>10. /\ t = [i \in 1 .. n + m |-> Word(c, b, o[i])]
       /\ \A i \in 1 .. n : t[i] = Word(c, b, a[i])
       /\ \A i \in 1 .. m : t[n + i] = Word(c, b, z[i])
  <2>1. /\ \A i \in 1 .. n : i \in 1 .. n + m
        /\ \A i \in 1 .. m : n + i \in 1 .. n + m
    BY <1>2
  <2>2. t = [i \in 1 .. n + m |-> Word(c, b, o[i])]
    BY <1>4, <1>9
  <2> HIDE DEF t
  <2> QED BY <1>9, <2>1, <2>2
<1> HIDE DEF t
<1>11. /\ DOMAIN t = 1 .. n + m /\ t = [i \in 1 .. n + m |-> t[i]]
       /\ n + m \in Nat
  BY <1>2, <1>10
<1>12. t \in Seq(Marks(t)) /\ Len(t) = n + m
  <2>1. \A i \in 1 .. n + m : t[i] \in Marks(t)
    BY <1>11 DEF Marks
  <2> DEFINE M == Marks(t)
             k == n + m
  <2> HIDE DEF M, k
  <2>2. k \in Nat /\ t = [i \in 1 .. k |-> t[i]] /\ \A i \in 1 .. k : t[i] \in M
    BY <1>11, <2>1 DEF M, k
  <2>3. t \in Seq(M) /\ Len(t) = k
    BY ONLY <2>2
  <2> QED BY <2>3 DEF M, k
<1>13. ASSUME ~ErrSlot(c, b)
       PROVE  t = low \o high
  <2>1. /\ DOMAIN (low \o high) = 1 .. n + m
        /\ low \o high = [i \in 1 .. n + m |-> (low \o high)[i]]
        /\ \A i \in 1 .. n : (low \o high)[i] = low[i]
        /\ \A i \in 1 .. m : (low \o high)[n + i] = high[i]
    <3>1. low \in Seq(W) /\ high \in Seq(W) /\ n = Len(low) /\ m = Len(high)
      BY <1>8
    <3>4. /\ DOMAIN (low \o high) = 1 .. n + m
          /\ low \o high = [i \in 1 .. n + m |-> (low \o high)[i]]
          /\ \A i \in 1 .. n : (low \o high)[i] = low[i]
          /\ \A i \in 1 .. m : (low \o high)[n + i] = high[i]
      BY ONLY <3>1, TwoLists
    <3> QED BY <3>4
  <2> DEFINE u == low \o high
  <2>a. /\ DOMAIN u = 1 .. n + m /\ u = [i \in 1 .. n + m |-> u[i]]
        /\ \A i \in 1 .. n : u[i] = low[i]
        /\ \A i \in 1 .. m : u[n + i] = high[i]
    BY <2>1
  <2> HIDE DEF u
  <2>2. ASSUME NEW i \in 1 .. n PROVE u[i] = t[i]
    <3>1. u[i] = low[i] /\ t[i] = Word(c, b, a[i]) /\ a[i] \in A
            /\ low[i] = HalfWord(c, b, 0, a[i])
      BY ONLY <2>a, <1>8, <1>10, <1>7, i \in 1 .. n
    <3>2. HalfWord(c, b, 0, a[i]) = Word(c, b, a[i])
      BY ONLY <3>1, <1>5, <1>13
    <3> QED BY ONLY <3>1, <3>2
  <2>3. ASSUME NEW i \in 1 .. m PROVE u[n + i] = t[n + i]
    <3>1. u[n + i] = high[i] /\ t[n + i] = Word(c, b, z[i]) /\ z[i] \in B
            /\ high[i] = HalfWord(c, b, 1, z[i])
      BY ONLY <2>a, <1>8, <1>10, <1>7, i \in 1 .. m
    <3>2. HalfWord(c, b, 1, z[i]) = Word(c, b, z[i])
      BY ONLY <3>1, <1>5, <1>13
    <3> QED BY ONLY <3>1, <3>2
  <2>4. \A i \in 1 .. n + m :
          i \in 1 .. n \/ (i - n \in 1 .. m /\ n + (i - n) = i)
    BY <1>2
  <2>5. ASSUME NEW i \in 1 .. n + m PROVE u[i] = t[i]
    <3>1. CASE i \in 1 .. n
      BY ONLY <2>2, <3>1
    <3>2. CASE i - n \in 1 .. m /\ n + (i - n) = i
      <4> DEFINE k == i - n
      <4>1. k \in 1 .. m /\ n + k = i
        BY <3>2
      <4> HIDE DEF k
      <4>2. u[n + k] = t[n + k]
        BY ONLY <2>3, <4>1
      <4> QED BY ONLY <4>1, <4>2
    <3> QED BY ONLY <2>4, <3>1, <3>2, i \in 1 .. n + m
  <2>6. u = t
    BY ONLY <1>11, <2>a, <2>5
  <2> QED BY <2>6 DEF u
<1> QED BY <1>1, <1>2, <1>8, <1>9, <1>11, <1>12, <1>13 DEF t, A, B

\* A half that is filled from its first dword is read as its words; another
\* one is as long.
LEMMA HalfIsWords ==
  ASSUME NEW c, NEW b, NEW h, Len(HalfWords(c, b, h)) \in Nat
  PROVE  /\ ~LeadingGap(c, b, b.open, h)
              => HalfTokens(c, b, b.open, h) = HalfWords(c, b, h)
         /\ Len(HalfTokens(c, b, b.open, h)) = Len(HalfWords(c, b, h))
<1> DEFINE s == InOrder(InHalf(c, b, h))
           gap == LeadingGap(c, b, b.open, h)
<1>1. /\ HalfTokens(c, b, b.open, h)
           = [i \in DOMAIN s |-> IF gap THEN Unreadable(c)
                                        ELSE HalfWord(c, b, h, s[i])]
      /\ HalfWords(c, b, h) = [i \in DOMAIN s |-> HalfWord(c, b, h, s[i])]
  BY DEF HalfTokens, HalfWords, HalfWord, InHalf
<1> HIDE DEF s, gap
<1>2. DOMAIN HalfTokens(c, b, b.open, h) = DOMAIN HalfWords(c, b, h)
  BY <1>1
<1>3. Len(HalfTokens(c, b, b.open, h)) = Len(HalfWords(c, b, h))
  BY <1>2
<1> QED BY <1>1, <1>3 DEF gap

\* What the shim reads of a beat: each half that it can read and that drops no
\* mark is that half of the beat's dwords.
LEMMA HalvesJoin ==
  ASSUME NEW c, Sound(c), NEW b, Sent(c, b),
         NEW low, low = HalfTokens(c, b, b.open, 0),
         NEW high, high = HalfTokens(c, b, b.open, 1),
         NEW t, t = Tokens(c, b)
  PROVE  /\ t \in Seq(Marks(t))
         /\ Len(t) \in Nat /\ Len(t) <= 2 * c.half
         /\ Len(low) \in Nat /\ Len(high) \in Nat
         /\ Len(t) = Len(low) + Len(high)
         /\ Len(low) = 0 <=> InHalf(c, b, 0) = {}
         /\ Len(high) = 0 <=> InHalf(c, b, 1) = {}
         /\ ~ErrSlot(c, b) /\ ~LeadingGap(c, b, b.open, 0)
              => SubSeq(t, 1, Len(low)) = low
         /\ ~ErrSlot(c, b) /\ ~LeadingGap(c, b, b.open, 1)
              => SubSeq(t, Len(low) + 1, Len(t)) = high
<1> DEFINE lw == HalfWords(c, b, 0)
           hw == HalfWords(c, b, 1)
<1>1. /\ t \in Seq(Marks(t))
      /\ Len(t) \in Nat /\ Len(t) <= 2 * c.half
      /\ Len(lw) \in Nat /\ Len(hw) \in Nat
      /\ Len(t) = Len(lw) + Len(hw)
      /\ Len(lw) = 0 <=> InHalf(c, b, 0) = {}
      /\ Len(hw) = 0 <=> InHalf(c, b, 1) = {}
      /\ ~ErrSlot(c, b) => t = lw \o hw
      /\ \E W : lw \in Seq(W) /\ hw \in Seq(W)
  BY WordsJoin
<1>2. /\ ~LeadingGap(c, b, b.open, 0) => low = lw
      /\ ~LeadingGap(c, b, b.open, 1) => high = hw
      /\ Len(low) = Len(lw) /\ Len(high) = Len(hw)
  BY <1>1, HalfIsWords
<1> HIDE DEF lw, hw
<1>3. /\ SubSeq(lw \o hw, Len(lw) + 1, Len(lw \o hw)) = hw
      /\ SubSeq(lw \o hw, 1, Len(lw)) = lw
  <2>1. PICK W : lw \in Seq(W) /\ hw \in Seq(W)
    BY <1>1
  <2> QED BY ONLY <2>1, DropFirst
<1> QED BY ONLY <1>1, <1>2, <1>3

\* After the beat the walk leaves a packet open when the core does.
LEMMA OpenNextIsAfter ==
  ASSUME NEW c, Sound(c), NEW b, Sent(c, b)
  PROVE  /\ OpenNext(c, b, b.open) = OpenAfter(c, b)
         /\ OpenAfter(c, b) \in BOOLEAN
<1>1. CASE c.straddle
  <2> DEFINE S == SopDw(c, b)
             E == EopDw(c, b)
             n == 2 * c.half
  <2>1. /\ S \in Seq(Nat) /\ E \in Seq(Nat) /\ n \in Nat
        /\ Alternate(b.open, S, E)
        /\ \A x \in Marks(S) \cup Marks(E) : x \in Dwords(c)
        /\ Len(S) = Len(b.sop_ptr) /\ E = b.eop_ptr
    <3>1. /\ LegalBeat(c, b) /\ c.half \in Nat \ {0} /\ c.weight \in Nat \ {0}
          /\ Alternate(b.open, S, E)
      BY <1>1 DEF Sent, Sound, LegalBeat
    <3>2. /\ S \in Seq(Nat) /\ E \in Seq(Nat) /\ n \in Nat
      BY <1>1, <3>1, MarksAreLists
    <3>3. /\ \A i \in DOMAIN S : S[i] \in Dwords(c)
          /\ E \in Seq(Dwords(c)) /\ Len(S) = Len(b.sop_ptr) /\ E = b.eop_ptr
      BY <1>1, <3>1, StartsAndEnds
    <3> HIDE DEF S, E
    <3>4. \A i \in DOMAIN E : E[i] \in Dwords(c)
      BY <3>3
    <3> QED BY <3>1, <3>2, <3>3, <3>4 DEF Marks
  <2>2. \A x \in Marks(S) \cup Marks(E) : x < n /\ x # n
    BY <2>1 DEF Dwords
  <2>3. OpenNext(c, b, b.open) = OpenBefore(Marks(S), Marks(E), b.open, n)
    BY <1>1 DEF OpenNext, SopAt, EopAt
  <2>4. OpenAfter(c, b) = ((IF b.open THEN 1 ELSE 0) + Len(S) > Len(E))
    BY <1>1, <2>1 DEF OpenAfter
  <2> HIDE DEF S, E, n
  <2>5. Begun(S, n) = Len(S) /\ Ended(E, n) = Len(E)
    <3>1. n >= n
      BY <2>1
    <3> QED BY <2>1, <2>2, <3>1, AllCounted
  <2>6. Carries(Marks(S), Marks(E), b.open, n) <=> InPacket(b.open, S, E, n)
    BY <2>1, WalkCounts
  <2>7. OpenBefore(Marks(S), Marks(E), b.open, n) \in BOOLEAN
    BY DEF OpenBefore, Sent
  <2>8. OpenBefore(Marks(S), Marks(E), b.open, n)
          <=> (IF b.open THEN 1 ELSE 0) + Len(S) > Len(E)
    BY <2>2, <2>5, <2>6 DEF Carries, InPacket
  <2> QED BY <2>3, <2>4, <2>7, <2>8
<1>2. CASE ~c.straddle
  BY <1>2 DEF OpenNext, OpenAfter
<1> QED BY <1>1, <1>2

-----------------------------------------------------------------------------
(***************************************************************************)
(* What is owed to the shim: what the output register still has to hand    *)
(* over of its beat, and the skid register's beat.  And what is known of   *)
(* the bus: where each beat held begins, a packet is open when one is      *)
(* after the beat before.                                                  *)
(***************************************************************************)
HeldDwords(b) == TokensOf[build][b]

HighDwords ==
  SubSeq(HeldDwords(cq_reg), Len(split.tokens[0]) + 1,
         Len(HeldDwords(cq_reg)))

InReg ==
  CASE ~cq_reg_tvalid -> <<>>
    [] cq_reg_tvalid /\ cq_phase_reg  -> HighDwords
    [] cq_reg_tvalid /\ ~cq_phase_reg -> HeldDwords(cq_reg)

InSkid == IF cq_skid_tvalid THEN HeldDwords(cq_skid) ELSE <<>>

OwedIsHeld == owed = InReg \o InSkid

AfterReg == IF cq_reg_tvalid THEN OpenAfter(build, cq_reg) ELSE cq_open_reg

OpenAgrees ==
  /\ bus_open \in BOOLEAN
  /\ cq_reg_tvalid => cq_reg.open = cq_open_reg
  /\ cq_skid_tvalid => cq_skid.open = AfterReg
  /\ bus_open = IF cq_skid_tvalid THEN OpenAfter(build, cq_skid) ELSE AfterReg

StreamInv == PlainInv /\ OpenAgrees /\ OwedIsHeld

Words == UNION {Marks(HeldDwords(b)) : b \in Beats}

LEMMA HeldIsList ==
  ASSUME build \in Builds, NEW b \in BusBeats(build), b.open \in BOOLEAN
  PROVE  /\ Sound(build) /\ Sent(build, b)
         /\ HeldDwords(b) = Tokens(build, b)
         /\ HeldDwords(b) \in Seq(Words)
         /\ Len(HeldDwords(b)) \in Nat
         /\ Len(HeldDwords(b)) <= 2 * build.half
<1>1. /\ b \in Beats /\ Sound(build) /\ Sent(build, b)
  BY TrafficAssumption DEF Sound, Sent
<1>2. HeldDwords(b) = Tokens(build, b)
  BY <1>1 DEF HeldDwords, TokensOf
<1>3. /\ Tokens(build, b) \in Seq(Marks(Tokens(build, b)))
      /\ Len(Tokens(build, b)) \in Nat
      /\ Len(Tokens(build, b)) <= 2 * build.half
  BY <1>1, HalvesJoin
<1>4. Marks(HeldDwords(b)) \subseteq Words
  BY <1>1 DEF Words
<1> DEFINE t == HeldDwords(b)
           M == Marks(t)
<1>5. t \in Seq(M) /\ M \subseteq Words
  BY <1>2, <1>3, <1>4
<1> HIDE DEF t, M
<1>6. t \in Seq(Words)
  BY ONLY <1>5, SeqOfMore
<1> QED BY <1>1, <1>2, <1>3, <1>6 DEF t

\* The beat in the output register and its two halves.
LEMMA BeatInReg ==
  ASSUME PlainInv, OpenAgrees, cq_reg_tvalid,
         NEW t, t = HeldDwords(cq_reg),
         NEW low, low = split.tokens[0], NEW high, high = split.tokens[1]
  PROVE  /\ t \in Seq(Words) /\ Len(t) \in Nat /\ Len(t) <= 2 * build.half
         /\ Len(low) \in Nat /\ Len(high) \in Nat
         /\ Len(t) = Len(low) + Len(high)
         /\ split.occ[0] <=> Len(low) # 0
         /\ split.occ[1] <=> Len(high) # 0
         /\ ~split.err_slot /\ ~split.gap[0] => SubSeq(t, 1, Len(low)) = low
         /\ ~split.err_slot /\ ~split.gap[1]
              => SubSeq(t, Len(low) + 1, Len(t)) = high
         /\ split.open_next = AfterReg
         /\ AfterReg \in BOOLEAN
<1> DEFINE b == cq_reg
<1>1. /\ build \in Builds /\ b \in BusBeats(build) /\ b \in Beats
      /\ b.open \in BOOLEAN /\ cq_open_reg = b.open
  BY DEF PlainInv, WellTyped, SkidTypeOK, BusBeatsHeld, OpenAgrees
<1>2. /\ Sound(build) /\ Sent(build, b) /\ t = Tokens(build, b)
      /\ t \in Seq(Words)
  BY <1>1, HeldIsList
<1>3. /\ low = HalfTokens(build, b, b.open, 0)
      /\ high = HalfTokens(build, b, b.open, 1)
      /\ split.err_slot = ErrSlot(build, b)
      /\ split.gap[0] = LeadingGap(build, b, b.open, 0)
      /\ split.gap[1] = LeadingGap(build, b, b.open, 1)
      /\ split.open_next = OpenNext(build, b, b.open)
      /\ split.occ[0] <=> InHalf(build, b, 0) # {}
      /\ split.occ[1] <=> InHalf(build, b, 1) # {}
  BY <1>1 DEF split, SplitOf, InHalf
<1>4. AfterReg = OpenAfter(build, b)
  BY DEF AfterReg
<1> HIDE DEF b
<1>5. /\ OpenNext(build, b, b.open) = OpenAfter(build, b)
      /\ OpenAfter(build, b) \in BOOLEAN
  BY <1>2, OpenNextIsAfter
<1>6. /\ Len(t) \in Nat /\ Len(t) <= 2 * build.half
      /\ Len(low) \in Nat /\ Len(high) \in Nat
      /\ Len(t) = Len(low) + Len(high)
      /\ Len(low) = 0 <=> InHalf(build, b, 0) = {}
      /\ Len(high) = 0 <=> InHalf(build, b, 1) = {}
      /\ ~ErrSlot(build, b) /\ ~LeadingGap(build, b, b.open, 0)
           => SubSeq(t, 1, Len(low)) = low
      /\ ~ErrSlot(build, b) /\ ~LeadingGap(build, b, b.open, 1)
           => SubSeq(t, Len(low) + 1, Len(t)) = high
  BY ONLY <1>2, <1>3, HalvesJoin, ZenonT(30)
<1> QED BY <1>2, <1>3, <1>4, <1>5, <1>6

\* What the skid register holds, and that both are lists of the same things.
LEMMA HeldLists ==
  ASSUME PlainInv, OpenAgrees
  PROVE  /\ InReg \in Seq(Words) /\ InSkid \in Seq(Words)
         /\ Len(InReg) \in Nat /\ Len(InReg) <= 2 * build.half
         /\ Len(InSkid) \in Nat /\ Len(InSkid) <= 2 * build.half
         /\ AfterReg \in BOOLEAN
<1>0. build.half \in Nat \ {0} /\ cq_phase_reg \in BOOLEAN
        /\ cq_reg_tvalid \in BOOLEAN
  BY TrafficAssumption DEF PlainInv, WellTyped, SkidTypeOK
<1>1. AfterReg \in BOOLEAN
  BY BeatInReg DEF AfterReg, PlainInv, WellTyped
<1>2. /\ InReg \in Seq(Words)
      /\ Len(InReg) \in Nat /\ Len(InReg) <= 2 * build.half
  <2>1. CASE ~cq_reg_tvalid
    BY <1>0, <2>1 DEF InReg
  <2>2. CASE cq_reg_tvalid
    <3> DEFINE t == HeldDwords(cq_reg)
               low == split.tokens[0]
               k == Len(low)
    <3>1. /\ t \in Seq(Words) /\ Len(t) \in Nat /\ Len(t) <= 2 * build.half
          /\ k \in Nat /\ k <= Len(t)
      BY <2>2, BeatInReg
    <3>2. InReg = IF cq_phase_reg THEN SubSeq(t, k + 1, Len(t)) ELSE t
      BY <1>0, <2>2 DEF InReg, HighDwords
    <3> HIDE DEF t, low, k
    <3>3. /\ SubSeq(t, k + 1, Len(t)) \in Seq(Words)
          /\ Len(SubSeq(t, k + 1, Len(t))) = Len(t) - k
      BY <3>1, Remainder
    <3>4. Len(t) - k \in Nat /\ Len(t) - k <= 2 * build.half
      BY <1>0, <3>1
    <3> QED BY <3>1, <3>2, <3>3, <3>4
  <2> QED BY <2>1, <2>2
<1>3. /\ InSkid \in Seq(Words)
      /\ Len(InSkid) \in Nat /\ Len(InSkid) <= 2 * build.half
  <2>1. CASE ~cq_skid_tvalid
    BY <1>0, <2>1 DEF InSkid
  <2>2. CASE cq_skid_tvalid
    <3>1. /\ build \in Builds /\ cq_skid \in BusBeats(build)
          /\ cq_skid.open \in BOOLEAN
      BY <1>1, <2>2 DEF PlainInv, WellTyped, BusBeatsHeld, OpenAgrees
    <3> QED BY <2>2, <3>1, HeldIsList DEF InSkid
  <2> QED BY <2>1, <2>2
<1> QED BY <1>1, <1>2, <1>3

\* The half on show is what comes next, and what remains without it.
LEMMA OnShow ==
  ASSUME PlainInv, OpenAgrees, m_axis_cq_tvalid, NEW n, n = Len(Shown)
  PROVE  /\ n \in Nat /\ n # 0 /\ n <= Len(InReg)
         /\ ~Reported => Shown = SubSeq(InReg, 1, n)
         /\ cq_last_half => SubSeq(InReg, n + 1, Len(InReg)) = <<>>
         /\ ~cq_last_half => /\ SubSeq(InReg, n + 1, Len(InReg)) = HighDwords
                             /\ ~cq_phase_reg
<1> DEFINE t == HeldDwords(cq_reg)
           low == split.tokens[0]
           high == split.tokens[1]
           l == Len(low)
           h == Len(high)
<1>1. cq_reg_tvalid /\ cq_any /\ cq_phase_reg \in BOOLEAN
  BY DEF m_axis_cq_tvalid, PlainInv, WellTyped
<1>2. /\ t \in Seq(Words) /\ l \in Nat /\ h \in Nat /\ Len(t) = l + h
      /\ split.occ[0] <=> l # 0
      /\ split.occ[1] <=> h # 0
      /\ ~split.err_slot /\ ~split.gap[0] => SubSeq(t, 1, l) = low
      /\ ~split.err_slot /\ ~split.gap[1] => SubSeq(t, l + 1, Len(t)) = high
  BY <1>1, BeatInReg
<1>3. /\ InReg = IF cq_phase_reg THEN HighDwords ELSE t
      /\ HighDwords = SubSeq(t, l + 1, Len(t))
  BY <1>1 DEF InReg, HighDwords
<1>4. /\ Shown = IF cq_phase_reg \/ l = 0 THEN high ELSE low
      /\ cq_last_half <=> cq_phase_reg \/ l = 0 \/ h = 0
      /\ cq_phase_reg => l # 0 /\ h # 0
      /\ l # 0 \/ h # 0
      /\ ~Reported => /\ ~split.err_slot
                      /\ ~split.gap[IF cq_phase_reg \/ l = 0 THEN 1 ELSE 0]
  BY <1>1, <1>2 DEF Shown, cq_sel, cq_last_half, cq_any, PlainInv,
                    PhaseInBeat, Reported, status_error_cq_slot_overflow,
                    status_error_cq_leading_gap
<1>5. n = IF cq_phase_reg \/ l = 0 THEN h ELSE l
  BY <1>4
<1> DEFINE r == HighDwords
<1> HIDE DEF t, low, high, l, h, r
<1>6. /\ r \in Seq(Words) /\ Len(r) = h
  <2>1. l <= Len(t) /\ Len(t) - l = h
    BY <1>2
  <2> QED BY <1>2, <1>3, <2>1, Remainder DEF r
<1>7. /\ ~split.err_slot /\ ~split.gap[1] => r = high
      /\ ~split.err_slot /\ ~split.gap[0] => SubSeq(t, 1, l) = low
  BY <1>2, <1>3 DEF r
<1>8. CASE cq_phase_reg
  <2>1. InReg = r /\ n = h /\ n = Len(r) /\ n # 0 /\ cq_last_half
          /\ Shown = high
    BY <1>3, <1>4, <1>5, <1>6, <1>8 DEF r
  <2>2. SubSeq(r, 1, Len(r)) = r /\ SubSeq(r, Len(r) + 1, Len(r)) = <<>>
    BY <1>6, WholeList
  <2>3. /\ SubSeq(InReg, n + 1, Len(InReg)) = <<>> /\ n <= Len(InReg)
        /\ SubSeq(InReg, 1, n) = r /\ n \in Nat
    BY ONLY <1>2, <2>1, <2>2
  <2> QED BY ONLY <1>4, <1>7, <1>8, <2>1, <2>3
<1>9. CASE ~cq_phase_reg /\ l = 0
  <2>1. InReg = t /\ n = h /\ n = Len(t) /\ n # 0 /\ cq_last_half
          /\ Shown = high
    BY <1>2, <1>3, <1>4, <1>5, <1>9
  <2>2. /\ SubSeq(t, 1, Len(t)) = t /\ SubSeq(t, Len(t) + 1, Len(t)) = <<>>
        /\ SubSeq(t, 0 + 1, Len(t)) = t
    BY <1>2, WholeList
  <2>3. r = t
    BY <1>3, <1>9, <2>2 DEF r
  <2>4. /\ SubSeq(InReg, n + 1, Len(InReg)) = <<>> /\ n <= Len(InReg)
        /\ SubSeq(InReg, 1, n) = r /\ n \in Nat
    BY ONLY <1>2, <2>1, <2>2, <2>3
  <2> QED BY ONLY <1>4, <1>7, <1>9, <2>1, <2>4
<1>10. CASE ~cq_phase_reg /\ l # 0
  <2>1. InReg = t /\ n = l /\ Shown = low /\ n <= Len(t)
          /\ (cq_last_half <=> h = 0)
    BY <1>2, <1>3, <1>4, <1>5, <1>10
  <2>2. SubSeq(InReg, n + 1, Len(InReg)) = r
    BY <1>3, <2>1 DEF r
  <2>3. h = 0 => r = <<>>
    BY <1>6
  <2> QED BY <1>2, <1>4, <1>7, <1>10, <2>1, <2>2, <2>3 DEF r
<1> QED BY <1>1, <1>8, <1>9, <1>10

\* With the half on show handed over, what the output register still owes:
\* nothing when the register is free to load, the high half otherwise.
Handed(tready) ==
  IF m_axis_cq_tvalid /\ tready THEN Len(Shown) ELSE 0

Kept(tready) == SubSeq(InReg, Handed(tready) + 1, Len(InReg))

LEMMA KeptInReg ==
  ASSUME PlainInv, OpenAgrees, NEW CONSTANT tready \in BOOLEAN,
         Advance(tready), build' = build
  PROVE  /\ cq_reg_ready(tready) \/ ~cq_reg_tvalid
              => /\ Kept(tready) = <<>> /\ cq_phase_reg' = FALSE
                 /\ cq_open_reg' = AfterReg
         /\ ~cq_reg_ready(tready) /\ cq_reg_tvalid
              => /\ cq_open_reg' = cq_open_reg
                 /\ cq_reg' = cq_reg /\ cq_reg_tvalid' = cq_reg_tvalid
                      => InReg' = Kept(tready)
         /\ Handed(tready) \in Nat /\ Handed(tready) <= Len(InReg)
<1>1. /\ InReg \in Seq(Words) /\ Len(InReg) \in Nat
      /\ cq_phase_reg \in BOOLEAN /\ cq_reg_tvalid \in BOOLEAN
  BY HeldLists DEF PlainInv, WellTyped, SkidTypeOK
<1>2. Handed(tready) = 0 => Kept(tready) = InReg
  BY <1>1, WholeList DEF Kept
<1>3. CASE ~cq_reg_tvalid
  <2>1. ~m_axis_cq_tvalid /\ ~cq_phase_reg /\ InReg = <<>>
    BY <1>3 DEF m_axis_cq_tvalid, PlainInv, PhaseInBeat, InReg
  <2>2. UNCHANGED <<cq_phase_reg, cq_open_reg>>
    BY <1>3, <2>1 DEF Advance
  <2>3. Handed(tready) = 0
    BY <2>1 DEF Handed
  <2> QED BY <1>1, <1>2, <1>3, <2>1, <2>2, <2>3 DEF AfterReg
<1>4. CASE cq_reg_tvalid /\ ~cq_any
  <2>1. ~m_axis_cq_tvalid /\ ~cq_phase_reg /\ cq_reg_ready(tready)
    BY <1>4 DEF m_axis_cq_tvalid, PlainInv, PhaseInBeat, cq_any, cq_reg_ready
  <2>2. cq_open_reg' = split.open_next /\ UNCHANGED cq_phase_reg
    BY <1>4, <2>1 DEF Advance
  <2>3. split.open_next = AfterReg
    BY <1>4, BeatInReg
  <2>4. InReg = <<>>
    <3> DEFINE t == HeldDwords(cq_reg)
    <3>1. t \in Seq(Words) /\ Len(t) = 0
      BY <1>4, BeatInReg DEF cq_any
    <3> HIDE DEF t
    <3>2. t = <<>>
      BY <3>1
    <3> QED BY <1>1, <1>4, <2>1, <3>2 DEF InReg, t
  <2>5. Handed(tready) = 0
    BY <2>1 DEF Handed
  <2> QED BY <1>1, <1>2, <1>4, <2>1, <2>2, <2>3, <2>4, <2>5
<1>5. CASE m_axis_cq_tvalid /\ tready
  <2>1. /\ cq_reg_tvalid /\ cq_any
        /\ cq_reg_ready(tready) <=> cq_last_half
        /\ cq_phase_reg' = ~cq_last_half
        /\ cq_open_reg' = IF cq_last_half THEN split.open_next
                                          ELSE cq_open_reg
    BY <1>5 DEF m_axis_cq_tvalid, cq_reg_ready, Advance
  <2>2. split.open_next = AfterReg
    BY <2>1, BeatInReg
  <2> DEFINE n == Len(Shown)
  <2>3. Handed(tready) = n /\ Kept(tready) = SubSeq(InReg, n + 1, Len(InReg))
    BY <1>5 DEF Handed, Kept
  <2>4. /\ n \in Nat /\ n <= Len(InReg)
        /\ cq_last_half => SubSeq(InReg, n + 1, Len(InReg)) = <<>>
        /\ ~cq_last_half => SubSeq(InReg, n + 1, Len(InReg)) = HighDwords
    BY <1>5, OnShow
  <2> HIDE DEF n
  <2>5. CASE cq_last_half
    BY <2>1, <2>2, <2>3, <2>4, <2>5
  <2>6. CASE ~cq_last_half
    <3>1. /\ cq_phase_reg' /\ cq_open_reg' = cq_open_reg
          /\ Kept(tready) = HighDwords /\ ~cq_reg_ready(tready)
      BY <2>1, <2>3, <2>4, <2>6
    <3>2. ASSUME cq_reg' = cq_reg, cq_reg_tvalid' = cq_reg_tvalid
          PROVE  InReg' = HighDwords
      <4>1. HighDwords' = HighDwords
        BY <3>1, <3>2 DEF HighDwords, HeldDwords, split
      <4> QED BY <2>1, <3>1, <3>2, <4>1 DEF InReg
    <3> QED BY <2>1, <2>3, <2>4, <3>1, <3>2
  <2> QED BY <2>5, <2>6
<1>6. CASE m_axis_cq_tvalid /\ ~tready
  <2>1. /\ cq_reg_tvalid /\ ~cq_reg_ready(tready)
        /\ UNCHANGED <<cq_phase_reg, cq_open_reg>>
    BY <1>6 DEF m_axis_cq_tvalid, cq_reg_ready, Advance
  <2>2. Handed(tready) = 0
    BY <1>6 DEF Handed
  <2>3. ASSUME cq_reg' = cq_reg, cq_reg_tvalid' = cq_reg_tvalid
        PROVE  InReg' = InReg
    BY <2>1, <2>3 DEF InReg, HighDwords, HeldDwords, split
  <2>4. /\ Kept(tready) = InReg
        /\ Handed(tready) \in Nat /\ Handed(tready) <= Len(InReg)
    BY <1>1, <1>2, <2>2
  <2>5. cq_reg' = cq_reg /\ cq_reg_tvalid' = cq_reg_tvalid
          => InReg' = Kept(tready)
    BY ONLY <2>3, <2>4
  <2> QED BY ONLY <2>1, <2>4, <2>5
<1> QED BY <1>3, <1>4, <1>5, <1>6 DEF m_axis_cq_tvalid

\* What joins the ledger on an edge.
Joining(tvalid, beat) ==
  IF tvalid /\ cq_in_ready_reg THEN HeldDwords(beat) ELSE <<>>

LEMMA LedgerStep ==
  ASSUME PlainInv, OpenAgrees, OwedIsHeld,
         NEW CONSTANT tvalid \in BOOLEAN, NEW CONSTANT tready \in BOOLEAN,
         NEW beat, tvalid => beat \in BusBeats(build),
         Edge(tvalid, beat, tready)
  PROVE  /\ owed' = (Kept(tready) \o InSkid) \o Joining(tvalid, beat)
         /\ SubSeq(owed, Handed(tready) + 1, Len(owed))
              = Kept(tready) \o InSkid
         /\ Kept(tready) \in Seq(Words) /\ InSkid \in Seq(Words)
         /\ Joining(tvalid, beat) \in Seq(Words)
         /\ tvalid => beat.open = bus_open
<1> DEFINE k == Handed(tready)
<1>1. /\ k \in Nat /\ k <= Len(InReg)
      /\ InReg \in Seq(Words) /\ InSkid \in Seq(Words)
  BY KeptInReg, HeldLists DEF Edge
<1>2. owed' = SubSeq(owed, k + 1, Len(owed)) \o Joining(tvalid, beat)
  BY DEF Edge, Account, Handed, Joining, HeldDwords
<1>3. /\ SubSeq(InReg \o InSkid, k + 1, Len(InReg \o InSkid))
           = SubSeq(InReg, k + 1, Len(InReg)) \o InSkid
      /\ SubSeq(InReg, k + 1, Len(InReg)) \in Seq(Words)
  <2> DEFINE p == InReg
             r == InSkid
  <2>1. k \in Nat /\ k <= Len(p) /\ p \in Seq(Words) /\ r \in Seq(Words)
    BY <1>1
  <2> HIDE DEF k, p, r
  <2>2. /\ SubSeq(p \o r, k + 1, Len(p \o r)) = SubSeq(p, k + 1, Len(p)) \o r
        /\ SubSeq(p, k + 1, Len(p)) \in Seq(Words)
    BY ONLY <2>1, CutFirst, ZenonT(30)
  <2> QED BY ONLY <2>2 DEF p, r
<1>4. owed = InReg \o InSkid /\ Kept(tready) = SubSeq(InReg, k + 1, Len(InReg))
  BY DEF OwedIsHeld, Kept
<1>5. tvalid => beat.open = bus_open
  BY DEF Edge, Fits
<1>6. Joining(tvalid, beat) \in Seq(Words)
  <2>1. CASE tvalid /\ cq_in_ready_reg
    <3>1. /\ build \in Builds /\ beat \in BusBeats(build)
          /\ beat.open \in BOOLEAN
      BY <1>5, <2>1 DEF PlainInv, WellTyped, OpenAgrees
    <3>2. HeldDwords(beat) \in Seq(Words)
      BY <3>1, HeldIsList
    <3> QED BY <2>1, <3>2 DEF Joining
  <2>2. CASE ~(tvalid /\ cq_in_ready_reg)
    BY <2>2 DEF Joining
  <2> QED BY <2>1, <2>2
<1> HIDE DEF k
<1>7. SubSeq(owed, k + 1, Len(owed)) = Kept(tready) \o InSkid
  BY ONLY <1>3, <1>4
<1> QED BY <1>1, <1>2, <1>3, <1>4, <1>5, <1>6, <1>7 DEF k

LEMMA EdgeKeepsStream ==
  ASSUME PlainInv, OpenAgrees, OwedIsHeld,
         NEW CONSTANT tvalid \in BOOLEAN, NEW CONSTANT tready \in BOOLEAN,
         NEW beat, tvalid => beat \in BusBeats(build),
         Edge(tvalid, beat, tready)
  PROVE  OpenAgrees' /\ OwedIsHeld'
<1> DEFINE ready == cq_reg_ready(tready)
           joining == Joining(tvalid, beat)
           kept == Kept(tready)
<1>1. /\ SkidEdge(tvalid, beat, ready) /\ build' = build
      /\ bus_open' = IF tvalid /\ cq_in_ready_reg THEN OpenAfter(build, beat)
                                                  ELSE bus_open
      /\ cq_in_ready_reg \in BOOLEAN /\ cq_reg_tvalid \in BOOLEAN
      /\ cq_skid_tvalid \in BOOLEAN
      /\ cq_in_ready_reg => ~cq_skid_tvalid
      /\ cq_skid_tvalid => cq_reg_tvalid
  BY DEF Edge, Account, PlainInv, WellTyped, SkidTypeOK, SkidInv
<1>2. /\ owed' = (kept \o InSkid) \o joining
      /\ kept \in Seq(Words) /\ InSkid \in Seq(Words)
      /\ joining \in Seq(Words)
      /\ tvalid => beat.open = bus_open
  BY LedgerStep
<1>3. /\ ready \/ ~cq_reg_tvalid
           => /\ kept = <<>> /\ cq_phase_reg' = FALSE
              /\ cq_open_reg' = AfterReg
      /\ ~ready /\ cq_reg_tvalid
           => /\ cq_open_reg' = cq_open_reg
              /\ cq_reg' = cq_reg /\ cq_reg_tvalid' = cq_reg_tvalid
                   => InReg' = kept
  BY KeptInReg DEF Edge
<1>4. /\ OpenAgrees
      /\ bus_open \in BOOLEAN /\ AfterReg \in BOOLEAN
      /\ tvalid => OpenAfter(build, beat) \in BOOLEAN
  <2>1. ASSUME tvalid PROVE OpenAfter(build, beat) \in BOOLEAN
    <3>1. /\ build \in Builds /\ beat \in BusBeats(build)
          /\ beat.open \in BOOLEAN
      BY <1>2, <2>1 DEF OpenAgrees, PlainInv, WellTyped
    <3>2. Sound(build) /\ Sent(build, beat)
      BY <3>1, HeldIsList
    <3> QED BY <3>2, OpenNextIsAfter
  <2> QED BY <2>1, HeldLists DEF OpenAgrees
<1>5. /\ kept \o <<>> = kept /\ <<>> \o joining = joining
      /\ (kept \o InSkid) \o <<>> = kept \o InSkid
      /\ <<>> \o InSkid = InSkid /\ InSkid \o <<>> = InSkid
      /\ <<>> \o <<>> = <<>> /\ joining \o <<>> = joining
  <2>1. kept \o InSkid \in Seq(Words)
    BY ONLY <1>2, ConcatProperties
  <2>2. <<>> \in Seq(Words)
    OBVIOUS
  <2> HIDE DEF kept, joining
  <2> QED BY ONLY <1>2, <2>1, <2>2, EmptyRight
<1>6. /\ tvalid /\ cq_in_ready_reg => joining = HeldDwords(beat)
      /\ ~(tvalid /\ cq_in_ready_reg) => joining = <<>>
  BY DEF Joining
<1>7. /\ cq_skid_tvalid => InSkid = HeldDwords(cq_skid)
      /\ ~cq_skid_tvalid => InSkid = <<>>
      /\ bus_open = IF cq_skid_tvalid THEN OpenAfter(build, cq_skid)
                                      ELSE AfterReg
      /\ cq_skid_tvalid => cq_skid.open = AfterReg
      /\ cq_reg_tvalid => cq_reg.open = cq_open_reg
      /\ ~cq_reg_tvalid => AfterReg = cq_open_reg
      /\ cq_reg_tvalid => AfterReg = OpenAfter(build, cq_reg)
  BY DEF InSkid, OpenAgrees, AfterReg
<1>8. CASE StoreToReg(tvalid, beat, ready)
  <2>1. /\ cq_in_ready_reg /\ ~cq_skid_tvalid /\ ~cq_skid_tvalid'
        /\ kept = <<>> /\ InSkid = <<>> /\ cq_phase_reg' = FALSE
        /\ cq_reg' = beat /\ cq_reg_tvalid' = tvalid
        /\ cq_open_reg' = bus_open /\ bus_open = AfterReg
    BY <1>1, <1>3, <1>7, <1>8 DEF StoreToReg
  <2>2. owed' = joining
    BY <1>2, <1>5, <2>1
  <2>3. InReg' = joining
    BY <1>1, <1>6, <2>1 DEF InReg, HeldDwords
  <2>4. InSkid' = <<>>
    BY <2>1 DEF InSkid
  <2>5. OwedIsHeld'
    <3> HIDE DEF joining
    <3>1. joining = joining \o <<>>
      BY <1>5
    <3> QED BY <2>2, <2>3, <2>4, <3>1 DEF OwedIsHeld
  <2>6. OpenAgrees'
    BY <1>1, <1>2, <1>4, <2>1 DEF OpenAgrees, AfterReg
  <2> QED BY <2>5, <2>6
<1>9. CASE StoreToSkid(tvalid, beat, ready)
  <2>1. /\ cq_in_ready_reg /\ ~cq_skid_tvalid /\ cq_reg_tvalid /\ ~ready
        /\ InSkid = <<>> /\ cq_skid' = beat /\ cq_skid_tvalid' = tvalid
        /\ cq_reg' = cq_reg /\ cq_reg_tvalid' = cq_reg_tvalid
        /\ cq_open_reg' = cq_open_reg /\ InReg' = kept
        /\ bus_open = AfterReg
    BY <1>1, <1>3, <1>7, <1>9 DEF StoreToSkid
  <2>2. owed' = kept \o joining
    BY <1>2, <1>5, <2>1
  <2>3. InSkid' = joining
    BY <1>1, <1>6, <2>1 DEF InSkid, HeldDwords
  <2>4. AfterReg' = AfterReg
    BY <1>1, <2>1 DEF AfterReg
  <2>5. OwedIsHeld'
    BY <2>1, <2>2, <2>3 DEF OwedIsHeld
  <2>6. OpenAgrees'
    BY <1>1, <1>2, <1>4, <1>7, <2>1, <2>4 DEF OpenAgrees
  <2> QED BY <2>5, <2>6
<1>10. CASE SkidToReg(ready)
  <2>1. /\ ~cq_in_ready_reg /\ ready /\ ~cq_skid_tvalid'
        /\ kept = <<>> /\ cq_phase_reg' = FALSE
        /\ cq_reg' = cq_skid /\ cq_reg_tvalid' = cq_skid_tvalid
        /\ cq_open_reg' = AfterReg /\ joining = <<>>
        /\ bus_open' = bus_open
    BY <1>1, <1>3, <1>6, <1>10 DEF SkidToReg
  <2>2. owed' = InSkid
    BY <1>2, <1>5, <2>1
  <2>3. InReg' = InSkid
    BY <1>1, <1>7, <2>1 DEF InReg, HeldDwords
  <2>4. InSkid' = <<>>
    BY <2>1 DEF InSkid
  <2>5. OwedIsHeld'
    <3>1. InSkid = InSkid \o <<>>
      BY <1>5
    <3> QED BY <2>2, <2>3, <2>4, <3>1 DEF OwedIsHeld
  <2>6. OpenAgrees'
    BY <1>1, <1>4, <1>7, <2>1 DEF OpenAgrees, AfterReg
  <2> QED BY <2>5, <2>6
<1>11. CASE SkidHold(ready)
  <2>1. /\ ~cq_in_ready_reg /\ ~ready /\ joining = <<>>
        /\ UNCHANGED <<cq_reg, cq_reg_tvalid, cq_skid, cq_skid_tvalid>>
        /\ bus_open' = bus_open
    BY <1>1, <1>6, <1>11 DEF SkidHold
  <2>2. owed' = kept \o InSkid
    BY <1>2, <1>5, <2>1
  <2>3. InSkid' = InSkid
    BY <1>1, <2>1 DEF InSkid, HeldDwords
  <2>4. InReg' = kept
    <3>1. CASE ~cq_reg_tvalid
      BY <1>3, <2>1, <3>1 DEF InReg
    <3> QED BY <1>3, <2>1, <3>1
  <2>5. cq_open_reg' = cq_open_reg
    BY <1>3, <1>7, <2>1
  <2>6. AfterReg' = AfterReg
    BY <1>1, <2>1, <2>5 DEF AfterReg
  <2>7. OwedIsHeld'
    BY <2>2, <2>3, <2>4 DEF OwedIsHeld
  <2>8. OpenAgrees'
    BY <1>1, <1>4, <2>1, <2>5, <2>6 DEF OpenAgrees
  <2> QED BY <2>7, <2>8
<1> QED BY <1>1, <1>8, <1>9, <1>10, <1>11 DEF SkidEdge

LEMMA StreamInit ==
  ASSUME CqInit
  PROVE  StreamInv
<1>1. PlainInv
  BY PlainInit
<1>2. OpenAgrees /\ OwedIsHeld
  <2>1. InReg = <<>> /\ InSkid = <<>> /\ owed = <<>>
    BY DEF CqInit, InReg, InSkid
  <2>2. <<>> \o <<>> = <<>>
    OBVIOUS
  <2>3. OpenAgrees
    BY DEF CqInit, OpenAgrees, AfterReg
  <2> QED BY <2>1, <2>2, <2>3 DEF OwedIsHeld
<1> QED BY <1>1, <1>2 DEF StreamInv

LEMMA ResetKeepsStream ==
  ASSUME NEW CONSTANT tready \in BOOLEAN, Reset(Idle, tready)
  PROVE  /\ OpenAgrees' /\ OwedIsHeld'
         /\ owed' = <<>> /\ ~m_axis_cq_tvalid'
<1>1. /\ cq_reg_tvalid' = FALSE /\ cq_skid_tvalid' = FALSE
      /\ cq_open_reg' = FALSE /\ bus_open' = FALSE /\ owed' = <<>>
  BY DEF Reset, SkidReset
<1>2. InReg' = <<>> /\ InSkid' = <<>> /\ AfterReg' = FALSE
  BY <1>1 DEF InReg, InSkid, AfterReg
<1>3. <<>> \o <<>> = <<>>
  OBVIOUS
<1> QED BY <1>1, <1>2, <1>3 DEF OpenAgrees, OwedIsHeld, m_axis_cq_tvalid

\* An edge with an input the core may give it.
BusEdge(tvalid, beat, tready) ==
  Edge(tvalid, beat, tready) /\ (tvalid => beat \in BusBeats(build))

LEMMA StepCases ==
  ASSUME CqNext
  PROVE  \E tready \in BOOLEAN :
           \/ Reset(Idle, tready)
           \/ \E tvalid \in BOOLEAN, beat \in BusBeats(build) \cup {Idle} :
                BusEdge(tvalid, beat, tready)
BY DEF CqNext, Offer, BusEdge

LEMMA StreamStep ==
  ASSUME StreamInv, [CqNext]_cqVars
  PROVE  StreamInv'
<1>1. PlainInv'
  BY PlainStep DEF StreamInv
<1>2. CASE UNCHANGED cqVars
  <2>1. OpenAgrees'
    BY <1>2 DEF cqVars, skidVars, StreamInv, OpenAgrees, AfterReg
  <2>2. OwedIsHeld'
    BY <1>2 DEF cqVars, skidVars, StreamInv, OwedIsHeld, InReg, InSkid,
                HighDwords, HeldDwords, split
  <2> QED BY <1>1, <2>1, <2>2 DEF StreamInv
<1>3. ASSUME NEW CONSTANT tready \in BOOLEAN,
             NEW CONSTANT tvalid \in BOOLEAN, NEW beat,
             BusEdge(tvalid, beat, tready)
      PROVE  OpenAgrees' /\ OwedIsHeld'
  BY <1>3, EdgeKeepsStream DEF BusEdge, StreamInv
<1>4. ASSUME NEW CONSTANT tready \in BOOLEAN, Reset(Idle, tready)
      PROVE  OpenAgrees' /\ OwedIsHeld'
  BY <1>4, ResetKeepsStream
<1> QED BY <1>1, <1>2, <1>3, <1>4, StepCases DEF StreamInv

THEOREM StreamInvHolds == CqSpec => []StreamInv
BY StreamInit, StreamStep, PTL DEF CqSpec

(***************************************************************************)
(* Every state component has its type, and the gearbox never owes the shim *)
(* more than the two beats it can hold.                                    *)
(***************************************************************************)
THEOREM CqTypesHold == CqSpec => []CqTypeOK
<1>1. ASSUME StreamInv PROVE CqTypeOK
  <2>1. /\ InReg \in Seq(Words) /\ InSkid \in Seq(Words)
        /\ Len(InReg) \in Nat /\ Len(InReg) <= 2 * build.half
        /\ Len(InSkid) \in Nat /\ Len(InSkid) <= 2 * build.half
    BY <1>1, HeldLists DEF StreamInv
  <2>2. Len(owed) = Len(InReg) + Len(InSkid)
    <3>1. Len(InReg \o InSkid) = Len(InReg) + Len(InSkid)
      BY ONLY <2>1, ConcatProperties
    <3> QED BY <1>1, <3>1 DEF StreamInv, OwedIsHeld
  <2>3. build.half \in Nat
    BY <1>1, TrafficAssumption DEF StreamInv, PlainInv, WellTyped
  <2>4. Len(owed) <= 4 * build.half
    BY ONLY <2>1, <2>2, <2>3
  <2> QED BY <1>1, <2>4
          DEF StreamInv, PlainInv, WellTyped, OpenAgrees, CqTypeOK
<1> QED BY <1>1, StreamInvHolds, PTL

-----------------------------------------------------------------------------
(* The stream.                                                             *)

LEMMA StartsItself ==
  ASSUME NEW W, NEW q \in Seq(W)
  PROVE  Stream!Starts(q, q) /\ Stream!Starts(<<>>, q)
<1>1. Len(q) \in Nat /\ SubSeq(q, 1, Len(q)) = q
  BY WholeList
<1>2. Len(<<>>) = 0 /\ SubSeq(q, 1, 0) = <<>>
  BY SubSeqEmpty
<1> QED BY <1>1, <1>2 DEF Stream!Starts

LEMMA StartsLonger ==
  ASSUME NEW W, NEW q \in Seq(W), NEW r \in Seq(W)
  PROVE  Stream!Starts(q, q \o r)
<1>1. SubSeq(q \o r, 1, Len(q)) = q
  BY DropFirst
<1>2. Len(q) \in Nat /\ Len(r) \in Nat /\ Len(q \o r) = Len(q) + Len(r)
  BY ConcatProperties
<1> QED BY <1>1, <1>2 DEF Stream!Starts

LEMMA StartsBeginning ==
  ASSUME NEW W, NEW q \in Seq(W), NEW n \in Nat, n <= Len(q)
  PROVE  /\ Stream!Starts(SubSeq(q, 1, n), q)
         /\ Len(SubSeq(q, 1, n)) = n
<1>1. Len(SubSeq(q, 1, n)) = n
  BY Beginning
<1> QED BY <1>1 DEF Stream!Starts

\* What the shim reads is the beginning of what it is owed.
Out == IF m_axis_cq_tvalid THEN Excused ELSE <<>>

LEMMA OutStarts ==
  ASSUME StreamInv
  PROVE  /\ Stream!Starts(Out, owed)
         /\ owed \in Seq(Words)
         /\ m_axis_cq_tvalid => /\ Len(Out) = Len(Shown)
                               /\ Out = SubSeq(owed, 1, Len(Shown))
<1>1. /\ InReg \in Seq(Words) /\ InSkid \in Seq(Words)
      /\ owed = InReg \o InSkid
  BY HeldLists DEF StreamInv, OwedIsHeld
<1>2. owed \in Seq(Words) /\ Len(owed) = Len(InReg) + Len(InSkid)
      /\ Len(InReg) \in Nat /\ Len(InSkid) \in Nat
  BY ONLY <1>1, ConcatProperties, LenProperties
<1>3. CASE ~m_axis_cq_tvalid
  BY <1>2, <1>3, StartsItself DEF Out
<1>4. CASE m_axis_cq_tvalid
  <2> DEFINE n == Len(Shown)
  <2>1. /\ n \in Nat /\ n <= Len(InReg)
        /\ ~Reported => Shown = SubSeq(InReg, 1, n)
    BY <1>4, OnShow DEF StreamInv
  <2>2. Out = IF Reported THEN SubSeq(owed, 1, n) ELSE Shown
    BY <1>4 DEF Out, Excused
  <2> HIDE DEF n
  <2>3. SubSeq(owed, 1, n) = SubSeq(InReg, 1, n)
    BY ONLY <1>1, <2>1, CutFirst
  <2>4. Out = SubSeq(owed, 1, n)
    BY ONLY <2>1, <2>2, <2>3
  <2>5. n <= Len(owed)
    BY <1>2, <2>1
  <2>6. Stream!Starts(Out, owed) /\ Len(Out) = n
    BY ONLY <1>2, <2>1, <2>4, <2>5, StartsBeginning
  <2> QED BY <1>2, <2>4, <2>6 DEF n
<1> QED BY <1>3, <1>4

\* In any state and in the next one.
OutBegins == Stream!Starts(Out, owed) /\ owed \in Seq(Words)

LEMMA OutNowAndNext ==
  (StreamInv => OutBegins) /\ (StreamInv' => OutBegins')
<1>1. StreamInv => OutBegins
  BY OutStarts DEF OutBegins
<1> QED BY <1>1, PTL

\* A half on show that is not taken stays.
LEMMA OutStays ==
  ASSUME StreamInv, NEW CONSTANT tready \in BOOLEAN,
         NEW CONSTANT tvalid \in BOOLEAN, NEW beat,
         BusEdge(tvalid, beat, tready), m_axis_cq_tvalid, ~tready
  PROVE  Out' = Out
<1>1. /\ cq_reg_tvalid /\ cq_any /\ ~cq_reg_ready(tready)
      /\ cq_reg_tvalid \in BOOLEAN
  BY DEF m_axis_cq_tvalid, cq_reg_ready, StreamInv, PlainInv, WellTyped,
         SkidTypeOK
<1>2. UNCHANGED <<build, cq_phase_reg, cq_open_reg>>
  BY DEF BusEdge, Edge, Advance, m_axis_cq_tvalid
<1>3. UNCHANGED <<cq_reg, cq_reg_tvalid>>
  BY <1>1 DEF BusEdge, Edge, SkidEdge, StoreToReg, StoreToSkid, SkidToReg,
              SkidHold
<1>4. split' = split
  BY <1>2, <1>3 DEF split, SplitOf
<1>5. /\ m_axis_cq_tvalid' = m_axis_cq_tvalid /\ Shown' = Shown
      /\ Reported' = Reported
  BY <1>2, <1>3, <1>4 DEF m_axis_cq_tvalid, cq_any, Shown, cq_sel, Reported,
                          status_error_cq_slot_overflow,
                          status_error_cq_leading_gap
<1> DEFINE n == Len(Shown)
<1>6. n \in Nat /\ n <= Len(owed) /\ owed \in Seq(Words)
  <2>1. n \in Nat /\ Len(Out) = n /\ Out = SubSeq(owed, 1, n)
    BY OnShow, OutStarts DEF StreamInv
  <2>2. Stream!Starts(Out, owed) /\ owed \in Seq(Words)
    BY OutStarts
  <2> QED BY <2>1, <2>2 DEF Stream!Starts
<1>7. /\ owed' = (Kept(tready) \o InSkid) \o Joining(tvalid, beat)
      /\ Joining(tvalid, beat) \in Seq(Words)
      /\ Kept(tready) \o InSkid = owed
  <2>1. /\ owed' = (Kept(tready) \o InSkid) \o Joining(tvalid, beat)
        /\ Joining(tvalid, beat) \in Seq(Words)
        /\ SubSeq(owed, Handed(tready) + 1, Len(owed))
             = Kept(tready) \o InSkid
    BY LedgerStep DEF BusEdge, StreamInv
  <2>2. Handed(tready) = 0
    BY DEF Handed
  <2>3. SubSeq(owed, 0 + 1, Len(owed)) = owed
    BY <1>6, WholeList
  <2> QED BY <2>1, <2>2, <2>3
<1>8. SubSeq(owed', 1, n) = SubSeq(owed, 1, n)
  <2> DEFINE j == Joining(tvalid, beat)
  <2>1. owed' = owed \o j /\ j \in Seq(Words)
    BY <1>7
  <2> HIDE DEF j, n
  <2>2. SubSeq(owed \o j, 1, n) = SubSeq(owed, 1, n)
    BY ONLY <1>6, <2>1, CutFirst
  <2> QED BY <2>1, <2>2
<1>9. Excused' = Excused
  BY <1>5, <1>8 DEF Excused
<1> QED BY <1>5, <1>9 DEF Out

\* The gearbox is a TlpStream: the shim reads every dword the core sent, in
\* order and once, each packet start with its own fields and each packet end
\* where it was, and a half on show does not change until it is taken; a half
\* that drops marks or that is not filled from its first dword is excused, as
\* long as the gearbox reports it.
THEOREM CqIsAStream == CqSpec => ImplementsStream
<1>1. CqInit => Stream!Init
  BY DEF CqInit, Stream!Init, m_axis_cq_tvalid
<1>2. ASSUME StreamInv, StreamInv',
             NEW CONSTANT tready \in BOOLEAN,
             NEW CONSTANT tvalid \in BOOLEAN, NEW beat,
             BusEdge(tvalid, beat, tready)
      PROVE  /\ \/ Stream!Starts(SubSeq(owed, Len(Out) + 1, Len(owed)), owed')
                \/ /\ Stream!Starts(owed, owed')
                   /\ Out # <<>> => Out' = Out
             /\ Stream!Starts(Out', owed')
  <2> DEFINE left == Kept(tready) \o InSkid
             j == Joining(tvalid, beat)
  <2>1. /\ owed' = left \o j
        /\ SubSeq(owed, Handed(tready) + 1, Len(owed)) = left
        /\ left \in Seq(Words) /\ j \in Seq(Words)
    <3>1. /\ owed' = left \o j
          /\ SubSeq(owed, Handed(tready) + 1, Len(owed)) = left
          /\ Kept(tready) \in Seq(Words) /\ InSkid \in Seq(Words)
          /\ j \in Seq(Words)
      BY <1>2, LedgerStep DEF BusEdge, StreamInv
    <3>2. left \in Seq(Words)
      BY ONLY <3>1, ConcatProperties
    <3> QED BY <3>1, <3>2
  <2> HIDE DEF left, j
  <2>2. Stream!Starts(left, owed')
    BY <2>1, StartsLonger
  <2>3. Stream!Starts(Out', owed')
    BY <1>2, OutNowAndNext DEF OutBegins
  <2>4. CASE m_axis_cq_tvalid /\ tready
    <3>1. Handed(tready) = Len(Out)
      BY <1>2, <2>4, OutStarts DEF Handed
    <3>2. Stream!Starts(SubSeq(owed, Len(Out) + 1, Len(owed)), owed')
      BY ONLY <2>1, <2>2, <3>1
    <3> QED BY ONLY <2>3, <3>2
  <2>5. CASE ~(m_axis_cq_tvalid /\ tready)
    <3>1. left = owed
      <4>1. Handed(tready) = 0
        BY <2>5 DEF Handed
      <4>2. owed \in Seq(Words)
        BY <1>2, OutStarts
      <4>3. SubSeq(owed, 0 + 1, Len(owed)) = owed
        BY <4>2, WholeList
      <4> QED BY ONLY <2>1, <4>1, <4>3
    <3>2. Out # <<>> => m_axis_cq_tvalid
      BY DEF Out
    <3>3. Out # <<>> => Out' = Out
      BY <1>2, <2>5, <3>2, OutStays
    <3>4. Stream!Starts(owed, owed')
      BY ONLY <2>2, <3>1
    <3> QED BY ONLY <2>3, <3>3, <3>4
  <2> QED BY <2>4, <2>5
<1>3. ASSUME NEW CONSTANT tready \in BOOLEAN, Reset(Idle, tready)
      PROVE  owed' = <<>> /\ Out' = <<>>
  BY <1>3, ResetKeepsStream DEF Out
<1>4. UNCHANGED cqVars => owed' = owed /\ Out' = Out
  BY DEF cqVars, skidVars, Out, Excused, m_axis_cq_tvalid, cq_any, Shown,
         cq_sel, split, Reported, status_error_cq_slot_overflow,
         status_error_cq_leading_gap
<1>5. StreamInv /\ StreamInv' /\ [CqNext]_cqVars
        => [Stream!Next]_<<owed, IF m_axis_cq_tvalid THEN Excused ELSE <<>> >>
  <2> SUFFICES ASSUME StreamInv, StreamInv', [CqNext]_cqVars
               PROVE  [Stream!Next]_<<owed, Out>>
    BY DEF Out
  <2>1. CASE UNCHANGED cqVars
    BY <1>4, <2>1
  <2>2. ASSUME NEW CONSTANT tready \in BOOLEAN,
               NEW CONSTANT tvalid \in BOOLEAN, NEW beat,
               BusEdge(tvalid, beat, tready)
        PROVE  Stream!Next
    BY <1>2, <2>2 DEF Stream!Next, Stream!Step, Stream!Stays, Stream!Taken,
                      Out
  <2>3. ASSUME NEW CONSTANT tready \in BOOLEAN, Reset(Idle, tready)
        PROVE  Stream!Next
    BY <1>3, <2>3 DEF Stream!Next, Stream!Flush, Out
  <2> QED BY <2>1, <2>2, <2>3, StepCases
<1> QED BY <1>1, <1>5, StreamInvHolds, PTL
        DEF CqSpec, ImplementsStream, Stream!Spec

=============================================================================
