--------------------------- MODULE RqEngineProofs ---------------------------
(***************************************************************************)
(* The RQ engine, for every beat width, every length of TLP, every depth   *)
(* of FIFO and every number of sequence numbers:                           *)
(*   - FramingNeverBroken: the core never sees a start inside a TLP, a     *)
(*     beat outside one, or a gap in tkeep;                                *)
(*   - TypesKept;                                                          *)
(*   - PortsAreStreams: the engine implements a TlpStream for each port.   *)
(*     What a port is owed is what the core is shown, the unit shifted out *)
(*     and the units of the segments that wait, in that order;             *)
(*   - NumbersComeBackOnce: every sequence number is returned to its port  *)
(*     once.                                                               *)
(***************************************************************************)
EXTENDS RqEngine, TlpBeatsProofs

\* A segment as the FIFOs hold it: full unless it ends its TLP.
FullOrLast(s) ==
  /\ s.n \in 0 .. SegUnits
  /\ s.eop \/ s.n = SegUnits

\* It starts with the first payload unit, or has payload.
Told(s) == IF s.sop THEN s.first = 1 ELSE s.n > 0

Segments ==
  {s \in [seq : SeqNums, first : Nat, n : Nat, sop : BOOLEAN, eop : BOOLEAN] :
     FullOrLast(s) /\ Told(s)}

\* What a port may still have to push: a TLP, or the rest of one.
UnderWay(t) == t.first > 1 /\ t.left > 0

Tlps == {t \in [seq : SeqNums, first : Nat, left : Nat] :
           t.first = 1 \/ UnderWay(t)}

Rests == {NoTlp} \cup {t \in Tlps : UnderWay(t)}

FifosOK ==
  /\ fifo \in [Ports -> Seq(Segments)]
  /\ wr_src \in Rests

\* A TLP that goes on left its last unit in the shift register.
ShiftHeld == frame_reg => out_shift_reg # Blank

\* The engine's frame is the core's, one beat ahead.
FrameOneAhead ==
  /\ frame_reg \in BOOLEAN
  /\ m_axis_rq.tvalid \in BOOLEAN
  /\ m_axis_rq.tvalid => (frame_reg <=> ~Ends)
  /\ ~m_axis_rq.tvalid => (frame_reg <=> sink # NoPort)

FInv == FifosOK /\ ShiftHeld /\ FrameOneAhead /\ FramingLegal

-----------------------------------------------------------------------------
(* What the ports push.                                                    *)

LEMMA SegmentOf ==
  ASSUME NEW t \in Tlps
  PROVE  /\ Segment(t) \in Segments /\ Rest(t) \in Rests
         /\ Segment(t).seq = t.seq /\ Segment(t).first = t.first
         /\ Segment(t).sop <=> t.first = 1
         /\ Segment(t).eop <=> Rest(t) = NoTlp
         /\ Rest(t) # NoTlp => Rest(t).seq = t.seq
<1> DEFINE n == IF t.left < SegUnits THEN t.left ELSE SegUnits
<1>1. n \in 0 .. SegUnits /\ (n = t.left \/ n = SegUnits)
  BY SegUnitsAssumption DEF Tlps
<1>2. Segment(t) = [seq |-> t.seq, first |-> t.first, n |-> n,
                    sop |-> t.first = 1, eop |-> n = t.left]
  BY DEF Segment
<1>3. n = t.left <=> t.left <= SegUnits
  BY SegUnitsAssumption DEF Tlps
<1>4. t.first # 1 => n > 0 /\ t.first > 1
  BY SegUnitsAssumption DEF Tlps, UnderWay
<1> HIDE DEF n
<1>5. /\ Segment(t).seq = t.seq /\ Segment(t).first = t.first
      /\ Segment(t).n = n
      /\ Segment(t).sop = (t.first = 1) /\ Segment(t).eop = (n = t.left)
  BY <1>2
<1>6. Segment(t) \in Segments
  <2>1. FullOrLast(Segment(t))
    BY <1>1, <1>5 DEF FullOrLast
  <2>2. Told(Segment(t))
    BY <1>4, <1>5 DEF Told
  <2>3. t.seq \in SeqNums /\ t.first \in Nat /\ n \in Nat
    BY <1>1, SegUnitsAssumption DEF Tlps
  <2> QED BY <1>2, <2>1, <2>2, <2>3 DEF Segments
<1>7. CASE t.left <= SegUnits
  <2>1. Rest(t) = NoTlp
    BY <1>7 DEF Rest
  <2> QED BY <1>3, <1>5, <1>6, <1>7, <2>1 DEF Rests
<1>8. CASE ~(t.left <= SegUnits)
  <2>1. /\ t.first + SegUnits \in Nat /\ t.left - SegUnits \in Nat
        /\ t.first + SegUnits > 1 /\ t.left - SegUnits > 0
    BY <1>8, SegUnitsAssumption DEF Tlps, UnderWay
  <2>2. Rest(t) = [t EXCEPT !.first = t.first + SegUnits,
                            !.left = t.left - SegUnits]
    BY <1>8 DEF Rest
  <2>3. t \in [seq : SeqNums, first : Nat, left : Nat]
    BY DEF Tlps
  <2> DEFINE r == Rest(t)
  <2>4. /\ r \in [seq : SeqNums, first : Nat, left : Nat] /\ r.seq = t.seq
        /\ r.first = t.first + SegUnits /\ r.left = t.left - SegUnits
    BY <2>1, <2>2, <2>3
  <2> HIDE DEF r
  <2>5. UnderWay(r)
    BY <2>1, <2>4 DEF UnderWay
  <2>6. r # NoTlp
    BY <2>1, <2>4 DEF NoTlp
  <2>7. r \in Rests
    BY <2>4, <2>5 DEF Rests, Tlps
  <2> QED BY <1>3, <1>5, <1>6, <1>8, <2>4, <2>6, <2>7 DEF r
<1> QED BY <1>7, <1>8

LEMMA PushedTlp ==
  ASSUME FifosOK, NEW p \in Ports, NEW T \in SUBSET Tlps, NEW in \in Push(p, T)
  PROVE  /\ [i \in DOMAIN in |-> Segment(in[i])] \in Seq(Segments)
         /\ in # <<>> => in[1] \in Tlps
<1>1. CASE in = <<>>
  BY <1>1
<1>2. CASE in # <<>>
  <2>1. PICK t \in T : in = <<t>>
    BY <1>2 DEF Push
  <2>2. Segment(t) \in Segments
    BY SegmentOf
  <2> HIDE DEF Segments, Tlps
  <2>3. [i \in DOMAIN in |-> Segment(in[i])] = <<Segment(t)>>
    BY <2>1
  <2> QED BY <2>1, <2>2, <2>3
<1> QED BY <1>1, <1>2

LEMMA OfferedTlps ==
  ASSUME FifosOK
  PROVE  ReadTlps \in SUBSET Tlps /\ WriteTlps \in SUBSET Tlps
<1>1. ReadTlps \in SUBSET Tlps
  BY DEF ReadTlps, Tlps
<1>2. WriteTlps \in SUBSET Tlps
  <2>1. CASE wr_src # NoTlp
    BY <2>1 DEF WriteTlps, Rests, FifosOK
  <2>2. CASE wr_src = NoTlp
    BY <2>2, WrUnitsAssumption DEF WriteTlps, Tlps
  <2> QED BY <2>1, <2>2
<1> QED BY <1>1, <1>2

-----------------------------------------------------------------------------
(* What the engine shows, and what it reads.                               *)

LEMMA ShownSegment ==
  ASSUME FifosOK, NEW p \in Ports, Granted(p)
  PROVE  /\ Seg(p) \in Segments
         /\ Tail(fifo[p]) \in Seq(Segments)
<1>1. fifo[p] \in Seq(Segments) /\ fifo[p] # <<>>
  BY DEF FifosOK, Granted, Eligible
<1> HIDE DEF Segments
<1> QED BY <1>1 DEF Seg

LEMMA FifosKept ==
  ASSUME FifosOK, NEW read \in SUBSET Ports, \A p \in read : Granted(p),
         NEW ins \in [Ports -> Seq(Segments)], FifosAfter(read, ins)
  PROVE  fifo' \in [Ports -> Seq(Segments)]
<1> DEFINE left(p) == IF p \in read THEN Tail(fifo[p]) ELSE fifo[p]
<1>1. ASSUME NEW p \in Ports PROVE left(p) \o ins[p] \in Seq(Segments)
  <2>1. left(p) \in Seq(Segments)
    BY ShownSegment DEF FifosOK
  <2> HIDE DEF left, Segments
  <2> QED BY <2>1
<1>2. fifo' = [p \in Ports |-> left(p) \o ins[p]]
  BY DEF FifosAfter
<1> HIDE DEF left
<1> QED BY <1>1, <1>2

LEMMA PortIsPort == ASSUME NEW x PROVE PortOf(x) \in Ports /\ PortOf(x) # NoPort
BY DEF PortOf, Ports, NoPort

\* When the output register can load, the core's frame after the edge is the
\* engine's frame before it.
LEMMA SinkCatchesUp ==
  ASSUME FInv, NEW tready \in BOOLEAN, NEW back, OutputFree(tready),
         Core(tready, back)
  PROVE  sink' = NoPort <=> ~frame_reg
<1>1. CASE m_axis_rq.tvalid
  <2>1. Handshake(tready)
    BY <1>1 DEF OutputFree, Handshake
  <2>2. SinkPort # NoPort
    BY <1>1, PortIsPort DEF FInv, FramingLegal, SinkPort
  <2>3. sink' = IF Ends THEN NoPort ELSE SinkPort
    BY <2>1 DEF Core
  <2> QED BY <1>1, <2>2, <2>3 DEF FInv, FrameOneAhead
<1>2. CASE ~m_axis_rq.tvalid
  <2>1. sink' = sink
    BY <1>2 DEF Core, Handshake
  <2> QED BY <1>2, <2>1 DEF FInv, FrameOneAhead
<1> QED BY <1>1, <1>2

\* How many lanes of a beat carry something.
StrobeCount(p, split2) ==
  IF split2 THEN 1
            ELSE IF Seg(p).n < SegUnits THEN Seg(p).n + 1 ELSE SegUnits

LEMMA StrobesAreARun ==
  ASSUME FInv, NEW p \in Ports, Granted(p), NEW split2 \in BOOLEAN
  PROVE  /\ StrobeCount(p, split2) \in 1 .. SegUnits
         /\ Strb(p, split2) = 0 .. StrobeCount(p, split2) - 1
<1> DEFINE units == IF split2 THEN 0 ELSE Seg(p).n
           m == StrobeCount(p, split2)
<1>1. Seg(p).n \in 0 .. SegUnits
  BY ShownSegment DEF FInv, Segments, FullOrLast
<1>2. units \in 0 .. SegUnits
  BY <1>1, SegUnitsAssumption
<1>3. Header \/ out_shift_reg # Blank
  BY DEF FInv, ShiftHeld, Header
<1>4. Strb(p, split2) = {i \in Lanes : i <= units}
  <2>1. ASSUME NEW i \in Lanes
        PROVE  (IF i = 0 THEN Header \/ out_shift_reg # Blank
                         ELSE ~split2 /\ i <= Seg(p).n) <=> i <= units
    BY <1>1, <1>3, SegUnitsAssumption DEF Lanes
  <2> HIDE DEF units
  <2> QED BY <2>1 DEF Strb
<1>5. m = IF units < SegUnits THEN units + 1 ELSE SegUnits
  BY SegUnitsAssumption DEF units, StrobeCount
<1> HIDE DEF units, m
<1>6. m \in 1 .. SegUnits /\ {i \in Lanes : i <= units} = 0 .. m - 1
  BY <1>2, <1>5, SegUnitsAssumption DEF Lanes
<1> QED BY <1>4, <1>6 DEF m

-----------------------------------------------------------------------------
(* A beat that starts, goes on with or ends a TLP.                         *)

\* What the engine's registers and the core's frame tell of each other.
Framed == ShiftHeld /\ FrameOneAhead /\ FramingLegal

LEMMA LoadedBeat ==
  ASSUME FInv, NEW p \in Ports, Granted(p),
         NEW eop \in BOOLEAN, NEW split2 \in BOOLEAN,
         Emit(p, eop, split2), frame_reg' = ~eop,
         eop \/ (~split2 /\ Seg(p).n = SegUnits),
         sink' = NoPort <=> ~frame_reg,
         RQ_STRADDLE_ENC \in BOOLEAN, RQ_STRADDLE_ENC' = RQ_STRADDLE_ENC
  PROVE  Framed'
<1>1. frame_reg \in BOOLEAN
  BY DEF FInv, FrameOneAhead
<1>2. /\ m_axis_rq'.tvalid = TRUE
      /\ m_axis_rq'.is_sop = (RQ_STRADDLE_ENC /\ ~frame_reg)
      /\ m_axis_rq'.is_eop = (RQ_STRADDLE_ENC /\ eop)
      /\ m_axis_rq'.tkeep = IF RQ_STRADDLE_ENC THEN {} ELSE Strb(p, split2)
      /\ m_axis_rq'.tlast = (~RQ_STRADDLE_ENC /\ eop)
  BY Zenon DEF Emit, Beat, Header
<1>3. ShiftHeld'
  <2>1. CASE eop
    BY <2>1 DEF ShiftHeld
  <2>2. CASE ~eop
    <3>1. out_shift_reg' = <<p, Seg(p).seq, Seg(p).first + SegUnits - 1>>
      BY <2>2, SegUnitsAssumption DEF Emit, Unit
    <3> QED BY <3>1 DEF ShiftHeld, Blank, Ports
  <2> QED BY <2>1, <2>2
<1>4. Ends' <=> eop
  BY <1>2 DEF Ends
<1>5. FrameOneAhead'
  BY <1>2, <1>4 DEF FrameOneAhead
<1>6. FramingLegal'
  <2>1. Starts' <=> (sink' = NoPort)
    BY <1>1, <1>2 DEF Starts
  <2>2. ASSUME ~RQ_STRADDLE_ENC
        PROVE  \E n \in 1 .. SegUnits : /\ m_axis_rq'.tkeep = 0 .. n - 1
                                        /\ n = SegUnits \/ m_axis_rq'.tlast
    <3> DEFINE n == StrobeCount(p, split2)
    <3>1. /\ n \in 1 .. SegUnits /\ Strb(p, split2) = 0 .. n - 1
          /\ ~split2 /\ Seg(p).n = SegUnits => n = SegUnits
      <4>1. /\ n \in 1 .. SegUnits /\ Strb(p, split2) = 0 .. n - 1
        BY StrobesAreARun
      <4>2. ~split2 /\ Seg(p).n = SegUnits => n = SegUnits
        BY SegUnitsAssumption DEF StrobeCount
      <4> QED BY <4>1, <4>2
    <3>2. m_axis_rq'.tkeep = 0 .. n - 1
      BY <1>2, <2>2, <3>1
    <3>3. n = SegUnits \/ m_axis_rq'.tlast
      BY <1>2, <2>2, <3>1
    <3> QED BY <3>1, <3>2, <3>3
  <2> QED BY <2>1, <2>2 DEF FramingLegal
<1> QED BY <1>3, <1>5, <1>6 DEF Framed

LEMMA EngineKeepsFraming ==
  ASSUME FInv, RQ_STRADDLE_ENC \in BOOLEAN, NEW tready \in BOOLEAN, NEW back,
         NEW ins \in [Ports -> Seq(Segments)],
         Engine(tready, ins), Core(tready, back),
         UNCHANGED RQ_STRADDLE_ENC
  PROVE  Framed' /\ fifo' \in [Ports -> Seq(Segments)]
<1> USE DEF FInv
<1>1. ASSUME NEW p \in Ports, SplitHead(p, tready, ins)
      PROVE  Framed' /\ fifo' \in [Ports -> Seq(Segments)]
  <2>1. Granted(p) /\ OutputFree(tready) /\ Emit(p, FALSE, FALSE)
    BY <1>1 DEF SplitHead
  <2>2. Seg(p).n = SegUnits /\ frame_reg' = ~FALSE
    BY <1>1 DEF SplitHead, Extra
  <2>3. Framed'
    BY <2>1, <2>2, SinkCatchesUp, LoadedBeat
  <2>4. fifo' \in [Ports -> Seq(Segments)]
    BY <1>1, FifosKept DEF SplitHead
  <2> QED BY <2>3, <2>4
<1>2. ASSUME NEW p \in Ports, SplitTail(p, tready, ins)
      PROVE  Framed' /\ fifo' \in [Ports -> Seq(Segments)]
  <2>1. Granted(p) /\ OutputFree(tready) /\ Emit(p, TRUE, TRUE)
    BY <1>2 DEF SplitTail
  <2>2. frame_reg' = ~TRUE
    BY <1>2 DEF SplitTail
  <2>3. Framed'
    BY <2>1, <2>2, SinkCatchesUp, LoadedBeat
  <2>4. fifo' \in [Ports -> Seq(Segments)]
    BY <1>2, FifosKept DEF SplitTail
  <2> QED BY <2>3, <2>4
<1>3. ASSUME NEW p \in Ports, WholeSegment(p, tready, ins)
      PROVE  Framed' /\ fifo' \in [Ports -> Seq(Segments)]
  <2>1. Granted(p) /\ OutputFree(tready) /\ Emit(p, Seg(p).eop, FALSE)
    BY <1>3 DEF WholeSegment
  <2>2. Seg(p).eop \in BOOLEAN /\ (Seg(p).eop \/ Seg(p).n = SegUnits)
    BY <2>1, ShownSegment DEF Segments, FullOrLast
  <2>3. frame_reg' = ~Seg(p).eop
    BY <1>3 DEF WholeSegment
  <2>4. Framed'
    BY <2>1, <2>2, <2>3, SinkCatchesUp, LoadedBeat
  <2>5. fifo' \in [Ports -> Seq(Segments)]
    BY <1>3, FifosKept DEF WholeSegment
  <2> QED BY <2>4, <2>5
<1>4. ASSUME NothingGranted(tready, ins)
      PROVE  Framed' /\ fifo' \in [Ports -> Seq(Segments)]
  <2>1. m_axis_rq'.tvalid = FALSE
    BY <1>4 DEF NothingGranted, NoBeat
  <2>2. sink' = NoPort <=> ~frame_reg
    BY <1>4, SinkCatchesUp DEF NothingGranted
  <2>3. frame_reg' = frame_reg /\ out_shift_reg' = out_shift_reg
    BY <1>4 DEF NothingGranted
  <2>4. Framed'
    BY <2>1, <2>2, <2>3
    DEF Framed, ShiftHeld, FrameOneAhead, FramingLegal
  <2>5. fifo' \in [Ports -> Seq(Segments)]
    BY <1>4, FifosKept DEF NothingGranted
  <2> QED BY <2>4, <2>5
<1>5. ASSUME OutputHeld(tready, ins)
      PROVE  Framed' /\ fifo' \in [Ports -> Seq(Segments)]
  <2>1. sink' = sink
    BY <1>5 DEF OutputHeld, OutputFree, Core, Handshake
  <2>2. UNCHANGED <<frame_reg, out_shift_reg, m_axis_rq>>
    BY <1>5 DEF OutputHeld
  <2>3. Framed'
    BY <2>1, <2>2
    DEF Framed, ShiftHeld, FrameOneAhead, FramingLegal, Starts, Ends
  <2>4. fifo' \in [Ports -> Seq(Segments)]
    BY <1>5, FifosKept DEF OutputHeld
  <2> QED BY <2>3, <2>4
<1> QED BY <1>1, <1>2, <1>3, <1>4, <1>5 DEF Engine

-----------------------------------------------------------------------------
(* Every step.                                                             *)

\* The inductive invariant.
IInv == RQ_STRADDLE_ENC \in BOOLEAN /\ FInv

LEMMA InitFramed == Init => IInv
<1> SUFFICES ASSUME Init PROVE IInv
  OBVIOUS
<1>1. m_axis_rq.tvalid = FALSE /\ frame_reg = FALSE /\ sink = NoPort
  BY DEF Init, NoBeat
<1>2. FifosOK
  <2>1. NoTlp \in Rests
    BY DEF Rests
  <2>2. \A p \in Ports : <<>> \in Seq(Segments)
    OBVIOUS
  <2> QED BY <2>1, <2>2 DEF Init, FifosOK
<1> QED BY <1>1, <1>2
        DEF Init, IInv, FInv, ShiftHeld, FrameOneAhead, FramingLegal

LEMMA ResetKeepsFraming ==
  ASSUME NEW tready \in BOOLEAN, NEW credit, IInv, Reset(tready, credit)
  PROVE  IInv'
<1>1. m_axis_rq'.tvalid = FALSE /\ frame_reg' = FALSE /\ sink' = NoPort
  BY DEF Reset, Restart, NoBeat
<1>2. FifosOK'
  <2>1. NoTlp \in Rests
    BY DEF Rests
  <2>2. \A p \in Ports : <<>> \in Seq(Segments)
    OBVIOUS
  <2> QED BY <2>1, <2>2 DEF Reset, FifosOK
<1>3. RQ_STRADDLE_ENC' \in BOOLEAN
  BY DEF Reset, IInv
<1> QED BY <1>1, <1>2, <1>3
        DEF IInv, FInv, ShiftHeld, FrameOneAhead, FramingLegal

LEMMA EdgeKeepsFraming ==
  ASSUME NEW tready \in BOOLEAN, NEW back, NEW credit, IInv,
         NEW rd_in \in Push("rd", ReadTlps), NEW wr_in \in Push("wr", WriteTlps),
         Edge(tready, rd_in, wr_in, back, credit)
  PROVE  IInv'
<1> DEFINE tlps == [p \in Ports |-> IF p = "rd" THEN rd_in ELSE wr_in]
           segs(p) == [i \in DOMAIN tlps[p] |-> Segment(tlps[p][i])]
           ins == [p \in Ports |-> segs(p)]
<1> USE DEF IInv
<1>1. FifosOK /\ "rd" \in Ports /\ "wr" \in Ports
  BY DEF FInv, Ports
<1>2. /\ [i \in DOMAIN rd_in |-> Segment(rd_in[i])] \in Seq(Segments)
      /\ [i \in DOMAIN wr_in |-> Segment(wr_in[i])] \in Seq(Segments)
      /\ wr_in # <<>> => wr_in[1] \in Tlps
  BY <1>1, PushedTlp, OfferedTlps
<1>3. ASSUME NEW p \in Ports PROVE segs(p) \in Seq(Segments)
  <2> HIDE DEF Segments
  <2>1. CASE p = "rd"
    <3>1. tlps[p] = rd_in
      BY <2>1
    <3> QED BY <3>1, <1>2
  <2>2. CASE p # "rd"
    <3>1. tlps[p] = wr_in
      BY <2>2
    <3> QED BY <3>1, <1>2
  <2> QED BY <2>1, <2>2
<1>4. ins \in [Ports -> Seq(Segments)]
  <2> HIDE DEF segs, Segments
  <2> QED BY <1>3
<1>5. /\ Engine(tready, ins) /\ Core(tready, back)
      /\ wr_src' = IF wr_in = <<>> THEN wr_src ELSE Rest(wr_in[1])
      /\ UNCHANGED RQ_STRADDLE_ENC
  BY DEF Edge
<1>6. Framed' /\ fifo' \in [Ports -> Seq(Segments)]
  <2> HIDE DEF ins
  <2> QED BY <1>4, <1>5, EngineKeepsFraming
<1>7. wr_src' \in Rests
  <2>1. CASE wr_in = <<>>
    BY <1>1, <1>5, <2>1 DEF FifosOK
  <2>2. CASE wr_in # <<>>
    BY <1>2, <1>5, <2>2, SegmentOf
  <2> QED BY <2>1, <2>2
<1> QED BY <1>5, <1>6, <1>7 DEF Framed, FInv, FifosOK

LEMMA FramingInductive == IInv /\ [Next]_vars => IInv'
<1> SUFFICES ASSUME IInv, [Next]_vars PROVE IInv'
  OBVIOUS
<1>1. CASE UNCHANGED vars
  BY <1>1 DEF vars, engVars, envVars, IInv, FInv, FifosOK, ShiftHeld,
              FrameOneAhead, FramingLegal, Starts, Ends
<1>2. ASSUME NEW tready \in BOOLEAN, Clock(tready) PROVE IInv'
  <2>1. PICK rd_in \in Push("rd", ReadTlps), wr_in \in Push("wr", WriteTlps),
             credit \in Credits, back \in SUBSET in_core :
               Edge(tready, rd_in, wr_in, back, credit)
    BY <1>2 DEF Clock
  <2> QED BY <2>1, EdgeKeepsFraming
<1>3. ASSUME NEW tready \in BOOLEAN, NEW credit \in Credits,
             Reset(tready, credit)
      PROVE  IInv'
  BY <1>3, ResetKeepsFraming
<1> QED BY <1>1, <1>2, <1>3 DEF Next

(***************************************************************************)
(* No beat of the engine breaks the core's framing, for every width of a   *)
(* beat, every length of a write and every stall, credit and reset: a TLP  *)
(* starts exactly when none is open, and tkeep is full unless it ends one. *)
(***************************************************************************)
THEOREM FramingNeverBroken == Spec => []FramingLegal
<1>1. IInv => FramingLegal
  BY DEF IInv, FInv
<1> QED BY <1>1, InitFramed, FramingInductive, PTL DEF Spec

-----------------------------------------------------------------------------
(* Types.  What the FIFOs hold comes from the invariant above.             *)

RqSeqNums == 0 .. 2 * SEQ_NUM_FLAG - 1

\* The sequence numbers on their way through the core.
NumbersOK ==
  /\ m_axis_rq.seq_num \in RqSeqNums
  /\ sink_seq \in RqSeqNums
  /\ in_core \subseteq RqSeqNums

TInv == TypeOK /\ NumbersOK

LEMMA InitTyped == Init => TInv
<1> SUFFICES ASSUME Init PROVE TInv
  OBVIOUS
<1>1. 0 \in RqSeqNums
  BY FlagAssumption DEF RqSeqNums
<1>2. NumbersOK
  BY <1>1 DEF Init, NoBeat, NumbersOK
<1>3. credit_reg \in [Ports -> BOOLEAN]
  BY DEF Init
<1>4. waiting \in [Ports -> SUBSET SeqNums]
  BY DEF Init
<1>5. \A p \in Ports : Len(fifo[p]) <= FifoDepth
  BY FifoDepthAssumption DEF Init
<1> QED BY <1>2, <1>3, <1>4, <1>5 DEF Init, TInv, TypeOK, Ports

\* The port's number with its flag.
LEMMA BeatNumber ==
  ASSUME FifosOK, NEW p \in Ports, Granted(p), NEW eop, NEW split2,
         Emit(p, eop, split2)
  PROVE  m_axis_rq'.seq_num \in RqSeqNums
<1>1. Seg(p).seq \in SeqNums
  BY ShownSegment DEF Segments
<1>2. m_axis_rq'.seq_num = rq_seq(p)
  BY DEF Emit, Beat
<1> QED BY <1>1, <1>2, FlagAssumption DEF rq_seq, SeqNums, RqSeqNums

LEMMA FifoRoom ==
  ASSUME FifosOK, TypeOK, NEW read \in SUBSET Ports,
         \A p \in read : Granted(p),
         NEW ins \in [Ports -> Seq(Segments)], FifosAfter(read, ins),
         \A p \in Ports : \/ ins[p] = <<>>
                          \/ Len(ins[p]) = 1 /\ Len(fifo[p]) < FifoDepth
  PROVE  \A p \in Ports : Len(fifo'[p]) <= FifoDepth
<1> TAKE p \in Ports
<1> DEFINE left == IF p \in read THEN Tail(fifo[p]) ELSE fifo[p]
<1>1. left \in Seq(Segments) /\ Len(left) <= Len(fifo[p])
  <2>1. fifo[p] \in Seq(Segments)
    BY DEF FifosOK
  <2>2. p \in read => fifo[p] # <<>>
    BY DEF Granted, Eligible
  <2> QED BY <2>1, <2>2, HeadTailProperties
<1>2. fifo'[p] = left \o ins[p] /\ ins[p] \in Seq(Segments)
  BY DEF FifosAfter
<1>3. Len(fifo'[p]) = Len(left) + Len(ins[p])
  <2> HIDE DEF left, Segments
  <2> QED BY <1>1, <1>2, ConcatProperties
<1>4. Len(fifo[p]) <= FifoDepth /\ Len(fifo[p]) \in Nat
  BY DEF TypeOK, FifosOK
<1>5. CASE ins[p] = <<>>
  BY <1>1, <1>3, <1>4, <1>5, FifoDepthAssumption, LenProperties
<1>6. CASE Len(ins[p]) = 1 /\ Len(fifo[p]) < FifoDepth
  BY <1>1, <1>3, <1>4, <1>6, FifoDepthAssumption, LenProperties
<1> QED BY <1>5, <1>6

LEMMA EngineTypes ==
  ASSUME IInv, TInv, NEW tready \in BOOLEAN,
         NEW ins \in [Ports -> Seq(Segments)],
         Engine(tready, ins),
         \A p \in Ports : \/ ins[p] = <<>>
                          \/ Len(ins[p]) = 1 /\ Len(fifo[p]) < FifoDepth
  PROVE  /\ m_axis_rq'.seq_num \in RqSeqNums
         /\ frame_reg' \in BOOLEAN /\ tlp_split1_reg' \in BOOLEAN
         /\ port_reg' \in Ports
         /\ \A p \in Ports : Len(fifo'[p]) <= FifoDepth
<1> DEFINE Types == /\ m_axis_rq'.seq_num \in RqSeqNums
                    /\ frame_reg' \in BOOLEAN /\ tlp_split1_reg' \in BOOLEAN
                    /\ port_reg' \in Ports
           Room == \A p \in Ports : Len(fifo'[p]) <= FifoDepth
<1>0. FifosOK /\ TypeOK
  BY DEF IInv, FInv, TInv
<1>1. ASSUME NEW p \in Ports, SplitHead(p, tready, ins) PROVE Types /\ Room
  <2>1. Types
    BY <1>0, <1>1, BeatNumber DEF SplitHead, Emit
  <2>2. Room
    BY <1>0, <1>1, FifoRoom DEF SplitHead
  <2> QED BY <2>1, <2>2
<1>2. ASSUME NEW p \in Ports, SplitTail(p, tready, ins) PROVE Types /\ Room
  <2>1. Types
    BY <1>0, <1>2, BeatNumber DEF SplitTail, Emit
  <2>2. Room
    BY <1>0, <1>2, FifoRoom DEF SplitTail
  <2> QED BY <2>1, <2>2
<1>3. ASSUME NEW p \in Ports, WholeSegment(p, tready, ins) PROVE Types /\ Room
  <2>0. split1 \in BOOLEAN
    BY <1>0 DEF split1, TypeOK
  <2>1. Types
    BY <1>0, <1>3, <2>0, BeatNumber DEF WholeSegment, Emit
  <2>2. Room
    BY <1>0, <1>3, FifoRoom DEF WholeSegment
  <2> QED BY <2>1, <2>2
<1>4. ASSUME NothingGranted(tready, ins) PROVE Types /\ Room
  <2>1. 0 \in RqSeqNums
    BY FlagAssumption DEF RqSeqNums
  <2>2. Types
    BY <1>0, <1>4, <2>1 DEF NothingGranted, NoBeat, TypeOK
  <2>3. Room
    BY <1>0, <1>4, FifoRoom DEF NothingGranted
  <2> QED BY <2>2, <2>3
<1>5. ASSUME OutputHeld(tready, ins) PROVE Types /\ Room
  <2>1. Types
    BY <1>0, <1>5 DEF OutputHeld, TypeOK, TInv, NumbersOK
  <2>2. Room
    BY <1>0, <1>5, FifoRoom DEF OutputHeld
  <2> QED BY <2>1, <2>2
<1> QED BY <1>1, <1>2, <1>3, <1>4, <1>5 DEF Engine

LEMMA CoreTypes ==
  ASSUME TInv, NEW tready \in BOOLEAN, NEW back, Core(tready, back)
  PROVE  /\ sink' \in Ports \cup {NoPort}
         /\ sink_seq' \in RqSeqNums
         /\ in_core' \subseteq RqSeqNums
<1>1. 0 \in RqSeqNums
  BY FlagAssumption DEF RqSeqNums
<1>2. SinkSeq \in RqSeqNums
  BY DEF SinkSeq, TInv, NumbersOK
<1>3. SinkPort \in Ports \cup {NoPort}
  BY PortIsPort DEF SinkPort, TInv, TypeOK
<1> QED BY <1>1, <1>2, <1>3 DEF Core, TInv, TypeOK, NumbersOK

\* What a port pushes is one segment that has room, or nothing.
LEMMA PushTypes ==
  ASSUME FifosOK, NEW p \in Ports, NEW T \in SUBSET Tlps, NEW in \in Push(p, T)
  PROVE  /\ [i \in DOMAIN in |-> Segment(in[i])] \in Seq(Segments)
         /\ \/ [i \in DOMAIN in |-> Segment(in[i])] = <<>>
            \/ /\ Len([i \in DOMAIN in |-> Segment(in[i])]) = 1
               /\ Len(fifo[p]) < FifoDepth
         /\ \A i \in DOMAIN in : in[i].seq \in SeqNums
<1>0. [i \in DOMAIN in |-> Segment(in[i])] \in Seq(Segments)
  BY PushedTlp
<1>1. CASE in = <<>>
  BY <1>0, <1>1
<1>2. CASE in # <<>>
  <2>1. PICK t \in T : in = <<t>> /\ Len(fifo[p]) < FifoDepth
    BY <1>2 DEF Push
  <2>2. t.seq \in SeqNums
    BY <2>1 DEF Tlps
  <2> HIDE DEF Segments, Tlps
  <2>3. [i \in DOMAIN in |-> Segment(in[i])] = <<Segment(t)>>
    BY <2>1
  <2>4. Len(<<Segment(t)>>) = 1
    OBVIOUS
  <2>5. DOMAIN in = {1} /\ in[1] = t
    BY <2>1
  <2> QED BY <1>0, <2>1, <2>2, <2>3, <2>4, <2>5
<1> QED BY <1>1, <1>2

LEMMA EdgeTypes ==
  ASSUME NEW tready \in BOOLEAN, NEW back, NEW credit \in Credits, IInv, TInv,
         NEW rd_in \in Push("rd", ReadTlps), NEW wr_in \in Push("wr", WriteTlps),
         Edge(tready, rd_in, wr_in, back, credit)
  PROVE  TInv'
<1> DEFINE tlps == [p \in Ports |-> IF p = "rd" THEN rd_in ELSE wr_in]
           ins == [p \in Ports |->
                     [i \in DOMAIN tlps[p] |-> Segment(tlps[p][i])]]
<1>1. FifosOK /\ "rd" \in Ports /\ "wr" \in Ports
  BY DEF IInv, FInv, Ports
<1>2. ASSUME NEW p \in Ports
      PROVE  /\ ins[p] \in Seq(Segments)
             /\ \/ ins[p] = <<>>
                \/ Len(ins[p]) = 1 /\ Len(fifo[p]) < FifoDepth
             /\ \A i \in DOMAIN tlps[p] : tlps[p][i].seq \in SeqNums
  <2>1. CASE p = "rd"
    <3>1. tlps[p] = rd_in
      BY <2>1
    <3>2. ins[p] = [i \in DOMAIN rd_in |-> Segment(rd_in[i])]
      BY <3>1
    <3> DEFINE pushed == [i \in DOMAIN rd_in |-> Segment(rd_in[i])]
    <3>3. ReadTlps \in SUBSET Tlps
      BY <1>1, OfferedTlps
    <3>4. /\ pushed \in Seq(Segments)
          /\ \/ pushed = <<>>
             \/ Len(pushed) = 1 /\ Len(fifo["rd"]) < FifoDepth
          /\ \A i \in DOMAIN rd_in : rd_in[i].seq \in SeqNums
      BY <1>1, <3>3, PushTypes
    <3> HIDE DEF pushed, tlps, ins, Segments
    <3>5. ins[p] = pushed
      BY <3>2 DEF pushed
    <3> QED BY <2>1, <3>1, <3>4, <3>5
  <2>2. CASE p = "wr"
    <3>1. tlps[p] = wr_in
      BY <2>2
    <3>2. ins[p] = [i \in DOMAIN wr_in |-> Segment(wr_in[i])]
      BY <3>1
    <3> DEFINE pushed == [i \in DOMAIN wr_in |-> Segment(wr_in[i])]
    <3>3. WriteTlps \in SUBSET Tlps
      BY <1>1, OfferedTlps
    <3>4. /\ pushed \in Seq(Segments)
          /\ \/ pushed = <<>>
             \/ Len(pushed) = 1 /\ Len(fifo["wr"]) < FifoDepth
          /\ \A i \in DOMAIN wr_in : wr_in[i].seq \in SeqNums
      BY <1>1, <3>3, PushTypes
    <3> HIDE DEF pushed, tlps, ins, Segments
    <3>5. ins[p] = pushed
      BY <3>2 DEF pushed
    <3> QED BY <2>2, <3>1, <3>4, <3>5
  <2> QED BY <2>1, <2>2 DEF Ports
<1>3. ins \in [Ports -> Seq(Segments)]
  <2>1. ins = [p \in Ports |-> ins[p]]
    OBVIOUS
  <2> HIDE DEF ins, Segments
  <2> QED BY <1>2, <2>1
<1>4. /\ Engine(tready, ins) /\ Core(tready, back)
      /\ Account(tready, back, tlps)
      /\ credit_reg' = credit /\ UNCHANGED RQ_STRADDLE_ENC
  BY DEF Edge
<1> HIDE DEF ins, tlps
<1>5. /\ m_axis_rq'.seq_num \in RqSeqNums
      /\ frame_reg' \in BOOLEAN /\ tlp_split1_reg' \in BOOLEAN
      /\ port_reg' \in Ports
      /\ \A p \in Ports : Len(fifo'[p]) <= FifoDepth
  BY <1>2, <1>3, <1>4, EngineTypes
<1>6. /\ sink' \in Ports \cup {NoPort}
      /\ sink_seq' \in RqSeqNums
      /\ in_core' \subseteq RqSeqNums
  BY <1>4, CoreTypes
<1>7. waiting' \in [Ports -> SUBSET SeqNums]
  BY <1>2, <1>4 DEF Account, TInv, TypeOK
<1>8. credit_reg' \in [Ports -> BOOLEAN] /\ RQ_STRADDLE_ENC' \in BOOLEAN
  BY <1>4 DEF Credits, TInv, TypeOK
<1> QED
  BY <1>5, <1>6, <1>7, <1>8 DEF TInv, TypeOK, NumbersOK, RqSeqNums

LEMMA ResetTypes ==
  ASSUME NEW tready \in BOOLEAN, NEW credit \in Credits, TInv,
         Reset(tready, credit)
  PROVE  TInv'
<1>1. 0 \in RqSeqNums
  BY FlagAssumption DEF RqSeqNums
<1>2. NumbersOK'
  BY <1>1 DEF Reset, Restart, NoBeat, NumbersOK
<1>3. waiting' \in [Ports -> SUBSET SeqNums]
  BY DEF Reset
<1>4. \A p \in Ports : Len(fifo'[p]) <= FifoDepth
  BY FifoDepthAssumption DEF Reset
<1>5. tlp_split1_reg' \in BOOLEAN
  BY DEF Reset, TInv, TypeOK
<1>6. credit_reg' \in [Ports -> BOOLEAN]
  BY DEF Reset, Credits
<1>7. /\ RQ_STRADDLE_ENC' \in BOOLEAN /\ frame_reg' \in BOOLEAN
      /\ port_reg' \in Ports /\ in_core' = {} /\ sink' = NoPort
  BY DEF Reset, Restart, TInv, TypeOK, Ports
<1> QED BY <1>2, <1>3, <1>4, <1>5, <1>6, <1>7 DEF TInv, TypeOK

LEMMA TypesInductive == IInv /\ TInv /\ [Next]_vars => TInv'
<1> SUFFICES ASSUME IInv, TInv, [Next]_vars PROVE TInv'
  OBVIOUS
<1>1. CASE UNCHANGED vars
  BY <1>1 DEF vars, engVars, envVars, TInv, TypeOK, NumbersOK
<1>2. ASSUME NEW tready \in BOOLEAN, Clock(tready) PROVE TInv'
  <2>1. PICK rd_in \in Push("rd", ReadTlps), wr_in \in Push("wr", WriteTlps),
             credit \in Credits, back \in SUBSET in_core :
               Edge(tready, rd_in, wr_in, back, credit)
    BY <1>2 DEF Clock
  <2> QED BY <2>1, EdgeTypes
<1>3. ASSUME NEW tready \in BOOLEAN, NEW credit \in Credits,
             Reset(tready, credit)
      PROVE  TInv'
  BY <1>3, ResetTypes
<1> QED BY <1>1, <1>2, <1>3 DEF Next

(***************************************************************************)
(* The engine's registers, the sequence numbers on their way through the   *)
(* core and what the ports wait for stay in their ranges, and no FIFO      *)
(* holds more segments than it has room for.                               *)
(***************************************************************************)
THEOREM TypesKept == Spec => []TypeOK
<1>1. TInv => TypeOK
  BY DEF TInv
<1> QED BY <1>1, InitFramed, FramingInductive, InitTyped, TypesInductive, PTL
        DEF Spec

-----------------------------------------------------------------------------
(* The units of the segments a FIFO holds, after each other.               *)

\* A unit on its way, with its framing.
Units == (Ports \X SeqNums \X Nat) \cup {Blank}

Words == [unit : Units, sop : BOOLEAN, eop : BOOLEAN]

LEMMA IsWord ==
  ASSUME NEW u \in Units, NEW a \in BOOLEAN, NEW b \in BOOLEAN
  PROVE  [unit |-> u, sop |-> a, eop |-> b] \in Words
BY DEF Words

LEMMA IsList ==
  ASSUME NEW W, NEW m \in Nat, NEW u, u = [i \in 1 .. m |-> u[i]],
         \A i \in 1 .. m : u[i] \in W
  PROVE  u \in Seq(W) /\ Len(u) = m
OBVIOUS

LEMMA UnitsList ==
  ASSUME NEW p \in Ports, NEW s \in Segments
  PROVE  /\ UnitsOf(p, s) \in Seq(Words)
         /\ Len(UnitsOf(p, s)) = IF s.sop THEN s.n + 1 ELSE s.n
         /\ Len(UnitsOf(p, s)) \in Nat \ {0}
         /\ \A i \in 1 .. Len(UnitsOf(p, s)) :
              UnitsOf(p, s)[i]
                = [unit |-> <<p, s.seq, (IF s.sop THEN 0 ELSE s.first) + i - 1>>,
                   sop  |-> s.sop /\ i = 1,
                   eop  |-> s.eop /\ i = Len(UnitsOf(p, s))]
<1> DEFINE k == IF s.sop THEN 0 ELSE s.first
           m == s.first + s.n - k
           u == [i \in 1 .. m |-> [unit |-> <<p, s.seq, k + i - 1>>,
                                   sop  |-> s.sop /\ i = 1,
                                   eop  |-> s.eop /\ i = m]]
<1>1. /\ s.seq \in SeqNums /\ s.first \in Nat /\ s.n \in Nat
      /\ s.sop \in BOOLEAN /\ s.eop \in BOOLEAN
      /\ IF s.sop THEN s.first = 1 ELSE s.n > 0
  BY DEF Segments, Told
<1>2. /\ m = IF s.sop THEN s.n + 1 ELSE s.n
      /\ m \in Nat \ {0} /\ k \in Nat
  BY <1>1
<1>3. UnitsOf(p, s) = u
  BY DEF UnitsOf
<1> HIDE DEF k, m
<1>4. ASSUME NEW i \in 1 .. m PROVE u[i] \in Words
  <2>1. <<p, s.seq, k + i - 1>> \in Units
    BY <1>1, <1>2 DEF Units
  <2>2. (s.sop /\ i = 1) \in BOOLEAN /\ (s.eop /\ i = m) \in BOOLEAN
    OBVIOUS
  <2> HIDE DEF Words
  <2> QED BY <2>1, <2>2, IsWord
<1>5. u \in Seq(Words) /\ Len(u) = m
  <2>1. u = [i \in 1 .. m |-> u[i]]
    OBVIOUS
  <2> HIDE DEF Words, u
  <2>2. m \in Nat /\ \A i \in 1 .. m : u[i] \in Words
    BY <1>2, <1>4
  <2> QED BY ONLY <2>1, <2>2, IsList
<1>6. \A i \in 1 .. m :
        u[i] = [unit |-> <<p, s.seq, k + i - 1>>,
                sop  |-> s.sop /\ i = 1,
                eop  |-> s.eop /\ i = m]
  OBVIOUS
<1> HIDE DEF u, Words
<1>7. Len(UnitsOf(p, s)) = m
  BY <1>3, <1>5
<1>8. \A i \in 1 .. m :
        UnitsOf(p, s)[i]
          = [unit |-> <<p, s.seq, (IF s.sop THEN 0 ELSE s.first) + i - 1>>,
             sop  |-> s.sop /\ i = 1,
             eop  |-> s.eop /\ i = m]
  BY <1>3, <1>6 DEF k
<1> QED BY ONLY <1>2, <1>3, <1>5, <1>7, <1>8

\* r is the units of port p's segments in q: off tells where each one's end.
Laid(p, q, r, off) ==
  /\ off[0] = 0 /\ off[Len(q)] = Len(r)
  /\ \A i, j \in 0 .. Len(q) : i <= j => off[i] <= off[j]
  /\ \A i \in 1 .. Len(q) :
       /\ off[i] = off[i - 1] + Len(UnitsOf(p, q[i]))
       /\ \A j \in 1 .. Len(UnitsOf(p, q[i])) :
            r[off[i - 1] + j] = UnitsOf(p, q[i])[j]

Queued(p, q, r) ==
  \E off \in [0 .. Len(q) -> 0 .. Len(r)] : Laid(p, q, r, off)

LEMMA QueuedNothing ==
  ASSUME NEW p
  PROVE  /\ Queued(p, <<>>, <<>>)
         /\ \A W : \A r \in Seq(W) : Queued(p, <<>>, r) => r = <<>>
<1>1. Queued(p, <<>>, <<>>)
  <2> DEFINE off == [i \in 0 .. 0 |-> 0]
  <2>1. off \in [0 .. Len(<<>>) -> 0 .. Len(<<>>)] /\ off[0] = 0
    OBVIOUS
  <2> HIDE DEF off
  <2>2. \A i, j \in 0 .. Len(<<>>) : i <= j => off[i] <= off[j]
    BY <2>1
  <2>3. Laid(p, <<>>, <<>>, off)
    BY <2>1, <2>2 DEF Laid
  <2> QED BY <2>1, <2>3 DEF Queued
<1>2. ASSUME NEW W, NEW r \in Seq(W), Queued(p, <<>>, r)
      PROVE  r = <<>>
  <2>1. Len(r) = 0
    BY <1>2 DEF Queued, Laid
  <2> QED BY <2>1
<1> QED BY <1>1, <1>2

LEMMA QueuedMore ==
  ASSUME NEW p, NEW Q, NEW q \in Seq(Q), NEW W, NEW r \in Seq(W),
         \A x \in Q : Len(UnitsOf(p, x)) \in Nat,
         Queued(p, q, r), NEW s \in Q, NEW u, u = UnitsOf(p, s), u \in Seq(W)
  PROVE  Queued(p, Append(q, s), r \o u)
<1> DEFINE n == Len(q)
           l == Len(r)
           m == Len(u)
           t == r \o u
           v == Append(q, s)
<1>1. n \in Nat /\ l \in Nat /\ m \in Nat
  OBVIOUS
<1>2. PICK off \in [0 .. n -> 0 .. l] :
        /\ off[0] = 0 /\ off[n] = l
        /\ \A i, j \in 0 .. n : i <= j => off[i] <= off[j]
        /\ \A i \in 1 .. n :
             /\ off[i] = off[i - 1] + Len(UnitsOf(p, q[i]))
             /\ \A j \in 1 .. Len(UnitsOf(p, q[i])) :
                  r[off[i - 1] + j] = UnitsOf(p, q[i])[j]
  BY DEF Queued, Laid
<1>3. /\ Len(t) = l + m
      /\ \A i \in 1 .. l : t[i] = r[i]
      /\ \A i \in 1 .. m : t[l + i] = u[i]
  BY TwoLists
<1>4. /\ Len(v) = n + 1 /\ v[n + 1] = s
      /\ \A i \in 1 .. n : v[i] = q[i]
  OBVIOUS
<1> HIDE DEF n, l, m, t, v
<1> DEFINE o == [i \in 0 .. n + 1 |-> IF i <= n THEN off[i] ELSE l + m]
<1>5. /\ \A i \in 0 .. n : i \in 0 .. n + 1 /\ i <= n
      /\ n + 1 \in 0 .. n + 1 /\ ~(n + 1 <= n) /\ n \in 0 .. n /\ 0 \in 0 .. n
      /\ \A i \in 0 .. n + 1 : i \in 0 .. n \/ i = n + 1
  BY <1>1
<1>6. /\ \A i \in 0 .. n : o[i] = off[i] /\ o[i] \in 0 .. l
      /\ o[n + 1] = l + m
  BY <1>2, <1>5
<1>7. o \in [0 .. n + 1 -> 0 .. l + m]
  <2>1. \A i \in 0 .. n + 1 : (IF i <= n THEN off[i] ELSE l + m) \in 0 .. l + m
    BY <1>1, <1>2, <1>5
  <2> QED BY <2>1
<1> HIDE DEF o
<1>8. \A i, j \in 0 .. n + 1 : i <= j => o[i] <= o[j]
  <2> SUFFICES ASSUME NEW i \in 0 .. n + 1, NEW j \in 0 .. n + 1, i <= j
               PROVE  o[i] <= o[j]
    OBVIOUS
  <2>1. CASE j \in 0 .. n
    <3>1. i \in 0 .. n
      BY <1>1, <2>1
    <3> QED BY <1>2, <1>6, <2>1, <3>1
  <2>2. CASE j = n + 1
    <3>1. o[i] \in 0 .. l + m
      BY <1>7
    <3> QED BY <1>1, <1>6, <2>2, <3>1
  <2> QED BY <1>5, <2>1, <2>2
<1>9. ASSUME NEW i \in 1 .. n + 1
      PROVE  /\ o[i] = o[i - 1] + Len(UnitsOf(p, v[i]))
             /\ \A j \in 1 .. Len(UnitsOf(p, v[i])) :
                  t[o[i - 1] + j] = UnitsOf(p, v[i])[j]
  <2>1. CASE i \in 1 .. n
    <3>1. i - 1 \in 0 .. n /\ i \in 0 .. n
      BY <1>1, <2>1
    <3> DEFINE w == UnitsOf(p, q[i])
               g == off[i - 1]
    <3>2. /\ o[i] = off[i] /\ o[i - 1] = g /\ v[i] = q[i]
          /\ off[i] \in 0 .. l /\ g \in 0 .. l
      BY <1>2, <1>4, <1>6, <2>1, <3>1
    <3>3. /\ off[i] = g + Len(w)
          /\ \A j \in 1 .. Len(w) : r[g + j] = w[j]
      BY <1>2, <2>1
    <3>4. Len(w) \in Nat
      <4>1. q[i] \in Q
        BY <2>1 DEF n
      <4> QED BY <4>1
    <3> HIDE DEF w, g
    <3>5. \A j \in 1 .. Len(w) : g + j \in 1 .. l
      BY <1>1, <3>2, <3>3, <3>4
    <3>6. \A j \in 1 .. Len(w) : t[g + j] = w[j]
      BY <1>3, <3>3, <3>5
    <3> QED BY <3>2, <3>3, <3>6 DEF w
  <2>2. CASE i = n + 1
    <3>1. i - 1 = n /\ n \in 0 .. n
      BY <1>1, <2>2
    <3>2. o[i] = l + m /\ o[i - 1] = l /\ v[i] = s
      BY <1>2, <1>4, <1>6, <2>2, <3>1
    <3> QED BY <1>3, <3>2 DEF m
  <2>3. i \in 1 .. n \/ i = n + 1
    BY <1>1
  <2> QED BY <2>1, <2>2, <2>3
<1>10. o[0] = 0 /\ o[n + 1] = l + m
  BY <1>2, <1>5, <1>6
<1>11. Laid(p, v, t, o)
  <2>1. Len(v) = n + 1 /\ Len(t) = l + m
    BY <1>3, <1>4
  <2> QED BY ONLY <1>8, <1>9, <1>10, <2>1 DEF Laid
<1>12. Queued(p, v, t)
  <2>1. Len(v) = n + 1 /\ Len(t) = l + m
    BY <1>3, <1>4
  <2>2. o \in [0 .. Len(v) -> 0 .. Len(t)]
    BY <1>7, <2>1
  <2> QED BY ONLY <1>11, <2>2 DEF Queued
<1> QED BY <1>12 DEF t, v

\* The oldest segment's units come first.
LEMMA QueuedHead ==
  ASSUME NEW p, NEW Q, NEW q \in Seq(Q), q # <<>>, NEW W, NEW r \in Seq(W),
         \A x \in Q : Len(UnitsOf(p, x)) \in Nat,
         Queued(p, q, r), NEW u, u = UnitsOf(p, Head(q)), u \in Seq(W)
  PROVE  \E w \in Seq(W) : r = u \o w /\ Queued(p, Tail(q), w)
<1> DEFINE n == Len(q)
           l == Len(r)
           m == Len(u)
           v == Tail(q)
           w == SubSeq(r, m + 1, l)
<1>1. n \in Nat /\ n > 0 /\ l \in Nat /\ m \in Nat
  OBVIOUS
<1>2. PICK off \in [0 .. n -> 0 .. l] :
        /\ off[0] = 0 /\ off[n] = l
        /\ \A i, j \in 0 .. n : i <= j => off[i] <= off[j]
        /\ \A i \in 1 .. n :
             /\ off[i] = off[i - 1] + Len(UnitsOf(p, q[i]))
             /\ \A j \in 1 .. Len(UnitsOf(p, q[i])) :
                  r[off[i - 1] + j] = UnitsOf(p, q[i])[j]
  BY DEF Queued, Laid
<1>3. /\ Len(v) = n - 1
      /\ \A i \in 1 .. n - 1 : v[i] = q[i + 1]
      /\ Head(q) = q[1]
  OBVIOUS
<1>4. \A i \in 1 .. n : Len(UnitsOf(p, q[i])) \in Nat
  OBVIOUS
<1> HIDE DEF n, v
<1>5. /\ 0 \in 0 .. n /\ 1 \in 0 .. n /\ n \in 0 .. n /\ 1 \in 1 .. n
      /\ 1 - 1 = 0
  BY <1>1
<1>6. off[1] = m
  BY <1>1, <1>2, <1>3, <1>5
<1>7. m <= l /\ \A j \in 1 .. m : r[j] = u[j]
  <2>1. m \in 0 .. l
    BY <1>2, <1>5, <1>6
  <2>2. \A j \in 1 .. m : r[off[0] + j] = u[j]
    BY <1>2, <1>3, <1>5
  <2>3. \A j \in 1 .. m : off[0] + j = j
    BY <1>2
  <2> QED BY <1>1, <2>1, <2>2, <2>3
<1>8. /\ w \in Seq(W) /\ Len(w) = l - m
      /\ w = [i \in 1 .. l - m |-> r[m + i]]
  BY <1>1, <1>7, Remainder
<1> HIDE DEF w, m, l
<1>9. r = u \o w
  <2> DEFINE t == u \o w
             g == l - m
  <2>1. g \in Nat /\ m + g = l
    BY <1>1, <1>7
  <2>2. g = Len(w) /\ m = Len(u)
    BY <1>8 DEF m
  <2> HIDE DEF g
  <2>3. /\ t = [i \in 1 .. m + g |-> t[i]]
        /\ \A i \in 1 .. m : t[i] = u[i]
        /\ \A i \in 1 .. g : t[m + i] = w[i]
    <3> HIDE DEF t
    <3>0. u \in Seq(W) /\ w \in Seq(W)
      BY <1>8
    <3>1. /\ u \o w = [i \in 1 .. m + g |-> (u \o w)[i]]
      BY ONLY <2>2, <3>0, TwoLists
    <3>2. \A i \in 1 .. m : (u \o w)[i] = u[i]
      BY ONLY <2>2, <3>0, TwoLists
    <3>3. \A i \in 1 .. g : (u \o w)[m + i] = w[i]
      BY ONLY <2>2, <3>0, TwoLists
    <3> QED BY ONLY <3>1, <3>2, <3>3 DEF t
  <2> HIDE DEF t
  <2>4. ASSUME NEW i \in 1 .. l PROVE t[i] = r[i]
    <3>1. CASE i \in 1 .. m
      BY <1>7, <2>3, <3>1
    <3>2. CASE i \notin 1 .. m
      <4> DEFINE j == i - m
      <4>1. j \in 1 .. g /\ i = m + j
        BY <1>1, <2>1, <3>2
      <4> HIDE DEF j
      <4>2. w[j] = r[m + j]
        BY <1>8, <4>1 DEF g
      <4> QED BY <2>3, <4>1, <4>2
    <3> QED BY <3>1, <3>2
  <2>5. r = [i \in 1 .. l |-> r[i]]
    BY DEF l
  <2> QED BY <2>1, <2>3, <2>4, <2>5 DEF t
<1> DEFINE h == n - 1
           g == l - m
<1>10. h \in Nat /\ g \in Nat
  BY <1>1, <1>7
<1>11. /\ \A i \in 0 .. h : i + 1 \in 0 .. n /\ 1 <= i + 1
       /\ \A i \in 1 .. h : i + 1 \in 1 .. n /\ i - 1 + 1 = i
                            /\ i \in 0 .. h /\ i - 1 \in 0 .. h
       /\ h + 1 = n /\ h \in 0 .. h /\ 0 \in 0 .. h /\ 0 + 1 = 1
       /\ \A i \in 1 .. h : i + 1 - 1 = i
  BY <1>1
<1> HIDE DEF h
<1> DEFINE o == [i \in 0 .. h |-> off[i + 1] - m]
<1>12. \A i \in 0 .. h : off[i + 1] \in 0 .. l /\ m <= off[i + 1]
  <2> TAKE i \in 0 .. h
  <2>1. i + 1 \in 0 .. n /\ 1 <= i + 1 /\ 1 \in 0 .. n
    BY <1>5, <1>11
  <2>2. off[1] <= off[i + 1]
    BY <1>2, <2>1
  <2>3. off[i + 1] \in 0 .. l
    BY <1>2, <2>1
  <2> QED BY <1>6, <2>2, <2>3
<1>13. \A i \in 0 .. h : off[i + 1] - m \in 0 .. g
  <2> TAKE i \in 0 .. h
  <2> DEFINE z == off[i + 1]
  <2>1. z \in 0 .. l /\ m <= z
    BY <1>12
  <2> HIDE DEF z
  <2>2. z - m \in 0 .. g
    BY <1>1, <2>1
  <2> QED BY <2>2 DEF z
<1> HIDE DEF g
<1>14. o \in [0 .. h -> 0 .. g] /\ \A i \in 0 .. h : o[i] = off[i + 1] - m
  BY <1>13
<1> HIDE DEF o
<1>15. o[0] = 0 /\ o[h] = g
  <2>1. o[0] = m - m
    <3>1. o[0] = off[0 + 1] - m
      BY <1>11, <1>14
    <3> QED BY <1>6, <1>11, <3>1
  <2>2. o[h] = l - m
    <3>1. o[h] = off[h + 1] - m
      BY <1>11, <1>14
    <3> QED BY <1>2, <1>11, <3>1
  <2> QED BY <1>1, <2>1, <2>2 DEF g
<1>16. \A i, j \in 0 .. h : i <= j => o[i] <= o[j]
  <2> SUFFICES ASSUME NEW i \in 0 .. h, NEW j \in 0 .. h, i <= j
               PROVE  o[i] <= o[j]
    OBVIOUS
  <2>1. i + 1 \in 0 .. n /\ j + 1 \in 0 .. n /\ i + 1 <= j + 1
    BY <1>11
  <2>2. off[i + 1] <= off[j + 1]
    BY <1>2, <2>1
  <2> DEFINE a == off[i + 1]
             b == off[j + 1]
  <2>3. a \in 0 .. l /\ b \in 0 .. l
    BY <1>12
  <2>4. o[i] = a - m /\ o[j] = b - m
    BY <1>14
  <2> HIDE DEF a, b
  <2>5. a <= b
    BY <2>2 DEF a, b
  <2> QED BY <1>1, <2>3, <2>4, <2>5
<1>17. ASSUME NEW i \in 1 .. h
       PROVE  /\ o[i] = o[i - 1] + Len(UnitsOf(p, v[i]))
              /\ \A j \in 1 .. Len(UnitsOf(p, v[i])) :
                   w[o[i - 1] + j] = UnitsOf(p, v[i])[j]
  <2> DEFINE x == UnitsOf(p, v[i])
             a == off[i]
             b == off[i + 1]
  <2>1. v[i] = q[i + 1] /\ i + 1 \in 1 .. n
    BY <1>3, <1>11 DEF h
  <2>2. /\ b = a + Len(x)
        /\ \A j \in 1 .. Len(x) : r[a + j] = x[j]
    <3> DEFINE i1 == i + 1
    <3>1. i1 - 1 = i /\ i1 \in 1 .. n
      BY <1>11
    <3>2. /\ off[i1] = off[i1 - 1] + Len(UnitsOf(p, q[i1]))
          /\ \A j \in 1 .. Len(UnitsOf(p, q[i1])) :
               r[off[i1 - 1] + j] = UnitsOf(p, q[i1])[j]
      BY <1>2, <3>1
    <3> QED BY <2>1, <3>1, <3>2
  <2>3. o[i] = b - m /\ o[i - 1] = a - m
    BY <1>11, <1>14
  <2>4. /\ a \in 0 .. l /\ b \in 0 .. l /\ m <= a /\ m <= b
    BY <1>11, <1>12
  <2>5. Len(x) \in Nat
    BY <1>4, <2>1
  <2> HIDE DEF x, a, b
  <2>6. \A j \in 1 .. Len(x) : /\ a - m + j \in 1 .. l - m
                               /\ m + (a - m + j) = a + j
    <3> DEFINE c == Len(x)
    <3>1. c \in Nat /\ b = a + c
      BY <2>2, <2>5
    <3> HIDE DEF c
    <3>2. \A j \in 1 .. c : /\ a - m + j \in 1 .. l - m
                            /\ m + (a - m + j) = a + j
      BY <1>1, <2>4, <3>1
    <3> QED BY <3>2 DEF c
  <2>7. \A j \in 1 .. Len(x) : w[a - m + j] = x[j]
    <3> TAKE j \in 1 .. Len(x)
    <3>1. w[a - m + j] = r[m + (a - m + j)]
      BY <1>8, <2>6
    <3> QED BY <2>2, <2>6, <3>1
  <2>8. o[i] = o[i - 1] + Len(x)
    BY <1>1, <2>2, <2>3, <2>4, <2>5
  <2> QED BY <2>3, <2>7, <2>8 DEF x
<1>18. Queued(p, v, w)
  <2>1. Len(v) = h /\ Len(w) = g
    BY <1>3, <1>8 DEF h, g
  <2> HIDE DEF g
  <2>2. /\ o \in [0 .. h -> 0 .. g] /\ o[0] = 0 /\ o[h] = g
        /\ \A i, j \in 0 .. h : i <= j => o[i] <= o[j]
    BY <1>14, <1>15, <1>16
  <2>3. Laid(p, v, w, o)
    BY ONLY <1>17, <2>1, <2>2 DEF Laid
  <2>4. o \in [0 .. Len(v) -> 0 .. Len(w)]
    BY <2>1, <2>2
  <2> QED BY ONLY <2>3, <2>4 DEF Queued
<1> QED BY <1>8, <1>9, <1>18 DEF v

-----------------------------------------------------------------------------
(* What the engine still owes of a port besides the beat on show.          *)

\* The segments whose units are all in the FIFO: the one that is split has
\* given all but the unit in the shift register.
Waits(p) == IF split1 /\ port_reg = p THEN Tail(fifo[p]) ELSE fifo[p]

\* The unit shifted out of the last beat goes before them.
Shifted(p) ==
  IF frame_reg /\ port_reg = p
    THEN <<[unit |-> out_shift_reg, sop |-> FALSE, eop |-> tlp_split1_reg]>>
    ELSE <<>>

\* The next of these segments starts a TLP, and what is pushed next does.
NextStarts(p) == ~(frame_reg /\ port_reg = p /\ ~tlp_split1_reg)
NoMore(p) == p = "wr" => wr_src = NoTlp

\* Segments that make whole TLPs, up to a first and a last one that may not.
Chain(q, first, last) ==
  /\ q = <<>> => (first <=> last)
  /\ q # <<>> => (q[1].sop <=> first) /\ (q[Len(q)].eop <=> last)
  /\ \A i \in 1 .. Len(q) - 1 : q[i + 1].sop <=> q[i].eop

Chains == \A p \in Ports : Chain(Waits(p), NextStarts(p), NoMore(p))

\* A split segment is still there for its second beat.
SplitHeld == split1 => fifo[port_reg] # <<>> /\ Extra(port_reg)

\* The core's open TLP is the engine's, one beat ahead.
SinkOnPort ==
  frame_reg => port_reg = IF m_axis_rq.tvalid THEN SinkPort ELSE sink

\* What a port pushed and the core has not read is on show, shifted out, or in
\* the FIFO, in this order.
Ledger ==
  \A p \in Ports :
    /\ UnitsShown(p) \in Seq(Words)
    /\ \E rest \in Seq(Words) :
         /\ Queued(p, Waits(p), rest)
         /\ owed[p] = (UnitsShown(p) \o Shifted(p)) \o rest

LInv == /\ Chains /\ SplitHeld /\ SinkOnPort /\ Ledger
        /\ out_shift_reg \in Units

LEMMA ChainPush ==
  ASSUME NEW Q, NEW q \in Seq(Q), NEW a, NEW z, NEW y, NEW s \in Q,
         Chain(q, a, z), s.sop <=> z, s.eop <=> y
  PROVE  Chain(Append(q, s), a, y)
<1> DEFINE n == Len(q)
           v == Append(q, s)
<1>1. /\ n \in Nat /\ v # <<>> /\ Len(v) = n + 1 /\ v[n + 1] = s
      /\ \A i \in 1 .. n : v[i] = q[i]
      /\ q = <<>> <=> n = 0
  OBVIOUS
<1>2. /\ n = 0 => (a <=> z)
      /\ n # 0 => (q[1].sop <=> a) /\ (q[n].eop <=> z)
      /\ \A i \in 1 .. n - 1 : q[i + 1].sop <=> q[i].eop
  BY <1>1 DEF Chain
<1> HIDE DEF n, v
<1>3. v[1].sop <=> a
  <2>1. CASE n = 0
    BY <1>1, <1>2, <2>1
  <2>2. CASE n # 0
    <3>1. v[1] = q[1]
      BY <1>1, <2>2
    <3> QED BY <1>2, <2>2, <3>1
  <2> QED BY <2>1, <2>2
<1>4. ASSUME NEW i \in 1 .. n PROVE v[i + 1].sop <=> v[i].eop
  <2>1. CASE i = n
    <3>1. v[i + 1] = s /\ v[i] = q[n] /\ n # 0
      BY <1>1, <2>1
    <3> QED BY <1>2, <3>1
  <2>2. CASE i # n
    <3>1. i \in 1 .. n - 1 /\ i + 1 \in 1 .. n
      BY <1>1, <2>2
    <3> QED BY <1>1, <1>2, <3>1
  <2> QED BY <2>1, <2>2
<1>5. n + 1 - 1 = n
  BY <1>1
<1>6. Chain(v, a, y)
  BY <1>1, <1>3, <1>4, <1>5 DEF Chain
<1> QED BY <1>6 DEF v

LEMMA ChainPop ==
  ASSUME NEW Q, NEW q \in Seq(Q), q # <<>>, NEW a, NEW z, Chain(q, a, z)
  PROVE  /\ Head(q).sop <=> a
         /\ Chain(Tail(q), Head(q).eop, z)
<1> DEFINE n == Len(q)
           h == n - 1
           v == Tail(q)
<1>1. /\ n \in Nat /\ n > 0 /\ Len(v) = h /\ Head(q) = q[1]
      /\ \A i \in 1 .. h : v[i] = q[i + 1]
      /\ v = <<>> <=> h = 0
  <2>1. v \in Seq(Q) /\ n \in Nat /\ n > 0 /\ Len(v) = h /\ Head(q) = q[1]
    OBVIOUS
  <2>2. \A i \in 1 .. h : v[i] = q[i + 1]
    OBVIOUS
  <2> HIDE DEF n, h, v
  <2>3. v = <<>> <=> h = 0
    BY <2>1
  <2> QED BY <2>1, <2>2, <2>3
<1>2. /\ (q[1].sop <=> a) /\ (q[n].eop <=> z)
      /\ \A i \in 1 .. n - 1 : q[i + 1].sop <=> q[i].eop
  BY DEF Chain
<1> HIDE DEF n, v
<1>3. h = 0 => (q[1].eop <=> z)
  BY <1>1, <1>2
<1>4. h # 0 => (v[1].sop <=> q[1].eop) /\ (v[h].eop <=> z)
  <2> SUFFICES ASSUME h # 0
               PROVE  (v[1].sop <=> q[1].eop) /\ (v[h].eop <=> z)
    OBVIOUS
  <2>1. 1 \in 1 .. h /\ h \in 1 .. h /\ h + 1 = n /\ 1 + 1 \in 1 .. n
    BY <1>1
  <2>2. v[1] = q[1 + 1] /\ v[h] = q[n]
    BY <1>1, <2>1
  <2> QED BY <1>2, <2>1, <2>2
<1>5. \A i \in 1 .. h - 1 : v[i + 1].sop <=> v[i].eop
  <2> TAKE i \in 1 .. h - 1
  <2>1. i \in 1 .. h /\ i + 1 \in 1 .. h /\ i + 1 \in 1 .. n - 1
    BY <1>1
  <2>2. v[i] = q[i + 1] /\ v[i + 1] = q[i + 1 + 1]
    BY <1>1, <2>1
  <2> QED BY <1>2, <2>1, <2>2
<1>6. Chain(v, q[1].eop, z)
  BY <1>1, <1>3, <1>4, <1>5 DEF Chain
<1> QED BY <1>1, <1>2, <1>6 DEF v

LEMMA SameList ==
  ASSUME NEW W, NEW a \in Seq(W), NEW c \in Seq(W), Len(a) = Len(c),
         \A i \in 1 .. Len(a) : a[i] = c[i]
  PROVE  a = c
OBVIOUS

\* A list and one more, in front or behind.
LEMMA OneBefore ==
  ASSUME NEW W, NEW x \in W, NEW q \in Seq(W), NEW n, n = Len(q)
  PROVE  /\ <<x>> \o q \in Seq(W) /\ Len(<<x>> \o q) = n + 1
         /\ (<<x>> \o q)[1] = x
         /\ \A i \in 1 .. n : (<<x>> \o q)[i + 1] = q[i]
<1> DEFINE a == <<x>>
<1>1. a \in Seq(W) /\ Len(a) = 1 /\ a[1] = x /\ n \in Nat
  OBVIOUS
<1> HIDE DEF a
<1> DEFINE k == Len(a)
<1> HIDE DEF k
<1>0. k = Len(a) /\ n = Len(q) /\ q \in Seq(W) /\ a \in Seq(W)
  BY <1>1 DEF k
<1>2. /\ a \o q \in Seq(W) /\ Len(a \o q) = k + n
      /\ \A i \in 1 .. k : (a \o q)[i] = a[i]
      /\ \A i \in 1 .. n : (a \o q)[k + i] = q[i]
  <2>1. a \o q \in Seq(W) /\ Len(a \o q) = k + n
    BY ONLY <1>0, TwoLists
  <2>2. \A i \in 1 .. k : (a \o q)[i] = a[i]
    BY ONLY <1>0, TwoLists
  <2>3. \A i \in 1 .. n : (a \o q)[k + i] = q[i]
    BY ONLY <1>0, TwoLists
  <2> QED BY ONLY <2>1, <2>2, <2>3
<1>3. k + n = n + 1 /\ 1 \in 1 .. k /\ \A i \in 1 .. n : k + i = i + 1
  BY <1>1 DEF k
<1> QED BY <1>1, <1>2, <1>3 DEF a

LEMMA OneBehind ==
  ASSUME NEW W, NEW x \in W, NEW q \in Seq(W), NEW n, n = Len(q)
  PROVE  /\ q \o <<x>> \in Seq(W) /\ Len(q \o <<x>>) = n + 1
         /\ (q \o <<x>>)[n + 1] = x
         /\ \A i \in 1 .. n : (q \o <<x>>)[i] = q[i]
<1> DEFINE a == <<x>>
<1>1. a \in Seq(W) /\ Len(a) = 1 /\ a[1] = x /\ n \in Nat
  OBVIOUS
<1> HIDE DEF a
<1> DEFINE k == Len(a)
<1> HIDE DEF k
<1>0. k = Len(a) /\ n = Len(q) /\ q \in Seq(W) /\ a \in Seq(W)
  BY <1>1 DEF k
<1>2. /\ q \o a \in Seq(W) /\ Len(q \o a) = n + k
      /\ \A i \in 1 .. n : (q \o a)[i] = q[i]
      /\ \A i \in 1 .. k : (q \o a)[n + i] = a[i]
  <2>1. q \o a \in Seq(W) /\ Len(q \o a) = n + k
    BY ONLY <1>0, TwoLists
  <2>2. \A i \in 1 .. n : (q \o a)[i] = q[i]
    BY ONLY <1>0, TwoLists
  <2>3. \A i \in 1 .. k : (q \o a)[n + i] = a[i]
    BY ONLY <1>0, TwoLists
  <2> QED BY ONLY <2>1, <2>2, <2>3
<1>3. 1 \in 1 .. k /\ k = 1
  BY <1>1 DEF k
<1> QED BY <1>1, <1>2, <1>3 DEF a

-----------------------------------------------------------------------------
(* A beat that is loaded, and the unit shifted out of it.                  *)

\* The core reads c units off the beat that is loaded.
ReadAs(p, c, eop) ==
  UnitsShown(p)' = [i \in 1 .. c |-> [unit |-> m_axis_rq'.data[i - 1],
                                     sop  |-> i = 1 /\ ~frame_reg,
                                     eop  |-> i = c /\ eop]]

LEMMA BeatRead ==
  ASSUME FInv, NEW p \in Ports, Granted(p),
         NEW eop \in BOOLEAN, NEW split2 \in BOOLEAN,
         Emit(p, eop, split2),
         eop \/ (~split2 /\ Seg(p).n = SegUnits),
         sink' = NoPort <=> ~frame_reg, frame_reg => sink' = p,
         RQ_STRADDLE_ENC \in BOOLEAN, RQ_STRADDLE_ENC' = RQ_STRADDLE_ENC,
         NEW c, c = StrobeCount(p, split2)
  PROVE  /\ c \in 1 .. SegUnits
         /\ m_axis_rq'.tvalid /\ SinkPort' = p
         /\ UnitCount' = c /\ (Starts' <=> ~frame_reg)
         /\ ReadAs(p, c, eop)
         /\ \A q \in Ports \ {p} : UnitsShown(q)' = <<>>
<1>1. frame_reg \in BOOLEAN
  BY DEF FInv, FrameOneAhead
<1>2. /\ m_axis_rq'.tvalid = TRUE
      /\ m_axis_rq'.is_sop = (RQ_STRADDLE_ENC /\ ~frame_reg)
      /\ m_axis_rq'.is_eop = (RQ_STRADDLE_ENC /\ eop)
      /\ m_axis_rq'.tlast = (~RQ_STRADDLE_ENC /\ eop)
      /\ m_axis_rq'.seq_num = rq_seq(p)
  BY Zenon DEF Emit, Beat, Header
<1>3. /\ m_axis_rq'.tkeep = IF RQ_STRADDLE_ENC THEN {} ELSE Strb(p, split2)
      /\ m_axis_rq'.eop_ptr = Highest(Strb(p, split2))
  BY Zenon DEF Emit, Beat
<1>4. c \in 1 .. SegUnits /\ Strb(p, split2) = 0 .. c - 1
  BY StrobesAreARun
<1>5. (Ends' <=> eop) /\ (Starts' <=> ~frame_reg)
  BY <1>1, <1>2 DEF Ends, Starts
<1>6. SinkPort' = p
  <2>1. CASE frame_reg
    BY <1>5, <2>1 DEF SinkPort
  <2>2. CASE ~frame_reg
    <3>1. Seg(p).seq \in SeqNums
      BY ShownSegment DEF FInv, Segments
    <3>2. PortOf(rq_seq(p)) = p
      BY <3>1, FlagAssumption DEF PortOf, rq_seq, SeqNums, Ports
    <3> QED BY <1>2, <1>5, <2>2, <3>2 DEF SinkPort
  <2> QED BY <2>1, <2>2
<1>7. UnitCount' = c
  <2>1. ~eop => c = SegUnits
    BY SegUnitsAssumption DEF StrobeCount
  <2>2. CASE ~RQ_STRADDLE_ENC
    <3>1. Cardinality(0 .. c - 1) = c
      <4> DEFINE b == c - 1
      <4>1. 0 \in Int /\ b \in Int /\ 0 <= b /\ b - 0 + 1 = c
        BY <1>4
      <4> HIDE DEF b
      <4>2. Cardinality(0 .. b) = IF 0 > b THEN 0 ELSE b - 0 + 1
        BY <4>1, FS_Interval
      <4> QED BY <4>1, <4>2 DEF b
    <3>2. m_axis_rq'.tkeep = 0 .. c - 1
      BY <1>3, <1>4, <2>2
    <3>3. UnitCount' = Cardinality(m_axis_rq'.tkeep)
      BY <1>2, <2>2 DEF UnitCount
    <3> QED BY <3>1, <3>2, <3>3
  <2>3. CASE RQ_STRADDLE_ENC /\ eop
    <3>1. Highest(0 .. c - 1) = c - 1
      <4> DEFINE b == c - 1
      <4>1. b \in Nat
        BY <1>4
      <4> HIDE DEF b
      <4>2. 0 .. b # {} /\ b \in 0 .. b /\ \A j \in 0 .. b : j <= b
        BY <4>1
      <4>3. \A i \in 0 .. b : (\A j \in 0 .. b : j <= i) => i = b
        BY <4>1
      <4>4. Highest(0 .. b) = b
        BY <4>2, <4>3 DEF Highest
      <4> QED BY <4>4 DEF b
    <3>2. m_axis_rq'.eop_ptr + 1 = c
      BY <1>3, <1>4, <3>1
    <3> QED BY <1>2, <2>3, <3>2 DEF UnitCount
  <2>4. CASE RQ_STRADDLE_ENC /\ ~eop
    BY <1>2, <2>1, <2>4 DEF UnitCount
  <2> QED BY <2>2, <2>3, <2>4
<1>8. ReadAs(p, c, eop)
  <2>1. UnitsShown(p)' =
          [i \in 1 .. UnitCount' |-> [unit |-> m_axis_rq'.data[i - 1],
                                      sop  |-> i = 1 /\ Starts',
                                      eop  |-> i = UnitCount' /\ Ends']]
    BY <1>2, <1>6 DEF UnitsShown
  <2> QED BY <1>5, <1>7, <2>1 DEF ReadAs
<1>9. \A q \in Ports \ {p} : UnitsShown(q)' = <<>>
  BY <1>6 DEF UnitsShown
<1> QED BY <1>2, <1>4, <1>5, <1>6, <1>7, <1>8, <1>9

\* What the lanes of the loaded beat carry.
LEMMA BeatData ==
  ASSUME NEW p \in Ports, NEW eop, NEW split2, Emit(p, eop, split2),
         Seg(p) \in Segments
  PROVE  /\ m_axis_rq'.data[0] = IF frame_reg THEN out_shift_reg
                                              ELSE <<p, Seg(p).seq, 0>>
         /\ \A i \in 1 .. SegUnits - 1 :
              i <= Seg(p).n => m_axis_rq'.data[i]
                                 = <<p, Seg(p).seq, Seg(p).first + i - 1>>
         /\ out_shift_reg' \in Units
         /\ Seg(p).n = SegUnits =>
              out_shift_reg'
                = <<p, Seg(p).seq, Seg(p).first + SegUnits - 1>>
<1>1. m_axis_rq'.data = [i \in Lanes |->
                  IF i > 0 THEN Unit(p, Seg(p), i - 1)
                           ELSE IF Header THEN <<p, Seg(p).seq, 0>>
                                          ELSE out_shift_reg]
  BY Zenon DEF Emit, Beat
<1>2. 0 \in Lanes /\ ~(0 > 0) /\ \A i \in 1 .. SegUnits - 1 : i \in Lanes /\ i > 0
  BY SegUnitsAssumption DEF Lanes
<1>3. m_axis_rq'.data[0] = IF frame_reg THEN out_shift_reg
                                        ELSE <<p, Seg(p).seq, 0>>
  BY <1>1, <1>2 DEF Header
<1>4. /\ Seg(p).seq \in SeqNums /\ Seg(p).first \in Nat /\ Seg(p).n \in Nat
  BY DEF Segments
<1>5. ASSUME NEW i \in 1 .. SegUnits - 1, i <= Seg(p).n
      PROVE  m_axis_rq'.data[i] = <<p, Seg(p).seq, Seg(p).first + i - 1>>
  <2>1. m_axis_rq'.data[i] = Unit(p, Seg(p), i - 1)
    BY <1>1, <1>2
  <2>2. i - 1 < Seg(p).n /\ Seg(p).first + (i - 1) = Seg(p).first + i - 1
    BY <1>4, <1>5
  <2> QED BY <2>1, <2>2 DEF Unit
<1>6. out_shift_reg' = Unit(p, Seg(p), SegUnits - 1)
  BY DEF Emit
<1>7. /\ SegUnits - 1 \in Nat /\ SegUnits - 1 < SegUnits
      /\ Seg(p).first + (SegUnits - 1) = Seg(p).first + SegUnits - 1
  BY <1>4, SegUnitsAssumption
<1>8. out_shift_reg' \in Units
  <2>1. <<p, Seg(p).seq, Seg(p).first + (SegUnits - 1)>> \in Units
    BY <1>4, <1>7 DEF Units
  <2>2. Blank \in Units
    BY DEF Units
  <2> QED BY <1>6, <2>1, <2>2 DEF Unit
<1> QED BY <1>3, <1>5, <1>6, <1>7, <1>8 DEF Unit

\* The units a beat takes from the front of a FIFO and the shift register are
\* the next ones of the TLP: those on show, then the one shifted out.
LEMMA BeatContinues ==
  ASSUME FInv, NEW p \in Ports, Granted(p), ~split1, NEW eop \in BOOLEAN,
         Emit(p, eop, FALSE), out_shift_reg \in Units,
         frame_reg' = ~eop, tlp_split1_reg' = (Seg(p).eop /\ ~eop),
         eop => Seg(p).eop /\ Seg(p).n < SegUnits,
         ~eop => Seg(p).n = SegUnits,
         Seg(p).sop <=> ~frame_reg,
         sink' = NoPort <=> ~frame_reg, frame_reg => sink' = p,
         RQ_STRADDLE_ENC \in BOOLEAN, RQ_STRADDLE_ENC' = RQ_STRADDLE_ENC
  PROVE  /\ UnitsShown(p)' \in Seq(Words) /\ Shifted(p)' \in Seq(Words)
         /\ UnitsShown(p)' \o Shifted(p)'
              = Shifted(p) \o UnitsOf(p, Seg(p))
<1> DEFINE s == Seg(p)
           n == s.n
           c == StrobeCount(p, FALSE)
           J(i) == [unit |-> IF i = 1 THEN IF frame_reg THEN out_shift_reg
                                                        ELSE <<p, s.seq, 0>>
                                      ELSE <<p, s.seq, s.first + i - 2>>,
                    sop  |-> i = 1 /\ ~frame_reg,
                    eop  |-> i = n + 1 /\ s.eop]
<1>1. /\ s \in Segments /\ s.seq \in SeqNums /\ s.first \in Nat
      /\ n \in 0 .. SegUnits /\ s.sop \in BOOLEAN /\ s.eop \in BOOLEAN
      /\ IF s.sop THEN s.first = 1 ELSE n > 0
  BY ShownSegment DEF FInv, Segments, FullOrLast, Told
<1>2. frame_reg \in BOOLEAN /\ (frame_reg => port_reg = p /\ ~tlp_split1_reg)
  BY DEF FInv, FrameOneAhead, Granted, split1
<1>3. port_reg' = p
  BY DEF Emit
<1>4. c = IF eop THEN n + 1 ELSE n
  BY <1>1, SegUnitsAssumption DEF StrobeCount
<1>5. /\ c \in 1 .. SegUnits
      /\ UnitsShown(p)' = [i \in 1 .. c |-> UnitsShown(p)'[i]]
      /\ \A i \in 1 .. c :
           UnitsShown(p)'[i] = [unit |-> m_axis_rq'.data[i - 1],
                                sop  |-> i = 1 /\ ~frame_reg,
                                eop  |-> i = c /\ eop]
  <2>1. FALSE \in BOOLEAN /\ (eop \/ (~FALSE /\ Seg(p).n = SegUnits))
    OBVIOUS
  <2>2. c = StrobeCount(p, FALSE)
    OBVIOUS
  <2> HIDE DEF s, n, c
  <2>3. c \in 1 .. SegUnits /\ ReadAs(p, c, eop)
    BY <2>1, <2>2, BeatRead
  <2>4. UnitsShown(p)' =
          [i \in 1 .. c |-> [unit |-> m_axis_rq'.data[i - 1],
                             sop  |-> i = 1 /\ ~frame_reg,
                             eop  |-> i = c /\ eop]]
    BY <2>3 DEF ReadAs
  <2> QED BY <2>3, <2>4
<1>6. /\ m_axis_rq'.data[0] = IF frame_reg THEN out_shift_reg
                                           ELSE <<p, s.seq, 0>>
      /\ \A i \in 1 .. SegUnits - 1 :
           i <= n => m_axis_rq'.data[i] = <<p, s.seq, s.first + i - 1>>
      /\ n = SegUnits =>
           out_shift_reg' = <<p, s.seq, s.first + SegUnits - 1>>
  BY <1>1, BeatData
<1>7. \A i \in 1 .. n + 1 : J(i) \in Words
  <2> TAKE i \in 1 .. n + 1
  <2> DEFINE u == IF i = 1 THEN IF frame_reg THEN out_shift_reg
                                             ELSE <<p, s.seq, 0>>
                           ELSE <<p, s.seq, s.first + i - 2>>
  <2>1. i # 1 => s.first + i - 2 \in Nat
    BY <1>1
  <2>2. u \in Units
    BY <1>1, <2>1 DEF Units
  <2>3. (i = 1 /\ ~frame_reg) \in BOOLEAN /\ (i = n + 1 /\ s.eop) \in BOOLEAN
    OBVIOUS
  <2> HIDE DEF u
  <2>4. [unit |-> u, sop |-> (i = 1 /\ ~frame_reg),
         eop |-> (i = n + 1 /\ s.eop)] \in Words
    BY <2>2, <2>3, IsWord
  <2> QED BY <2>4 DEF u
<1> HIDE DEF s, n, c
\* What the units of the segment are.
<1>8. DEFINE L == Shifted(p) \o UnitsOf(p, s)
<1>9. /\ L \in Seq(Words) /\ Len(L) = n + 1
      /\ \A i \in 1 .. n + 1 : L[i] = J(i)
  <2> DEFINE u == UnitsOf(p, s)
  <2>1. /\ u \in Seq(Words)
        /\ Len(u) = IF s.sop THEN n + 1 ELSE n
        /\ \A i \in 1 .. Len(u) :
             u[i] = [unit |-> <<p, s.seq, (IF s.sop THEN 0 ELSE s.first) + i - 1>>,
                     sop  |-> s.sop /\ i = 1,
                     eop  |-> s.eop /\ i = Len(u)]
    BY <1>1, UnitsList DEF n
  <2> HIDE DEF u
  <2>2. CASE frame_reg
    <3>1. ~s.sop
      BY <2>2 DEF s
    <3> DEFINE x == [unit |-> out_shift_reg, sop |-> FALSE,
                     eop |-> tlp_split1_reg]
    <3>2. Shifted(p) = <<x>>
      BY <1>2, <2>2 DEF Shifted
    <3>3. x = J(1)
      <4>1. (1 = 1 /\ ~frame_reg) = FALSE
        BY <2>2
      <4>2. (1 = n + 1 /\ s.eop) = FALSE
        BY <1>1, <3>1
      <4>3. tlp_split1_reg = FALSE
        BY <1>2, <2>2
      <4> QED BY <2>2, <4>1, <4>2, <4>3
    <3> HIDE DEF x, J
    <3>4. x \in Words
      BY <1>1, <1>7, <3>3
    <3>5. n = Len(u) /\ u \in Seq(Words)
      BY <2>1, <3>1
    <3>6. /\ L \in Seq(Words) /\ Len(L) = n + 1 /\ L[1] = x
          /\ \A i \in 1 .. n : L[i + 1] = u[i]
      <4>1. /\ <<x>> \o u \in Seq(Words) /\ Len(<<x>> \o u) = n + 1
            /\ (<<x>> \o u)[1] = x
            /\ \A i \in 1 .. n : (<<x>> \o u)[i + 1] = u[i]
        BY ONLY <3>4, <3>5, OneBefore
      <4> QED BY <3>2, <4>1 DEF u
    <3>7. ASSUME NEW i \in 1 .. n PROVE u[i] = J(i + 1)
      <4>1. u[i] = [unit |-> <<p, s.seq, s.first + i - 1>>,
                    sop  |-> FALSE, eop |-> s.eop /\ i = n]
        BY <2>1, <3>1, <3>5
      <4>2. /\ i + 1 # 1 /\ s.first + (i + 1) - 2 = s.first + i - 1
            /\ (i + 1 = n + 1 <=> i = n)
        BY <1>1
      <4>3. (i + 1 = 1 /\ ~frame_reg) = FALSE
            /\ (i + 1 = n + 1 /\ s.eop) = (s.eop /\ i = n)
        BY <4>2
      <4> QED BY <4>1, <4>2, <4>3 DEF J
    <3>8. \A i \in 1 .. n + 1 : i = 1 \/ (i - 1 \in 1 .. n /\ i - 1 + 1 = i)
      BY <1>1
    <3>9. ASSUME NEW i \in 1 .. n + 1 PROVE L[i] = J(i)
      <4>1. CASE i = 1
        BY <3>3, <3>6, <4>1
      <4>2. CASE i # 1
        <5>1. L[i - 1 + 1] = u[i - 1] /\ u[i - 1] = J(i - 1 + 1)
          BY <3>6, <3>7, <3>8, <4>2
        <5> QED BY <3>8, <4>2, <5>1
      <4> QED BY <4>1, <4>2
    <3> QED BY <3>6, <3>9
  <2>3. CASE ~frame_reg
    <3>1. s.sop /\ s.first = 1
      BY <1>1, <2>3 DEF s
    <3>2. Shifted(p) = <<>>
      BY <2>3 DEF Shifted
    <3>3. L = u
      BY <2>1, <3>2, EmptyRight DEF u
    <3>4. Len(u) = n + 1
      BY <2>1, <3>1
    <3> HIDE DEF L
    <3>5. ASSUME NEW i \in 1 .. n + 1 PROVE u[i] = J(i)
      <4>1. u[i] = [unit |-> <<p, s.seq, 0 + i - 1>>,
                    sop  |-> s.sop /\ i = 1, eop |-> s.eop /\ i = n + 1]
        BY <2>1, <3>1, <3>4
      <4>2. /\ s.first + i - 2 = 0 + i - 1
            /\ 0 + 1 - 1 = 0
        BY <3>1
      <4>3. (s.sop /\ i = 1) = (i = 1 /\ ~frame_reg)
            /\ (i = n + 1 /\ s.eop) = (s.eop /\ i = n + 1)
        BY <2>3, <3>1
      <4> QED BY <2>3, <4>1, <4>2, <4>3
    <3> QED BY <2>1, <3>3, <3>4, <3>5
  <2> QED BY <1>2, <2>2, <2>3
<1> HIDE DEF L
\* What is on show, and shifted out.
<1>10. DEFINE S == UnitsShown(p)'
<1>11. ASSUME NEW i \in 1 .. c
       PROVE  S[i] = [unit |-> IF i = 1 THEN IF frame_reg THEN out_shift_reg
                                                         ELSE <<p, s.seq, 0>>
                                        ELSE <<p, s.seq, s.first + i - 2>>,
                      sop  |-> i = 1 /\ ~frame_reg,
                      eop  |-> i = c /\ eop]
  <2>1. S[i] = [unit |-> m_axis_rq'.data[i - 1],
                sop  |-> i = 1 /\ ~frame_reg, eop |-> i = c /\ eop]
    BY <1>5
  <2>2. CASE i = 1
    <3>1. i - 1 = 0
      BY <2>2
    <3> QED BY <1>6, <2>1, <2>2, <3>1
  <2>3. CASE i # 1
    <3>1. /\ i - 1 \in 1 .. SegUnits - 1 /\ i - 1 <= n
          /\ s.first + (i - 1) - 1 = s.first + i - 2
      BY <1>1, <1>4, <1>5, <2>3, SegUnitsAssumption
    <3>2. m_axis_rq'.data[i - 1] = <<p, s.seq, s.first + (i - 1) - 1>>
      BY <1>6, <3>1
    <3> QED BY <2>1, <2>3, <3>1, <3>2
  <2> QED BY <2>2, <2>3
<1>12. ASSUME NEW i \in 1 .. c PROVE S[i] = J(i)
  <2>1. (i = c /\ eop) = (i = n + 1 /\ s.eop)
    <3>1. eop => s.eop /\ c = n + 1
      BY <1>4 DEF s
    <3>2. ~eop => i # n + 1
      BY <1>1, <1>4, <1>5
    <3> QED BY <3>1, <3>2
  <2> QED BY <1>11, <2>1
<1>13. S \in Seq(Words) /\ Len(S) = c
  <2>1. S = [i \in 1 .. c |-> S[i]]
    BY <1>5
  <2>2. \A i \in 1 .. c : i \in 1 .. n + 1
    BY <1>1, <1>4, <1>5
  <2> HIDE DEF S, J
  <2>3. c \in Nat /\ \A i \in 1 .. c : S[i] \in Words
    BY <1>5, <1>7, <1>12, <2>2
  <2> QED BY ONLY <2>1, <2>3, IsList
<1> HIDE DEF S
<1>14. CASE eop
  <2>1. Shifted(p)' = <<>>
    BY <1>14 DEF Shifted
  <2>2. S \o Shifted(p)' = S
    BY <1>13, <2>1, EmptyRight
  <2>3. Len(S) = Len(L) /\ \A i \in 1 .. Len(S) : S[i] = L[i]
    <3>1. c = n + 1 /\ Len(S) = n + 1 /\ Len(L) = n + 1
      BY <1>4, <1>9, <1>13, <1>14
    <3> HIDE DEF J
    <3>2. \A i \in 1 .. n + 1 : S[i] = L[i]
      BY <1>9, <1>12, <3>1
    <3> QED BY <3>1, <3>2
  <2>4. S = L
    BY <1>9, <1>13, <2>3, SameList
  <2> QED BY <1>13, <2>1, <2>2, <2>4 DEF S, L, s
<1>15. CASE ~eop
  <2> DEFINE y == [unit |-> out_shift_reg', sop |-> FALSE,
                   eop |-> tlp_split1_reg']
  <2>1. Shifted(p)' = <<y>>
    BY <1>3, <1>15 DEF Shifted
  <2>2. n = SegUnits /\ n \in 1 .. SegUnits /\ c = n
    BY <1>1, <1>4, <1>15, SegUnitsAssumption DEF s, n
  <2>3. y = J(n + 1)
    <3>1. out_shift_reg' = <<p, s.seq, s.first + (n + 1) - 2>>
      <4>1. s.first + (n + 1) - 2 = s.first + SegUnits - 1
        BY <1>1, <2>2
      <4> QED BY <1>6, <2>2, <4>1
    <3>2. n + 1 # 1 /\ ((n + 1 = 1 /\ ~frame_reg) = FALSE)
      BY <2>2
    <3>3. tlp_split1_reg' = (n + 1 = n + 1 /\ s.eop)
      BY <1>1, <1>15 DEF s
    <3> QED BY <3>1, <3>2, <3>3
  <2> HIDE DEF y, J
  <2>4. y \in Words
    BY <1>1, <1>7, <2>3
  <2>5. n = Len(S) /\ S \in Seq(Words)
    BY <1>13, <2>2
  <2> DEFINE R == S \o <<y>>
  <2>6. /\ R \in Seq(Words) /\ Len(R) = n + 1 /\ R[n + 1] = y
        /\ \A i \in 1 .. n : R[i] = S[i]
    BY ONLY <2>4, <2>5, OneBehind
  <2> HIDE DEF R
  <2>7. ASSUME NEW i \in 1 .. n + 1 PROVE R[i] = L[i]
    <3>1. CASE i = n + 1
      BY <1>9, <2>3, <2>6, <3>1
    <3>2. CASE i # n + 1
      <4>1. i \in 1 .. n
        BY <1>1, <3>2
      <4> QED BY <1>9, <1>12, <2>2, <2>6, <4>1
    <3> QED BY <3>1, <3>2
  <2>8. R = L
    BY <1>9, <2>6, <2>7, SameList
  <2>9. <<y>> \in Seq(Words)
    BY <2>4
  <2> QED BY <1>13, <2>1, <2>8, <2>9 DEF R, S, L, s
<1> QED BY <1>14, <1>15

\* The second beat of a split shows what was shifted out of the first.
LEMMA BeatEndsSplit ==
  ASSUME FInv, NEW p \in Ports, Granted(p), split1,
         Emit(p, TRUE, TRUE), out_shift_reg \in Units,
         frame_reg' = FALSE, tlp_split1_reg \in BOOLEAN,
         sink' = NoPort <=> ~frame_reg, frame_reg => sink' = p,
         RQ_STRADDLE_ENC \in BOOLEAN, RQ_STRADDLE_ENC' = RQ_STRADDLE_ENC
  PROVE  /\ UnitsShown(p)' \in Seq(Words) /\ Shifted(p)' \in Seq(Words)
         /\ UnitsShown(p)' \o Shifted(p)' = Shifted(p)
<1>1. frame_reg /\ tlp_split1_reg /\ port_reg = p
  BY DEF split1, Granted
<1> DEFINE x == [unit |-> out_shift_reg, sop |-> FALSE, eop |-> tlp_split1_reg]
           S == UnitsShown(p)'
<1>2. Shifted(p) = <<x>> /\ Shifted(p)' = <<>>
  BY <1>1 DEF Shifted
<1>3. /\ S = [i \in 1 .. 1 |-> S[i]]
      /\ \A i \in 1 .. 1 : S[i] = [unit |-> m_axis_rq'.data[i - 1],
                                  sop  |-> i = 1 /\ ~frame_reg,
                                  eop  |-> i = 1 /\ TRUE]
  <2>1. StrobeCount(p, TRUE) = 1
    BY DEF StrobeCount
  <2>2. ReadAs(p, 1, TRUE)
    BY <2>1, BeatRead
  <2>3. S = [i \in 1 .. 1 |-> [unit |-> m_axis_rq'.data[i - 1],
                              sop  |-> i = 1 /\ ~frame_reg,
                              eop  |-> i = 1 /\ TRUE]]
    BY <2>2 DEF ReadAs
  <2> QED BY <2>3
<1>4. m_axis_rq'.data[0] = out_shift_reg
  <2>1. Seg(p) \in Segments
    BY ShownSegment DEF FInv
  <2> QED BY <1>1, <2>1, BeatData
<1>5. x \in Words
  BY IsWord
<1>6. DOMAIN S = 1 .. 1 /\ S[1] = x
  <2>1. S[1] = [unit |-> m_axis_rq'.data[0],
                sop  |-> 1 = 1 /\ ~frame_reg, eop |-> 1 = 1 /\ TRUE]
    BY <1>3
  <2>2. (1 = 1 /\ ~frame_reg) = FALSE /\ (1 = 1 /\ TRUE) = tlp_split1_reg
    BY <1>1
  <2> QED BY <1>3, <1>4, <2>1, <2>2
<1>7. S = [i \in 1 .. 1 |-> S[i]]
  BY <1>3
<1> HIDE DEF S, x
<1>8. S \in Seq(Words) /\ Len(S) = 1
  <2>1. 1 \in Nat /\ \A i \in 1 .. 1 : S[i] \in Words
    BY <1>5, <1>6
  <2> QED BY ONLY <1>7, <2>1, IsList
<1>9. S = <<x>>
  <2> DEFINE z == <<x>>
  <2>1. z \in Seq(Words) /\ Len(z) = 1 /\ z[1] = x
    BY <1>5
  <2> HIDE DEF z
  <2>2. Len(S) = Len(z) /\ \A i \in 1 .. Len(S) : S[i] = z[i]
    BY <1>6, <1>8, <2>1
  <2>3. S = z
    BY ONLY <1>8, <2>1, <2>2, SameList
  <2> QED BY <2>3 DEF z
<1>10. S \o <<>> = S
  BY <1>8, EmptyRight
<1> QED BY <1>2, <1>8, <1>9, <1>10 DEF S

-----------------------------------------------------------------------------
(* One clock edge, on the engine's side of the ledger.                     *)

EInv == IInv /\ TInv /\ LInv

\* What is owed after the core has read what it takes on this edge.
Left(p, tready) ==
  SubSeq(owed[p], (IF tready THEN Len(UnitsShown(p)) ELSE 0) + 1,
         Len(owed[p]))

\* The engine moves units on and loses none: what is left is what it shows
\* next, what it shifts out, and the segments that wait.  ins comes behind.
MovesOn(p, tready, ins) ==
  \E w \in Seq(Segments) :
    /\ Waits(p)' = w \o ins[p]
    /\ Chain(w, NextStarts(p)', NoMore(p))
    /\ UnitsShown(p)' \in Seq(Words) /\ Shifted(p)' \in Seq(Words)
    /\ \E r \in Seq(Words) :
         /\ Queued(p, w, r)
         /\ Left(p, tready) = (UnitsShown(p)' \o Shifted(p)') \o r

LEMMA ShiftedList ==
  ASSUME EInv, NEW p \in Ports
  PROVE  Shifted(p) \in Seq(Words)
<1> DEFINE x == [unit |-> out_shift_reg, sop |-> FALSE, eop |-> tlp_split1_reg]
<1>1. x \in Words
  <2>1. /\ out_shift_reg \in Units /\ FALSE \in BOOLEAN
        /\ tlp_split1_reg \in BOOLEAN
    BY DEF EInv, LInv, TInv, TypeOK
  <2> HIDE DEF Words
  <2> QED BY <2>1, IsWord
<1> HIDE DEF x
<1>2. <<x>> \in Seq(Words)
  BY <1>1
<1>3. <<>> \in Seq(Words)
  OBVIOUS
<1> QED BY <1>2, <1>3 DEF Shifted, x

LEMMA Delivered ==
  ASSUME EInv, NEW tready \in BOOLEAN, OutputFree(tready), NEW p \in Ports,
         NEW rest \in Seq(Words),
         UnitsShown(p) \in Seq(Words),
         owed[p] = (UnitsShown(p) \o Shifted(p)) \o rest
  PROVE  Left(p, tready) = Shifted(p) \o rest
<1> DEFINE a == UnitsShown(p)
           b == Shifted(p)
<1>1. a \in Seq(Words) /\ b \in Seq(Words)
  BY ShiftedList
<1>2. IF tready THEN TRUE ELSE a = <<>>
  BY DEF OutputFree, UnitsShown
<1>3. (IF tready THEN Len(a) ELSE 0) = Len(a)
  BY <1>2
<1>4. Left(p, tready) = SubSeq(owed[p], Len(a) + 1, Len(owed[p]))
  BY <1>3 DEF Left
<1> HIDE DEF a, b
<1>5. owed[p] = a \o (b \o rest) /\ b \o rest \in Seq(Words)
  <2>1. (a \o b) \o rest = a \o (b \o rest)
    BY ONLY <1>1, rest \in Seq(Words), ConcatAssociative
  <2>2. b \o rest \in Seq(Words)
    BY ONLY <1>1, rest \in Seq(Words), ConcatProperties
  <2> QED BY <2>1, <2>2 DEF a, b
<1> DEFINE c == b \o rest
<1> HIDE DEF c
<1>6. SubSeq(a \o c, Len(a) + 1, Len(a \o c)) = c
  <2>1. a \in Seq(Words) /\ c \in Seq(Words)
    BY <1>1, <1>5 DEF c
  <2> QED BY ONLY <2>1, DropFirst
<1>7. owed[p] = a \o c
  BY <1>5 DEF c
<1> QED BY <1>4, <1>6, <1>7 DEF b, c

LEMMA NotDelivered ==
  ASSUME NEW tready \in BOOLEAN, ~OutputFree(tready), NEW p \in Ports,
         owed[p] \in Seq(Words)
  PROVE  Left(p, tready) = owed[p]
<1>1. Left(p, tready) = SubSeq(owed[p], 0 + 1, Len(owed[p]))
  BY DEF Left, OutputFree
<1> QED BY <1>1, WholeList

LEMMA JoinBehind ==
  ASSUME NEW W, NEW q \in Seq(W), q # <<>>, NEW r \in Seq(W)
  PROVE  /\ q \o r # <<>> /\ Head(q \o r) = Head(q)
         /\ Tail(q \o r) = Tail(q) \o r /\ Tail(q) \in Seq(W)
<1> DEFINE n == Len(q)
           m == Len(r)
           t == q \o r
           v == Tail(q)
           h == n - 1
           x == v \o r
           y == Tail(t)
<1>1. /\ n \in Nat /\ m \in Nat /\ n > 0 /\ h \in Nat
      /\ v \in Seq(W) /\ Len(v) = h /\ Head(q) = q[1]
      /\ \A i \in 1 .. h : v[i] = q[i + 1]
  <2>1. v \in Seq(W) /\ Len(v) = h /\ Head(q) = q[1] /\ n \in Nat /\ n > 0
        /\ m \in Nat /\ h \in Nat
    OBVIOUS
  <2>2. \A i \in 1 .. h : v[i] = q[i + 1]
    OBVIOUS
  <2> QED BY <2>1, <2>2
<1>2. /\ t \in Seq(W) /\ Len(t) = n + m
      /\ \A i \in 1 .. n : t[i] = q[i]
      /\ \A i \in 1 .. m : t[n + i] = r[i]
  BY TwoLists
<1> HIDE DEF n, m, t, v
<1>3. t # <<>> /\ Head(t) = t[1] /\ Head(t) = Head(q)
  <2>1. t # <<>>
    BY <1>1, <1>2
  <2>2. Head(t) = t[1]
    BY <1>2, <2>1
  <2> QED BY <1>1, <1>2, <2>1, <2>2
<1>4. /\ y \in Seq(W) /\ Len(y) = n + m - 1
      /\ \A i \in 1 .. n + m - 1 : y[i] = t[i + 1]
  BY <1>1, <1>2, <1>3
<1> HIDE DEF h, y
<1>5. h = Len(v) /\ m = Len(r) /\ v \in Seq(W) /\ r \in Seq(W)
  BY <1>1 DEF m
<1>6. /\ x \in Seq(W) /\ Len(x) = h + m
      /\ \A i \in 1 .. h : x[i] = v[i]
      /\ \A i \in 1 .. m : x[h + i] = r[i]
  <2>1. v \o r \in Seq(W) /\ Len(v \o r) = h + m
    BY ONLY <1>5, TwoLists
  <2>2. \A i \in 1 .. h : (v \o r)[i] = v[i]
    BY ONLY <1>5, TwoLists
  <2>3. \A i \in 1 .. m : (v \o r)[h + i] = r[i]
    BY ONLY <1>5, TwoLists
  <2> QED BY ONLY <2>1, <2>2, <2>3
<1> HIDE DEF x
<1>7. h + m = n + m - 1 /\ h + 1 = n
  BY <1>1 DEF h
<1>8. ASSUME NEW i \in 1 .. h + m PROVE y[i] = x[i]
  <2>1. y[i] = t[i + 1]
    BY <1>4, <1>7
  <2>2. CASE i \in 1 .. h
    <3>1. i + 1 \in 1 .. n
      BY <1>1, <1>7, <2>2
    <3> QED BY <1>1, <1>2, <1>6, <2>1, <2>2, <3>1
  <2>3. CASE i \notin 1 .. h
    <3> DEFINE j == i - h
    <3>1. j \in 1 .. m /\ i = h + j /\ i + 1 = n + j
      BY <1>1, <1>7, <2>3
    <3> HIDE DEF j
    <3>2. x[h + j] = r[j] /\ t[n + j] = r[j]
      BY ONLY <1>2, <1>6, <3>1
    <3> QED BY ONLY <2>1, <3>1, <3>2
  <2> QED BY <2>2, <2>3
<1>9. Len(y) = Len(x) /\ \A i \in 1 .. Len(y) : y[i] = x[i]
  BY <1>4, <1>6, <1>7, <1>8
<1>10. y = x
  BY ONLY <1>4, <1>6, <1>9, SameList
<1> QED BY <1>1, <1>3, <1>10 DEF t, v, x, y

\* The core's frame follows the engine's port.
LEMMA SinkFollows ==
  ASSUME EInv, NEW tready \in BOOLEAN, NEW back, OutputFree(tready),
         Core(tready, back)
  PROVE  /\ sink' = NoPort <=> ~frame_reg
         /\ frame_reg => sink' = port_reg
<1>1. FInv
  BY DEF EInv, IInv
<1>2. sink' = NoPort <=> ~frame_reg
  BY <1>1, SinkCatchesUp
<1>3. ASSUME frame_reg PROVE sink' = port_reg
  <2>1. port_reg = IF m_axis_rq.tvalid THEN SinkPort ELSE sink
    BY <1>3 DEF EInv, LInv, SinkOnPort
  <2>2. CASE m_axis_rq.tvalid
    <3>1. ~Ends /\ Handshake(tready)
      BY <1>1, <1>3, <2>2
      DEF FInv, FrameOneAhead, Handshake, OutputFree
    <3> QED BY <2>1, <2>2, <3>1 DEF Core
  <2>3. CASE ~m_axis_rq.tvalid
    BY <2>1, <2>3 DEF Core, Handshake
  <2> QED BY <2>2, <2>3
<1> QED BY <1>2, <1>3

\* A port the loaded beat is not of.
LEMMA OtherPort ==
  ASSUME EInv, NEW tready \in BOOLEAN, OutputFree(tready),
         NEW p \in Ports, NEW q \in Ports, q # p, Granted(p), port_reg' = p,
         NEW ins \in [Ports -> Seq(Segments)], fifo'[q] = fifo[q] \o ins[q],
         UnitsShown(q)' = <<>>
  PROVE  MovesOn(q, tready, ins)
<1>1. frame_reg => port_reg = p
  BY DEF Granted
<1>2. /\ Shifted(q) = <<>> /\ Shifted(q)' = <<>>
      /\ Waits(q) = fifo[q] /\ Waits(q)' = fifo[q] \o ins[q]
      /\ (NextStarts(q) <=> TRUE) /\ (NextStarts(q)' <=> TRUE)
  BY <1>1 DEF Shifted, Waits, NextStarts, split1
<1>3. fifo[q] \in Seq(Segments)
  BY DEF EInv, IInv, FInv, FifosOK
<1>4. Chain(fifo[q], NextStarts(q), NoMore(q))
  BY <1>2 DEF EInv, LInv, Chains
<1>5. Chain(fifo[q], NextStarts(q)', NoMore(q))
  BY <1>2, <1>4 DEF Chain
<1>6. PICK r \in Seq(Words) :
        /\ Queued(q, Waits(q), r)
        /\ owed[q] = (UnitsShown(q) \o Shifted(q)) \o r
  BY DEF EInv, LInv, Ledger
<1>7. Left(q, tready) = <<>> \o r
  <2>1. UnitsShown(q) \in Seq(Words)
    BY DEF EInv, LInv, Ledger
  <2> QED BY <1>2, <1>6, <2>1, Delivered
<1>8. <<>> \o <<>> = <<>> /\ <<>> \in Seq(Words)
  <2>1. <<>> \in Seq(Words)
    OBVIOUS
  <2> QED BY <2>1, EmptyRight
<1>9. Left(q, tready) = (UnitsShown(q)' \o Shifted(q)') \o r
  BY <1>2, <1>7, <1>8
<1> HIDE DEF Segments, Words
<1> QED BY <1>2, <1>3, <1>5, <1>6, <1>8, <1>9 DEF MovesOn

-----------------------------------------------------------------------------
(* The engine's steps move the units on.                                   *)

LEMMA HeadStarts ==
  ASSUME EInv, NEW p \in Ports, Granted(p), ~split1
  PROVE  /\ Seg(p).sop <=> ~frame_reg
         /\ Waits(p) = fifo[p]
         /\ Chain(Tail(fifo[p]), Seg(p).eop, NoMore(p))
<1>1. Waits(p) = fifo[p]
  BY DEF Waits
<1>2. Chain(fifo[p], NextStarts(p), NoMore(p))
  BY <1>1 DEF EInv, LInv, Chains
<1>3. NextStarts(p) <=> ~frame_reg
  BY DEF NextStarts, Granted, split1
<1>4. fifo[p] \in Seq(Segments) /\ fifo[p] # <<>>
  BY DEF EInv, IInv, FInv, FifosOK, Granted, Eligible
<1> DEFINE q == fifo[p]
           a == NextStarts(p)
           z == NoMore(p)
<1>5. q \in Seq(Segments) /\ q # <<>> /\ Chain(q, a, z)
  BY <1>2, <1>4
<1> HIDE DEF q, a, z, Segments
<1>6. (Head(q).sop <=> a) /\ Chain(Tail(q), Head(q).eop, z)
  BY ONLY <1>5, ChainPop
<1> QED BY <1>1, <1>3, <1>6 DEF Seg, q, a, z

\* A beat is made from the segment at the front, all of it or all but the
\* unit that is shifted out.
LEMMA LoadedMoves ==
  ASSUME EInv, NEW tready \in BOOLEAN, OutputFree(tready),
         NEW p \in Ports, Granted(p), ~split1, NEW eop \in BOOLEAN,
         Emit(p, eop, FALSE),
         frame_reg' = ~eop, tlp_split1_reg' = (Seg(p).eop /\ ~eop),
         eop => Seg(p).eop /\ Seg(p).n < SegUnits,
         ~eop => Seg(p).n = SegUnits,
         sink' = NoPort <=> ~frame_reg, frame_reg => sink' = p,
         RQ_STRADDLE_ENC' = RQ_STRADDLE_ENC,
         NEW ins, Waits(p)' = Tail(fifo[p]) \o ins[p]
  PROVE  MovesOn(p, tready, ins)
<1> DEFINE q == fifo[p]
           w == Tail(q)
           u == UnitsOf(p, Seg(p))
           X == UnitsShown(p)'
           Y == Shifted(p)'
           Z == Shifted(p)
<1>1. /\ q \in Seq(Segments) /\ q # <<>> /\ w \in Seq(Segments)
      /\ Seg(p) \in Segments /\ Seg(p) = Head(q)
  <2>1. q \in Seq(Segments) /\ q # <<>>
    BY DEF EInv, IInv, FInv, FifosOK, Granted, Eligible
  <2>2. Seg(p) \in Segments /\ Tail(fifo[p]) \in Seq(Segments)
    BY ShownSegment DEF EInv, IInv, FInv
  <2> QED BY <2>1, <2>2 DEF Seg
<1>2. /\ Seg(p).sop <=> ~frame_reg
      /\ Waits(p) = q
      /\ Chain(w, Seg(p).eop, NoMore(p))
  BY HeadStarts
<1>3. X \in Seq(Words) /\ Y \in Seq(Words) /\ X \o Y = Z \o u
  <2>1. FInv /\ out_shift_reg \in Units /\ RQ_STRADDLE_ENC \in BOOLEAN
    BY DEF EInv, IInv, LInv
  <2> QED BY <1>2, <2>1, BeatContinues
<1>4. u \in Seq(Words)
  BY <1>1, UnitsList
<1>5. PICK rest \in Seq(Words) :
        /\ Queued(p, q, rest)
        /\ owed[p] = (UnitsShown(p) \o Shifted(p)) \o rest
  BY <1>2 DEF EInv, LInv, Ledger
<1>6. PICK r \in Seq(Words) : rest = u \o r /\ Queued(p, w, r)
  <2>1. \A x \in Segments : Len(UnitsOf(p, x)) \in Nat
    BY UnitsList
  <2>2. u = UnitsOf(p, Head(q))
    BY <1>1
  <2> HIDE DEF q, u, Segments, Words
  <2>3. \E r \in Seq(Words) : rest = u \o r /\ Queued(p, Tail(q), r)
    BY ONLY <1>1, <1>4, <1>5, <2>1, <2>2, p \in Ports, QueuedHead
  <2> QED BY <2>3
<1>7. Left(p, tready) = Z \o rest
  <2>1. UnitsShown(p) \in Seq(Words)
    BY DEF EInv, LInv, Ledger
  <2> QED BY <1>5, <2>1, Delivered
<1>8. Z \in Seq(Words)
  BY ShiftedList
<1>9. Left(p, tready) = (X \o Y) \o r
  <2> HIDE DEF X, Y, Z, u, Words
  <2>1. (Z \o u) \o r = Z \o (u \o r)
    BY ONLY <1>4, <1>8, r \in Seq(Words), ConcatAssociative
  <2> QED BY <1>3, <1>6, <1>7, <2>1
<1>10. Chain(w, NextStarts(p)', NoMore(p))
  <2>1. NextStarts(p)' <=> Seg(p).eop
    <3>1. port_reg' = p
      BY DEF Emit
    <3>2. Seg(p).eop \in BOOLEAN
      BY <1>1 DEF Segments
    <3> QED BY <3>1, <3>2 DEF NextStarts
  <2> QED BY <1>2, <2>1 DEF Chain
<1> HIDE DEF Segments, Words
<1> QED BY <1>1, <1>3, <1>6, <1>9, <1>10 DEF MovesOn

\* The second beat of a split is the unit shifted out of the first, and takes
\* the segment off the FIFO.
LEMMA SplitTailMoves ==
  ASSUME EInv, NEW tready \in BOOLEAN, OutputFree(tready),
         NEW p \in Ports, Granted(p), split1,
         Emit(p, TRUE, TRUE),
         frame_reg' = FALSE,
         sink' = NoPort <=> ~frame_reg, frame_reg => sink' = p,
         RQ_STRADDLE_ENC' = RQ_STRADDLE_ENC,
         NEW ins, Waits(p)' = Tail(fifo[p]) \o ins[p]
  PROVE  MovesOn(p, tready, ins)
<1> DEFINE w == Tail(fifo[p])
           X == UnitsShown(p)'
           Y == Shifted(p)'
           Z == Shifted(p)
<1>1. Waits(p) = w /\ w \in Seq(Segments)
  BY ShownSegment DEF Waits, Granted, split1, EInv, IInv, FInv
<1>2. X \in Seq(Words) /\ Y \in Seq(Words) /\ X \o Y = Z
  <2>1. FInv /\ out_shift_reg \in Units /\ RQ_STRADDLE_ENC \in BOOLEAN
        /\ tlp_split1_reg \in BOOLEAN
    BY DEF EInv, IInv, LInv, TInv, TypeOK
  <2> QED BY <2>1, BeatEndsSplit
<1>3. PICK r \in Seq(Words) :
        /\ Queued(p, w, r)
        /\ owed[p] = (UnitsShown(p) \o Shifted(p)) \o r
  BY <1>1 DEF EInv, LInv, Ledger
<1>4. Left(p, tready) = Z \o r
  <2>1. UnitsShown(p) \in Seq(Words)
    BY DEF EInv, LInv, Ledger
  <2> QED BY <1>3, <2>1, Delivered
<1>5. Chain(w, NextStarts(p)', NoMore(p))
  <2>1. NextStarts(p) <=> NextStarts(p)'
    BY DEF NextStarts, split1
  <2>2. Chain(w, NextStarts(p), NoMore(p))
    BY <1>1 DEF EInv, LInv, Chains
  <2> QED BY <2>1, <2>2 DEF Chain
<1>6. Left(p, tready) = (X \o Y) \o r
  BY <1>2, <1>4
<1> HIDE DEF Segments, Words
<1> QED BY <1>1, <1>2, <1>3, <1>5, <1>6 DEF MovesOn

\* Nothing is taken from the FIFO and nothing shifted.
LEMMA NothingMoves ==
  ASSUME EInv, NEW tready \in BOOLEAN,
         UNCHANGED <<frame_reg, port_reg, tlp_split1_reg, out_shift_reg>>,
         NEW p \in Ports, NEW ins \in [Ports -> Seq(Segments)],
         fifo'[p] = fifo[p] \o ins[p],
         UnitsShown(p)' \in Seq(Words),
         \A r \in Seq(Words) :
           owed[p] = (UnitsShown(p) \o Shifted(p)) \o r
             => Left(p, tready) = (UnitsShown(p)' \o Shifted(p)) \o r
  PROVE  MovesOn(p, tready, ins)
<1>1. Waits(p) \in Seq(Segments) /\ Waits(p)' = Waits(p) \o ins[p]
  <2> DEFINE q == fifo[p]
             i == ins[p]
  <2>1. q \in Seq(Segments) /\ i \in Seq(Segments)
    BY DEF EInv, IInv, FInv, FifosOK
  <2>2. CASE split1 /\ port_reg = p
    <3>1. q # <<>>
      BY <2>2 DEF EInv, LInv, SplitHeld
    <3>2. Waits(p) = Tail(q) /\ Waits(p)' = Tail(q \o i)
      BY <2>2 DEF Waits, split1
    <3> HIDE DEF q, i, Segments
    <3>3. Tail(q \o i) = Tail(q) \o i /\ Tail(q) \in Seq(Segments)
      BY ONLY <2>1, <3>1, JoinBehind
    <3> QED BY <3>2, <3>3 DEF i
  <2>3. CASE ~(split1 /\ port_reg = p)
    BY <2>1, <2>3 DEF Waits, split1
  <2> QED BY <2>2, <2>3
<1>2. Shifted(p)' = Shifted(p) /\ Shifted(p) \in Seq(Words)
  BY ShiftedList DEF Shifted
<1>3. Chain(Waits(p), NextStarts(p)', NoMore(p))
  <2>1. Chain(Waits(p), NextStarts(p), NoMore(p))
    BY DEF EInv, LInv, Chains
  <2>2. NextStarts(p) <=> NextStarts(p)'
    BY DEF NextStarts
  <2> QED BY <2>1, <2>2 DEF Chain
<1>4. PICK r \in Seq(Words) :
        /\ Queued(p, Waits(p), r)
        /\ owed[p] = (UnitsShown(p) \o Shifted(p)) \o r
  BY DEF EInv, LInv, Ledger
<1>5. Left(p, tready) = (UnitsShown(p)' \o Shifted(p)') \o r
  BY <1>2, <1>4
<1> HIDE DEF Segments, Words
<1> QED BY <1>1, <1>2, <1>3, <1>4, <1>5 DEF MovesOn

\* What the engine's registers and FIFOs are after a step.
Registers == SplitHeld /\ SinkOnPort /\ out_shift_reg \in Units

LEMMA EngineMoves ==
  ASSUME EInv, NEW tready \in BOOLEAN, NEW back, Core(tready, back),
         RQ_STRADDLE_ENC' = RQ_STRADDLE_ENC,
         NEW ins \in [Ports -> Seq(Segments)], Engine(tready, ins)
  PROVE  (\A q \in Ports : MovesOn(q, tready, ins)) /\ Registers'
<1> DEFINE Goal == (\A q \in Ports : MovesOn(q, tready, ins)) /\ Registers'
<1>0. /\ FInv /\ RQ_STRADDLE_ENC \in BOOLEAN
      /\ tlp_split1_reg \in BOOLEAN /\ frame_reg \in BOOLEAN
  BY DEF EInv, IInv, TInv, TypeOK
<1>a. ASSUME OutputFree(tready)
      PROVE  sink' = NoPort <=> ~frame_reg
  BY <1>a, SinkFollows
<1>b. ASSUME OutputFree(tready), NEW p \in Ports, Granted(p), frame_reg
      PROVE  sink' = p
  BY <1>b, SinkFollows DEF Granted
\* The other port, when a beat of p is loaded.
<1>c. ASSUME OutputFree(tready), NEW p \in Ports, Granted(p),
             NEW eop \in BOOLEAN, NEW split2 \in BOOLEAN,
             Emit(p, eop, split2),
             eop \/ (~split2 /\ Seg(p).n = SegUnits),
             NEW q \in Ports, q # p, fifo'[q] = fifo[q] \o ins[q]
      PROVE  MovesOn(q, tready, ins)
  <2>1. UnitsShown(q)' = <<>>
    BY <1>0, <1>a, <1>b, <1>c, BeatRead
  <2>2. port_reg' = p
    BY <1>c DEF Emit
  <2> QED BY <1>c, <2>1, <2>2, OtherPort
\* The registers, then.
<1>d. ASSUME OutputFree(tready), NEW p \in Ports, Granted(p),
             NEW eop \in BOOLEAN, NEW split2 \in BOOLEAN,
             Emit(p, eop, split2),
             eop \/ (~split2 /\ Seg(p).n = SegUnits),
             split1' => fifo'[p] # <<>> /\ Head(fifo'[p]) = Seg(p) /\ Extra(p)
      PROVE  Registers'
  <2>1. m_axis_rq'.tvalid /\ SinkPort' = p
    BY <1>0, <1>a, <1>b, <1>d, BeatRead
  <2>2. port_reg' = p
    BY <1>d DEF Emit
  <2>3. out_shift_reg' \in Units
    <3>1. Seg(p) \in Segments
      BY <1>0, <1>d, ShownSegment DEF FInv
    <3> QED BY <1>d, <3>1, BeatData
  <2>4. SinkOnPort'
    BY <2>1, <2>2 DEF SinkOnPort
  <2>5. SplitHeld'
    <3> SUFFICES ASSUME split1'
                 PROVE  fifo'[p] # <<>> /\ Extra(p)'
      BY <2>2 DEF SplitHeld
    <3>1. fifo'[p] # <<>> /\ Head(fifo'[p]) = Seg(p) /\ Extra(p)
      BY <1>d
    <3>2. Seg(p)' = Seg(p)
      BY <3>1 DEF Seg
    <3> QED BY <3>1, <3>2 DEF Extra
  <2> QED BY <2>3, <2>4, <2>5 DEF Registers
<1>1. ASSUME NEW p \in Ports, SplitHead(p, tready, ins) PROVE Goal
  <2>1. /\ OutputFree(tready) /\ Granted(p) /\ Extra(p) /\ ~split1
        /\ Emit(p, FALSE, FALSE) /\ frame_reg' = TRUE /\ tlp_split1_reg' = TRUE
    BY <1>1 DEF SplitHead
  <2>2. \A q \in Ports : fifo'[q] = fifo[q] \o ins[q]
    BY <1>1 DEF SplitHead, FifosAfter
  <2>3. /\ fifo'[p] # <<>> /\ Head(fifo'[p]) = Seg(p)
        /\ Tail(fifo'[p]) = Tail(fifo[p]) \o ins[p]
    <3> DEFINE f == fifo[p]
               i == ins[p]
    <3>1. f \in Seq(Segments) /\ f # <<>> /\ i \in Seq(Segments)
      BY <1>0, <2>1 DEF FInv, FifosOK, Granted, Eligible
    <3>2. fifo'[p] = f \o i /\ Seg(p) = Head(f)
      BY <2>2 DEF Seg
    <3> HIDE DEF f, i, Segments
    <3>3. f \o i # <<>> /\ Head(f \o i) = Head(f) /\ Tail(f \o i) = Tail(f) \o i
      BY ONLY <3>1, JoinBehind
    <3> QED BY <3>2, <3>3 DEF f, i
  <2>4. port_reg' = p
    BY <2>1 DEF Emit
  <2>5. Waits(p)' = Tail(fifo[p]) \o ins[p]
    BY <2>1, <2>3, <2>4 DEF Waits, split1
  <2>6. MovesOn(p, tready, ins)
    <3>1. /\ Seg(p).eop /\ Seg(p).n = SegUnits
          /\ Seg(p).eop \in BOOLEAN
      BY <1>0, <2>1, ShownSegment DEF Extra, FInv, Segments
    <3>2. frame_reg' = ~FALSE /\ tlp_split1_reg' = (Seg(p).eop /\ ~FALSE)
      BY <2>1, <3>1
    <3> QED BY <1>a, <1>b, <2>1, <2>5, <3>1, <3>2, LoadedMoves
  <2>7. Registers'
    BY <1>d, <2>1, <2>3 DEF Extra
  <2>8. \A q \in Ports \ {p} : MovesOn(q, tready, ins)
    BY <1>c, <2>1, <2>2 DEF Extra
  <2> QED BY <2>6, <2>7, <2>8
<1>2. ASSUME NEW p \in Ports, SplitTail(p, tready, ins) PROVE Goal
  <2>1. /\ OutputFree(tready) /\ Granted(p) /\ Extra(p) /\ split1
        /\ Emit(p, TRUE, TRUE) /\ frame_reg' = FALSE /\ tlp_split1_reg' = FALSE
    BY <1>2 DEF SplitTail
  <2>2. /\ \A q \in Ports \ {p} : fifo'[q] = fifo[q] \o ins[q]
        /\ fifo'[p] = Tail(fifo[p]) \o ins[p]
    BY <1>2 DEF SplitTail, FifosAfter
  <2>3. Waits(p)' = Tail(fifo[p]) \o ins[p]
    BY <2>1, <2>2 DEF Waits, split1
  <2>4. MovesOn(p, tready, ins)
    BY <1>a, <1>b, <2>1, <2>3, SplitTailMoves
  <2>5. Registers'
    BY <1>d, <2>1 DEF split1
  <2>6. \A q \in Ports \ {p} : MovesOn(q, tready, ins)
    BY <1>c, <2>1, <2>2
  <2> QED BY <2>4, <2>5, <2>6
<1>3. ASSUME NEW p \in Ports, WholeSegment(p, tready, ins) PROVE Goal
  <2>1. /\ OutputFree(tready) /\ Granted(p) /\ ~Extra(p)
        /\ Emit(p, Seg(p).eop, FALSE) /\ frame_reg' = ~Seg(p).eop
        /\ tlp_split1_reg' = split1
    BY <1>3 DEF WholeSegment
  <2>2. /\ \A q \in Ports \ {p} : fifo'[q] = fifo[q] \o ins[q]
        /\ fifo'[p] = Tail(fifo[p]) \o ins[p]
    BY <1>3 DEF WholeSegment, FifosAfter
  <2>3. /\ Seg(p).eop \in BOOLEAN /\ Seg(p).n \in 0 .. SegUnits
        /\ Seg(p).eop \/ Seg(p).n = SegUnits
    BY <1>0, <2>1, ShownSegment DEF FInv, Segments, FullOrLast
  <2>4. ~split1
    BY <2>1 DEF EInv, LInv, SplitHeld, split1, Granted
  <2>5. tlp_split1_reg' = FALSE /\ ~split1'
    BY <1>0, <2>1, <2>4 DEF split1
  <2>6. Waits(p)' = Tail(fifo[p]) \o ins[p]
    BY <2>2, <2>5 DEF Waits
  <2>7. MovesOn(p, tready, ins)
    <3>1. tlp_split1_reg' = (Seg(p).eop /\ ~Seg(p).eop)
      BY <2>3, <2>5
    <3>2. /\ Seg(p).eop => Seg(p).eop /\ Seg(p).n < SegUnits
          /\ ~Seg(p).eop => Seg(p).n = SegUnits
      BY <2>1, <2>3, SegUnitsAssumption DEF Extra
    <3> QED BY <1>a, <1>b, <2>1, <2>3, <2>4, <2>6, <3>1, <3>2, LoadedMoves
  <2>8. Registers'
    BY <1>d, <2>1, <2>3, <2>5
  <2>9. \A q \in Ports \ {p} : MovesOn(q, tready, ins)
    BY <1>c, <2>1, <2>2, <2>3
  <2> QED BY <2>7, <2>8, <2>9
\* A split segment is not lost when nothing is read.
<1>e. ASSUME UNCHANGED <<frame_reg, port_reg, tlp_split1_reg>>,
             FifosAfter({}, ins)
      PROVE  SplitHeld'
  <2> SUFFICES ASSUME split1'
               PROVE  fifo'[port_reg] # <<>> /\ Extra(port_reg)'
    BY <1>e DEF SplitHeld
  <2> DEFINE f == fifo[port_reg]
             i == ins[port_reg]
  <2>1. f # <<>> /\ Extra(port_reg)
    BY <1>e DEF EInv, LInv, SplitHeld, split1
  <2>2. port_reg \in Ports
    BY DEF EInv, TInv, TypeOK
  <2>3. f \in Seq(Segments) /\ i \in Seq(Segments)
    BY <1>0, <2>2 DEF FInv, FifosOK
  <2>4. fifo'[port_reg] = f \o i /\ Seg(port_reg) = Head(f)
    BY <1>e, <2>2 DEF FifosAfter, Seg
  <2>5. f \o i # <<>> /\ Head(f \o i) = Head(f)
    <3> HIDE DEF f, i, Segments
    <3> QED BY ONLY <2>1, <2>3, JoinBehind
  <2>6. Seg(port_reg)' = Seg(port_reg)
    BY <1>e, <2>4, <2>5 DEF Seg
  <2> QED BY <1>e, <2>1, <2>4, <2>5, <2>6 DEF Extra
<1>4. ASSUME NothingGranted(tready, ins) PROVE Goal
  <2>1. /\ OutputFree(tready) /\ FifosAfter({}, ins) /\ m_axis_rq' = NoBeat
        /\ UNCHANGED <<frame_reg, port_reg, tlp_split1_reg, out_shift_reg>>
    BY <1>4 DEF NothingGranted
  <2>2. \A q \in Ports : fifo'[q] = fifo[q] \o ins[q]
    BY <2>1 DEF FifosAfter
  <2>3. ASSUME NEW q \in Ports PROVE MovesOn(q, tready, ins)
    <3>1. UnitsShown(q)' = <<>> /\ <<>> \in Seq(Words)
      BY <2>1 DEF UnitsShown, NoBeat
    <3> HIDE DEF Words
    <3>2. ASSUME NEW r \in Seq(Words),
                 owed[q] = (UnitsShown(q) \o Shifted(q)) \o r
          PROVE  Left(q, tready) = (UnitsShown(q)' \o Shifted(q)) \o r
      <4>1. UnitsShown(q) \in Seq(Words)
        BY DEF EInv, LInv, Ledger
      <4>2. Left(q, tready) = Shifted(q) \o r
        BY <2>1, <3>2, <4>1, Delivered
      <4>3. <<>> \o Shifted(q) = Shifted(q)
        BY ShiftedList, EmptyRight
      <4> QED BY <3>1, <4>2, <4>3
    <3> QED BY <2>1, <2>2, <3>1, <3>2, NothingMoves
  <2>4. Registers'
    <3>1. SplitHeld'
      BY <1>e, <2>1
    <3>2. out_shift_reg' \in Units
      BY <2>1 DEF EInv, LInv
    <3>3. SinkOnPort'
      BY <2>1, SinkFollows DEF SinkOnPort, NoBeat
    <3> QED BY <3>1, <3>2, <3>3 DEF Registers
  <2> QED BY <2>3, <2>4
<1>5. ASSUME OutputHeld(tready, ins) PROVE Goal
  <2>1. /\ ~OutputFree(tready) /\ FifosAfter({}, ins)
        /\ UNCHANGED <<frame_reg, port_reg, tlp_split1_reg, out_shift_reg,
                       m_axis_rq>>
    BY <1>5 DEF OutputHeld
  <2>2. \A q \in Ports : fifo'[q] = fifo[q] \o ins[q]
    BY <2>1 DEF FifosAfter
  <2>3. sink' = sink
    BY <2>1 DEF OutputFree, Core, Handshake
  <2>4. ASSUME NEW q \in Ports PROVE UnitsShown(q)' = UnitsShown(q)
    BY <2>1, <2>3
    DEF UnitsShown, SinkPort, Starts, Ends, UnitCount
  <2>5. ASSUME NEW q \in Ports PROVE MovesOn(q, tready, ins)
    <3>1. UnitsShown(q) \in Seq(Words)
      BY DEF EInv, LInv, Ledger
    <3>2. owed[q] \in Seq(Words)
      <4>1. PICK r \in Seq(Words) :
              owed[q] = (UnitsShown(q) \o Shifted(q)) \o r
        BY DEF EInv, LInv, Ledger
      <4>2. Shifted(q) \in Seq(Words)
        BY ShiftedList
      <4> HIDE DEF Words
      <4> QED BY <3>1, <4>1, <4>2, ConcatProperties
    <3>3. Left(q, tready) = owed[q]
      BY <2>1, <3>2, NotDelivered
    <3> HIDE DEF Words
    <3> QED BY <2>1, <2>2, <2>4, <3>1, <3>3, NothingMoves
  <2>6. Registers'
    <3>1. SplitHeld'
      BY <1>e, <2>1
    <3>2. out_shift_reg' \in Units
      BY <2>1 DEF EInv, LInv
    <3>3. SinkOnPort'
      BY <2>1, <2>3
      DEF SinkOnPort, SinkPort, Starts, EInv, LInv
    <3> QED BY <3>1, <3>2, <3>3 DEF Registers
  <2> QED BY <2>5, <2>6
<1> QED BY <1>1, <1>2, <1>3, <1>4, <1>5 DEF Engine

-----------------------------------------------------------------------------
(* The ports' side of the ledger.                                          *)

LEMMA NothingPushed ==
  ASSUME NEW p \in Ports, NEW tready, NEW ins, MovesOn(p, tready, ins),
         ins[p] = <<>>, owed'[p] = Left(p, tready),
         NoMore(p)' <=> NoMore(p)
  PROVE  /\ Chain(Waits(p)', NextStarts(p)', NoMore(p)')
         /\ UnitsShown(p)' \in Seq(Words)
         /\ \E rest \in Seq(Words) :
              /\ Queued(p, Waits(p)', rest)
              /\ owed'[p] = (UnitsShown(p)' \o Shifted(p)') \o rest
<1> HIDE DEF Segments, Words
<1>1. PICK w \in Seq(Segments), r \in Seq(Words) :
        /\ Waits(p)' = w \o <<>>
        /\ Chain(w, NextStarts(p)', NoMore(p))
        /\ UnitsShown(p)' \in Seq(Words)
        /\ Queued(p, w, r)
        /\ Left(p, tready) = (UnitsShown(p)' \o Shifted(p)') \o r
  BY DEF MovesOn
<1>2. Waits(p)' = w
  BY <1>1, EmptyRight
<1>3. Chain(w, NextStarts(p)', NoMore(p)')
  BY <1>1 DEF Chain
<1> QED BY <1>1, <1>2, <1>3

LEMMA OnePushed ==
  ASSUME NEW p \in Ports, NEW tready, NEW ins, MovesOn(p, tready, ins),
         NEW s \in Segments, ins[p] = <<s>>,
         owed'[p] = Left(p, tready) \o UnitsOf(p, s),
         s.sop <=> NoMore(p), s.eop <=> NoMore(p)'
  PROVE  /\ Chain(Waits(p)', NextStarts(p)', NoMore(p)')
         /\ UnitsShown(p)' \in Seq(Words)
         /\ \E rest \in Seq(Words) :
              /\ Queued(p, Waits(p)', rest)
              /\ owed'[p] = (UnitsShown(p)' \o Shifted(p)') \o rest
<1> DEFINE u == UnitsOf(p, s)
           a == NextStarts(p)'
           z == NoMore(p)
           y == NoMore(p)'
           X == UnitsShown(p)' \o Shifted(p)'
<1>1. u \in Seq(Words)
  BY UnitsList
<1>2. \A x \in Segments : Len(UnitsOf(p, x)) \in Nat
  BY UnitsList
<1> HIDE DEF Segments, Words
<1>3. PICK w \in Seq(Segments), r \in Seq(Words) :
        /\ Waits(p)' = w \o <<s>>
        /\ Chain(w, NextStarts(p)', NoMore(p))
        /\ UnitsShown(p)' \in Seq(Words) /\ Shifted(p)' \in Seq(Words)
        /\ Queued(p, w, r)
        /\ Left(p, tready) = (UnitsShown(p)' \o Shifted(p)') \o r
  BY DEF MovesOn
<1>4. X \in Seq(Words)
  BY <1>3, ConcatProperties
<1>5. Append(w, s) = w \o <<s>>
  BY AppendIsConcat
<1>6. Chain(Append(w, s), a, y)
  <2>1. Chain(w, a, z) /\ (s.sop <=> z) /\ (s.eop <=> y)
    BY <1>3
  <2> HIDE DEF a, y, z
  <2> QED BY ONLY <2>1, w \in Seq(Segments), s \in Segments, ChainPush
<1>7. Queued(p, Append(w, s), r \o u) /\ r \o u \in Seq(Words)
  <2>1. u = UnitsOf(p, s)
    OBVIOUS
  <2> HIDE DEF u
  <2>2. Queued(p, w, r)
    BY <1>3
  <2>3. Queued(p, Append(w, s), r \o u)
    BY ONLY <1>1, <1>2, <2>1, <2>2, w \in Seq(Segments), r \in Seq(Words),
            s \in Segments, QueuedMore
  <2> QED BY <1>1, <2>3, ConcatProperties
<1>8. owed'[p] = X \o (r \o u)
  <2>1. owed'[p] = (X \o r) \o u
    BY <1>3
  <2> HIDE DEF X, u
  <2>2. (X \o r) \o u = X \o (r \o u)
    BY ONLY <1>1, <1>4, r \in Seq(Words), ConcatAssociative
  <2> QED BY <2>1, <2>2
<1> HIDE DEF u
<1> QED BY <1>3, <1>5, <1>6, <1>7, <1>8

\* What a port pushes goes on where it stopped.
LEMMA PushGoesOn ==
  ASSUME FifosOK, NEW p \in Ports, NEW t,
         t \in IF p = "rd" THEN ReadTlps ELSE WriteTlps,
         p = "wr" => wr_src' = Rest(t)
  PROVE  /\ Segment(t) \in Segments
         /\ Segment(t).sop <=> NoMore(p)
         /\ Segment(t).eop <=> NoMore(p)'
<1>1. t \in Tlps
  BY OfferedTlps
<1>2. CASE p = "rd"
  <2>1. t.first = 1 /\ t.left = 0
    BY <1>2 DEF ReadTlps
  <2>2. Rest(t) = NoTlp
    BY <2>1, SegUnitsAssumption DEF Rest
  <2> QED BY <1>1, <1>2, <2>1, <2>2, SegmentOf DEF NoMore
<1>3. CASE p = "wr"
  <2>1. t.first = 1 <=> wr_src = NoTlp
    <3>1. CASE wr_src = NoTlp
      BY <1>3, <3>1 DEF WriteTlps
    <3>2. CASE wr_src # NoTlp
      <4>1. t = wr_src /\ UnderWay(wr_src) /\ wr_src \in Tlps
        BY <1>3, <3>2 DEF WriteTlps, FifosOK, Rests
      <4> QED BY <3>2, <4>1 DEF UnderWay, Tlps
    <3> QED BY <3>1, <3>2
  <2> QED BY <1>1, <1>3, <2>1, SegmentOf DEF NoMore
<1> QED BY <1>2, <1>3 DEF Ports

LEMMA EdgeKeepsLedger ==
  ASSUME NEW tready \in BOOLEAN, NEW back, NEW credit, EInv,
         NEW rd_in \in Push("rd", ReadTlps), NEW wr_in \in Push("wr", WriteTlps),
         Edge(tready, rd_in, wr_in, back, credit)
  PROVE  LInv'
<1> DEFINE tlps == [p \in Ports |-> IF p = "rd" THEN rd_in ELSE wr_in]
           segs(p) == [i \in DOMAIN tlps[p] |-> Segment(tlps[p][i])]
           ins == [p \in Ports |-> segs(p)]
<1>1. FifosOK /\ "rd" \in Ports /\ "wr" \in Ports
  BY DEF EInv, IInv, FInv, Ports
<1>2. /\ Engine(tready, ins) /\ Core(tready, back)
      /\ wr_src' = IF wr_in = <<>> THEN wr_src ELSE Rest(wr_in[1])
      /\ Account(tready, back, tlps)
      /\ UNCHANGED RQ_STRADDLE_ENC
  BY DEF Edge
<1>3. ASSUME NEW p \in Ports
      PROVE  \/ tlps[p] = <<>>
             \/ \E t \in IF p = "rd" THEN ReadTlps ELSE WriteTlps :
                  tlps[p] = <<t>>
  BY DEF Push, Ports
<1>4. ASSUME NEW p \in Ports
      PROVE  /\ ins[p] = segs(p)
             /\ p = "wr" => tlps[p] = wr_in
             /\ p = "rd" => tlps[p] = rd_in
  BY <1>1
<1>5. ASSUME NEW p \in Ports PROVE segs(p) \in Seq(Segments)
  <2>1. CASE tlps[p] = <<>>
    BY <2>1
  <2>2. CASE tlps[p] # <<>>
    <3>1. PICK t \in IF p = "rd" THEN ReadTlps ELSE WriteTlps :
            tlps[p] = <<t>>
      BY <1>3, <2>2
    <3>2. Segment(t) \in Segments
      BY <1>1, OfferedTlps, SegmentOf
    <3> HIDE DEF Segments
    <3>3. segs(p) = <<Segment(t)>>
      BY <3>1
    <3> QED BY <3>2, <3>3
  <2> QED BY <2>1, <2>2
<1>6. ins \in [Ports -> Seq(Segments)]
  <2> HIDE DEF segs, Segments
  <2> QED BY <1>5
<1>7. (\A q \in Ports : MovesOn(q, tready, ins)) /\ Registers'
  <2> HIDE DEF ins
  <2> QED BY <1>2, <1>6, EngineMoves
<1>8. ASSUME NEW p \in Ports
      PROVE  owed'[p] = Left(p, tready)
                          \o (IF tlps[p] = <<>>
                                THEN <<>> ELSE UnitsOf(p, Segment(tlps[p][1])))
  BY <1>2 DEF Account, Left
<1>9. ASSUME NEW p \in Ports
      PROVE  /\ Chain(Waits(p)', NextStarts(p)', NoMore(p)')
             /\ UnitsShown(p)' \in Seq(Words)
             /\ \E rest \in Seq(Words) :
                  /\ Queued(p, Waits(p)', rest)
                  /\ owed'[p] = (UnitsShown(p)' \o Shifted(p)') \o rest
  <2>1. CASE tlps[p] = <<>>
    <3>1. ins[p] = <<>>
      BY <1>4, <2>1
    <3>2. owed'[p] = Left(p, tready)
      <4>1. Left(p, tready) \in Seq(Words)
        <5>1. PICK r \in Seq(Words) :
                 /\ UnitsShown(p)' \in Seq(Words) /\ Shifted(p)' \in Seq(Words)
                 /\ Left(p, tready) = (UnitsShown(p)' \o Shifted(p)') \o r
          <6> HIDE DEF ins
          <6> QED BY <1>7 DEF MovesOn
        <5> HIDE DEF Words
        <5> QED BY <5>1, ConcatProperties
      <4>2. owed'[p] = Left(p, tready) \o <<>>
        BY <1>8, <2>1
      <4> HIDE DEF Words
      <4> QED BY <4>1, <4>2, EmptyRight
    <3>3. NoMore(p)' <=> NoMore(p)
      BY <1>2, <1>4, <2>1 DEF NoMore
    <3> HIDE DEF ins
    <3> QED BY <1>7, <3>1, <3>2, <3>3, NothingPushed
  <2>2. CASE tlps[p] # <<>>
    <3>1. PICK t \in IF p = "rd" THEN ReadTlps ELSE WriteTlps :
            tlps[p] = <<t>>
      BY <1>3, <2>2
    <3>2. p = "wr" => wr_src' = Rest(t)
      BY <1>2, <1>4, <3>1
    <3>3. /\ Segment(t) \in Segments
          /\ Segment(t).sop <=> NoMore(p)
          /\ Segment(t).eop <=> NoMore(p)'
      BY <1>1, <3>2, PushGoesOn
    <3> HIDE DEF Segments
    <3>4. ins[p] = <<Segment(t)>>
      <4>1. segs(p) = <<Segment(t)>>
        BY <3>1
      <4> QED BY <1>4, <4>1
    <3>5. owed'[p] = Left(p, tready) \o UnitsOf(p, Segment(t))
      <4>1. tlps[p] # <<>> /\ tlps[p][1] = t
        BY <2>2, <3>1
      <4> HIDE DEF tlps
      <4> QED BY <1>8, <4>1
    <3> HIDE DEF ins
    <3> QED BY <1>7, <3>3, <3>4, <3>5, OnePushed
  <2> QED BY <2>1, <2>2
<1>10. Chains' /\ Ledger'
  BY <1>9 DEF Chains, Ledger
<1> QED BY <1>7, <1>10 DEF LInv, Registers

\* After a reset, and at the start.
Cleared ==
  /\ m_axis_rq = NoBeat /\ frame_reg = FALSE
  /\ out_shift_reg \in Units
  /\ fifo = [p \in Ports |-> <<>>] /\ wr_src = NoTlp
  /\ owed = [p \in Ports |-> <<>>]

LEMMA ClearedLedger == Cleared => LInv
<1> SUFFICES ASSUME Cleared PROVE LInv
  OBVIOUS
<1>1. m_axis_rq.tvalid = FALSE /\ frame_reg = FALSE
  BY DEF Cleared, NoBeat
<1>2. SplitHeld /\ SinkOnPort
  BY <1>1 DEF SplitHeld, split1, SinkOnPort
<1>3. ASSUME NEW p \in Ports
      PROVE  /\ Waits(p) = <<>> /\ Shifted(p) = <<>> /\ UnitsShown(p) = <<>>
             /\ owed[p] = <<>> /\ NextStarts(p) /\ NoMore(p)
  BY <1>1 DEF Cleared, Waits, split1, Shifted, UnitsShown, NextStarts, NoMore
<1>4. Chains
  BY <1>3 DEF Chains, Chain
<1>5. Ledger
  <2> SUFFICES ASSUME NEW p \in Ports
               PROVE  /\ UnitsShown(p) \in Seq(Words)
                      /\ \E rest \in Seq(Words) :
                           /\ Queued(p, Waits(p), rest)
                           /\ owed[p] = (UnitsShown(p) \o Shifted(p)) \o rest
    BY DEF Ledger
  <2>1. <<>> \in Seq(Words)
    OBVIOUS
  <2> HIDE DEF Words
  <2>2. <<>> \o <<>> = <<>>
    BY <2>1, EmptyRight
  <2>3. Queued(p, <<>>, <<>>)
    BY QueuedNothing
  <2>4. /\ Queued(p, Waits(p), <<>>)
        /\ owed[p] = (UnitsShown(p) \o Shifted(p)) \o <<>>
    BY <1>3, <2>2, <2>3
  <2> QED BY <1>3, <2>1, <2>4
<1> QED BY <1>2, <1>4, <1>5 DEF LInv, Cleared

LEMMA ResetKeepsLedger ==
  ASSUME NEW tready \in BOOLEAN, NEW credit, EInv, Reset(tready, credit)
  PROVE  LInv'
<1>1. out_shift_reg' \in Units
  <2> DEFINE granted == {p \in Ports : OutputFree(tready) /\ Granted(p)}
  <2>1. CASE granted = {}
    BY <2>1 DEF Reset, EInv, LInv
  <2>2. CASE granted # {}
    <3>1. PICK p \in Ports : /\ Granted(p)
                             /\ out_shift_reg' = Unit(p, Seg(p), SegUnits - 1)
      BY <2>2 DEF Reset
    <3>2. Seg(p) \in Segments
      BY <3>1, ShownSegment DEF EInv, IInv, FInv
    <3>3. Seg(p).first + (SegUnits - 1) \in Nat /\ Seg(p).seq \in SeqNums
      BY <3>2, SegUnitsAssumption DEF Segments
    <3> QED BY <3>1, <3>3 DEF Unit, Units
  <2> QED BY <2>1, <2>2
<1>2. Cleared'
  BY <1>1 DEF Reset, Restart, Cleared
<1> QED BY <1>2, ClearedLedger, PTL

LEMMA InitLedger == Init => LInv
<1> SUFFICES ASSUME Init PROVE LInv
  OBVIOUS
<1>1. Cleared
  BY DEF Init, Cleared, Units
<1> QED BY <1>1, ClearedLedger

LEMMA LedgerInductive == EInv /\ [Next]_vars => LInv'
<1> SUFFICES ASSUME EInv, [Next]_vars PROVE LInv'
  OBVIOUS
<1>1. CASE UNCHANGED vars
  <2>1. LInv
    BY DEF EInv
  <2>2. ASSUME NEW p \in Ports
        PROVE  /\ Waits(p)' = Waits(p) /\ Shifted(p)' = Shifted(p)
               /\ UnitsShown(p)' = UnitsShown(p)
               /\ NextStarts(p)' = NextStarts(p) /\ NoMore(p)' = NoMore(p)
    BY <1>1 DEF vars, engVars, envVars, Waits, split1, Shifted, UnitsShown,
                SinkPort, Starts, Ends, UnitCount, NextStarts, NoMore
  <2>3. Chains' /\ Ledger'
    BY <1>1, <2>1, <2>2 DEF LInv, Chains, Ledger, vars, envVars
  <2>4. SplitHeld' /\ SinkOnPort' /\ out_shift_reg' \in Units
    BY <1>1, <2>1 DEF LInv, vars, engVars, envVars, SplitHeld, split1, Extra,
                      Seg, SinkOnPort, SinkPort, Starts
  <2> QED BY <2>3, <2>4 DEF LInv
<1>2. ASSUME NEW tready \in BOOLEAN, Clock(tready) PROVE LInv'
  <2>1. PICK rd_in \in Push("rd", ReadTlps), wr_in \in Push("wr", WriteTlps),
             credit \in Credits, back \in SUBSET in_core :
               Edge(tready, rd_in, wr_in, back, credit)
    BY <1>2 DEF Clock
  <2> QED BY <2>1, EdgeKeepsLedger
<1>3. ASSUME NEW tready \in BOOLEAN, NEW credit \in Credits,
             Reset(tready, credit)
      PROVE  LInv'
  BY <1>3, ResetKeepsLedger
<1> QED BY <1>1, <1>2, <1>3 DEF Next

\* All of it.
LEMMA EngInit == Init => EInv
BY InitFramed, InitTyped, InitLedger DEF EInv

LEMMA EngStep == EInv /\ [Next]_vars => EInv'
BY FramingInductive, TypesInductive, LedgerInductive DEF EInv

LEMMA EngHolds == Spec => []EInv
BY EngInit, EngStep, PTL DEF Spec

-----------------------------------------------------------------------------
(* Each port's stream.                                                     *)

\* TlpStream's beginning of a list.
Begins(s, t) == Len(s) <= Len(t) /\ s = SubSeq(t, 1, Len(s))

LEMMA BeginsLonger ==
  ASSUME NEW W, NEW q \in Seq(W), NEW r \in Seq(W)
  PROVE  Begins(q, q \o r)
<1>1. SubSeq(q \o r, 1, Len(q)) = q
  BY DropFirst
<1>2. Len(q) \in Nat /\ Len(r) \in Nat /\ Len(q \o r) = Len(q) + Len(r)
  BY ConcatProperties
<1> QED BY <1>1, <1>2 DEF Begins

\* What the core reads is the beginning of what is on its way.
ShownBegins ==
  \A p \in Ports : /\ owed[p] \in Seq(Words)
                   /\ UnitsShown(p) \in Seq(Words)
                   /\ Begins(UnitsShown(p), owed[p])

LEMMA ShownIsFirst == EInv => ShownBegins
<1> SUFFICES ASSUME EInv, NEW p \in Ports
             PROVE  /\ owed[p] \in Seq(Words)
                    /\ UnitsShown(p) \in Seq(Words)
                    /\ Begins(UnitsShown(p), owed[p])
  BY DEF ShownBegins
<1> DEFINE a == UnitsShown(p)
           b == Shifted(p)
<1>1. PICK r \in Seq(Words) : owed[p] = (a \o b) \o r
  BY DEF EInv, LInv, Ledger
<1>2. a \in Seq(Words) /\ b \in Seq(Words)
  BY ShiftedList DEF EInv, LInv, Ledger
<1> HIDE DEF a, b, Words
<1>3. /\ (a \o b) \o r = a \o (b \o r)
      /\ b \o r \in Seq(Words)
  <2>1. (a \o b) \o r = a \o (b \o r)
    BY ONLY <1>2, r \in Seq(Words), ConcatAssociative
  <2>2. b \o r \in Seq(Words)
    BY ONLY <1>2, r \in Seq(Words), ConcatProperties
  <2> QED BY <2>1, <2>2
<1>4. a \o (b \o r) \in Seq(Words)
  BY ONLY <1>2, <1>3, ConcatProperties
<1>5. Begins(a, a \o (b \o r))
  <2> DEFINE c == b \o r
  <2>1. c \in Seq(Words)
    BY <1>3
  <2> HIDE DEF c
  <2>2. Begins(a, a \o c)
    BY ONLY <1>2, <2>1, BeginsLonger
  <2> QED BY <2>2 DEF c
<1> QED BY <1>1, <1>2, <1>3, <1>4, <1>5 DEF a

\* What an edge does to what a port is owed.
LEMMA EdgeOwed ==
  ASSUME NEW tready, NEW back, NEW credit, FifosOK,
         NEW rd_in \in Push("rd", ReadTlps), NEW wr_in \in Push("wr", WriteTlps),
         Edge(tready, rd_in, wr_in, back, credit), NEW p \in Ports
  PROVE  \E x \in Seq(Words) : owed'[p] = Left(p, tready) \o x
<1> DEFINE tlps == [q \in Ports |-> IF q = "rd" THEN rd_in ELSE wr_in]
<1>1. owed'[p] = Left(p, tready)
                   \o (IF tlps[p] = <<>>
                         THEN <<>> ELSE UnitsOf(p, Segment(tlps[p][1])))
  BY DEF Edge, Account, Left
<1>2. CASE tlps[p] = <<>>
  <2>1. <<>> \in Seq(Words)
    OBVIOUS
  <2> HIDE DEF Words
  <2> QED BY <1>1, <1>2, <2>1
<1>3. CASE tlps[p] # <<>>
  <2>1. PICK t \in IF p = "rd" THEN ReadTlps ELSE WriteTlps : tlps[p] = <<t>>
    BY <1>3 DEF Push, Ports
  <2>2. Segment(tlps[p][1]) \in Segments
    BY <2>1, OfferedTlps, SegmentOf
  <2>3. UnitsOf(p, Segment(tlps[p][1])) \in Seq(Words)
    BY <2>2, UnitsList
  <2> HIDE DEF Words, tlps
  <2> QED BY <1>1, <1>3, <2>3
<1> QED BY <1>2, <1>3

\* A TlpStream's step, of what port p is owed and the core is shown.
PortStep(p) ==
  /\ \/ /\ Begins(owed[p], owed'[p])
        /\ UnitsShown(p) # <<>> => UnitsShown(p)' = UnitsShown(p)
     \/ Begins(SubSeq(owed[p], Len(UnitsShown(p)) + 1, Len(owed[p])), owed'[p])
  /\ Begins(UnitsShown(p)', owed'[p])

LEMMA EdgeIsStep ==
  ASSUME NEW tready \in BOOLEAN, NEW back, NEW credit, EInv,
         NEW rd_in \in Push("rd", ReadTlps), NEW wr_in \in Push("wr", WriteTlps),
         Edge(tready, rd_in, wr_in, back, credit),
         ShownBegins', NEW p \in Ports
  PROVE  PortStep(p)
<1> DEFINE o == owed[p]
           n == Len(UnitsShown(p))
<1>1. o \in Seq(Words) /\ n \in Nat /\ n <= Len(o)
  BY ShownIsFirst DEF ShownBegins, Begins
<1>2. PICK x \in Seq(Words) : owed'[p] = Left(p, tready) \o x
  BY EdgeOwed DEF EInv, IInv, FInv
<1>3. Begins(UnitsShown(p)', owed'[p])
  BY DEF ShownBegins
<1>4. CASE tready
  <2>1. Left(p, tready) = SubSeq(o, n + 1, Len(o))
    BY <1>4 DEF Left
  <2> HIDE DEF o, n, Words
  <2>2. SubSeq(o, n + 1, Len(o)) \in Seq(Words)
    <3> DEFINE l == Len(o)
    <3>1. l \in Nat /\ l = Len(o)
      BY <1>1
    <3> HIDE DEF l
    <3>2. SubSeq(o, n + 1, l) \in Seq(Words)
      BY ONLY <1>1, <3>1, Remainder
    <3> QED BY <3>1, <3>2
  <2>3. Begins(SubSeq(o, n + 1, Len(o)), owed'[p])
    BY <1>2, <2>1, <2>2, BeginsLonger
  <2> QED BY <1>3, <2>3 DEF PortStep, o, n
<1>5. CASE ~tready
  <2>1. Left(p, tready) = SubSeq(o, 0 + 1, Len(o))
    BY <1>5 DEF Left
  <2>2. Left(p, tready) = o
    BY <1>1, <2>1, WholeList
  <2>3. Begins(o, owed'[p])
    <3> HIDE DEF o, Words
    <3> QED BY <1>1, <1>2, <2>2, BeginsLonger
  <2>4. CASE m_axis_rq.tvalid
    <3>1. m_axis_rq' = m_axis_rq /\ RQ_STRADDLE_ENC' = RQ_STRADDLE_ENC
      BY <1>5, <2>4 DEF Edge, Engine, SplitHead, SplitTail, WholeSegment,
                        NothingGranted, OutputHeld, OutputFree
    <3>2. sink' = sink
      BY <1>5 DEF Edge, Core, Handshake
    <3>3. UnitsShown(p)' = UnitsShown(p)
      BY <3>1, <3>2 DEF UnitsShown, SinkPort, Starts, Ends, UnitCount
    <3> QED BY <1>3, <2>3, <3>3 DEF PortStep, o
  <2>5. CASE ~m_axis_rq.tvalid
    <3>1. UnitsShown(p) = <<>>
      BY <2>5 DEF UnitsShown
    <3> QED BY <1>3, <2>3, <3>1 DEF PortStep, o
  <2> QED BY <2>4, <2>5
<1> QED BY <1>4, <1>5

\* Each port's TLPs reach the core whole, in order and once, descriptor
\* first, without a unit of the other port between, whatever the widths, the
\* lengths of the writes, and the stalls of the core, credit and FIFOs.
THEOREM PortsAreStreams == Spec => ImplementsStreams
<1>1. Init => RdStream!Init /\ WrStream!Init
  <2> SUFFICES ASSUME Init, NEW p \in Ports
               PROVE  owed[p] = <<>> /\ UnitsShown(p) = <<>>
    BY DEF RdStream!Init, WrStream!Init, Ports
  <2> QED BY DEF Init, UnitsShown, NoBeat
<1>2. EInv /\ EInv' /\ [Next]_vars
        => /\ [RdStream!Next]_<<owed["rd"], UnitsShown("rd")>>
           /\ [WrStream!Next]_<<owed["wr"], UnitsShown("wr")>>
  <2> SUFFICES ASSUME EInv, EInv', [Next]_vars
               PROVE  /\ [RdStream!Next]_<<owed["rd"], UnitsShown("rd")>>
                      /\ [WrStream!Next]_<<owed["wr"], UnitsShown("wr")>>
    OBVIOUS
  <2>0. ShownBegins' /\ "rd" \in Ports /\ "wr" \in Ports
    <3>1. (EInv => ShownBegins)'
      BY ShownIsFirst, PTL
    <3> QED BY <3>1 DEF Ports
  <2>1. CASE UNCHANGED vars
    <3>1. ASSUME NEW p \in Ports
          PROVE  owed'[p] = owed[p] /\ UnitsShown(p)' = UnitsShown(p)
      BY <2>1 DEF vars, engVars, envVars, UnitsShown, SinkPort, Starts, Ends,
                  UnitCount
    <3> QED BY <2>0, <3>1
  <2>2. ASSUME NEW tready \in BOOLEAN, Clock(tready)
        PROVE  RdStream!Next /\ WrStream!Next
    <3>1. PICK rd_in \in Push("rd", ReadTlps), wr_in \in Push("wr", WriteTlps),
               credit \in Credits, back \in SUBSET in_core :
                 Edge(tready, rd_in, wr_in, back, credit)
      BY <2>2 DEF Clock
    <3>2. \A p \in Ports : PortStep(p)
      BY <2>0, <3>1, EdgeIsStep
    <3>3. RdStream!Next
      BY <2>0, <3>2
      DEF PortStep, Begins, RdStream!Next, RdStream!Step, RdStream!Stays,
          RdStream!Taken, RdStream!Starts
    <3>4. WrStream!Next
      BY <2>0, <3>2
      DEF PortStep, Begins, WrStream!Next, WrStream!Step, WrStream!Stays,
          WrStream!Taken, WrStream!Starts
    <3> QED BY <3>3, <3>4
  <2>3. ASSUME NEW tready \in BOOLEAN, NEW credit \in Credits,
               Reset(tready, credit)
        PROVE  RdStream!Next /\ WrStream!Next
    <3>1. ASSUME NEW p \in Ports
          PROVE  owed'[p] = <<>> /\ UnitsShown(p)' = <<>>
      BY <2>3 DEF Reset, Restart, UnitsShown, NoBeat
    <3> QED BY <2>0, <3>1 DEF RdStream!Next, RdStream!Flush,
                              WrStream!Next, WrStream!Flush
  <2> QED BY <2>1, <2>2, <2>3 DEF Next
<1> QED BY <1>1, <1>2, EngHolds, PTL
        DEF Spec, ImplementsStreams, RdStream!Spec, WrStream!Spec

-----------------------------------------------------------------------------
(* Sequence numbers of the units on their way.                             *)

Num(w) == w.unit[2]

\* Units up to the end of a TLP have one number, and those behind another.
OneNumber(o) ==
  \A i, j \in 1 .. Len(o) :
    i < j /\ (\A k \in i .. j - 1 : ~o[k].eop) => Num(o[i]) = Num(o[j])

EndsNumber(o) ==
  \A i, j \in 1 .. Len(o) : i < j /\ o[i].eop => Num(o[i]) # Num(o[j])

\* The list o of a port's units continues the TLP the core receives, numbered
\* cur, when open, and will go on with the one the port pushes, numbered src,
\* when more.
Numbered(o, open, cur, more, src) ==
  /\ OneNumber(o) /\ EndsNumber(o)
  /\ o # <<>> /\ open => Num(o[1]) = cur
  /\ o # <<>> => /\ more <=> ~o[Len(o)].eop
                 /\ more => src = Num(o[Len(o)])
  /\ o = <<>> => /\ more <=> open
                 /\ more => src = cur
  /\ more => \A i \in 1 .. Len(o) : o[i].eop => src # Num(o[i])

Numbers(o, open, cur, more, src) ==
  {Num(o[i]) : i \in 1 .. Len(o)}
    \cup (IF more THEN {src} ELSE {}) \cup (IF open THEN {cur} ELSE {})

\* The core reads n units of the list, all of one TLP, and is left inside it
\* when open2, under the number cur2.
TakesUnits(o, open, cur, more, src, n, open2, cur2) ==
  /\ Numbered(o, open, cur, more, src)
  /\ n \in 1 .. Len(o)
  /\ \A i \in 1 .. n - 1 : ~o[i].eop
  /\ open2 <=> ~o[n].eop
  /\ open2 => cur2 = Num(o[1])

\* What is left of it, the list d: a number goes with its last unit.
LeavesUnits(o, open, cur, more, src, d, open2, cur2) ==
  /\ Numbered(d, open2, cur2, more, src)
  /\ Numbers(d, open2, cur2, more, src)
       = Numbers(o, open, cur, more, src)
           \ (IF open2 THEN {} ELSE {Num(o[1])})
  /\ Num(o[1]) \in Numbers(o, open, cur, more, src)

LEMMA UnitsTaken ==
  ASSUME NEW W, NEW o \in Seq(W), NEW open, NEW cur, NEW more, NEW src,
         NEW n, NEW open2, NEW cur2,
         TakesUnits(o, open, cur, more, src, n, open2, cur2),
         NEW d, d = SubSeq(o, n + 1, Len(o))
  PROVE  LeavesUnits(o, open, cur, more, src, d, open2, cur2)
<1>0. /\ Numbered(o, open, cur, more, src)
      /\ n \in 1 .. Len(o)
      /\ \A i \in 1 .. n - 1 : ~o[i].eop
      /\ open2 <=> ~o[n].eop
      /\ open2 => cur2 = Num(o[1])
  BY DEF TakesUnits
<1> USE <1>0
<1> DEFINE l == Len(o)
           m == l - n
           q == Num(o[1])
<1>1. l \in Nat /\ n \in Nat /\ 1 <= n /\ n <= l /\ m \in Nat /\ l = Len(o)
      /\ n + m = l /\ o # <<>>
  OBVIOUS
<1> HIDE DEF l
<1>2. d \in Seq(W) /\ Len(d) = m /\ d = [i \in 1 .. m |-> o[n + i]]
  <2>1. d = SubSeq(o, n + 1, l)
    BY <1>1
  <2> HIDE DEF m
  <2>2. /\ SubSeq(o, n + 1, l) \in Seq(W)
        /\ Len(SubSeq(o, n + 1, l)) = l - n
        /\ SubSeq(o, n + 1, l) = [i \in 1 .. l - n |-> o[n + i]]
    BY ONLY <1>1, o \in Seq(W), Remainder
  <2> QED BY <2>1, <2>2 DEF m
<1> HIDE DEF m
<1>3. \A i \in 1 .. m : d[i] = o[n + i] /\ n + i \in 1 .. l /\ n < n + i
  BY <1>1, <1>2
<1>4. /\ OneNumber(o) /\ EndsNumber(o)
      /\ open => q = cur
      /\ more <=> ~o[l].eop
      /\ more => src = Num(o[l])
      /\ more => \A i \in 1 .. l : o[i].eop => src # Num(o[i])
  BY <1>1 DEF Numbered
<1>5. \A i \in 1 .. n : Num(o[i]) = q
  <2> TAKE i \in 1 .. n
  <2>1. CASE i = 1
    BY <2>1
  <2>2. CASE i # 1
    <3>1. 1 \in 1 .. l /\ i \in 1 .. l /\ 1 < i
          /\ \A k \in 1 .. i - 1 : k \in 1 .. n - 1
      BY <1>1, <2>2
    <3> QED BY <1>1, <1>4, <3>1 DEF OneNumber
  <2> QED BY <2>1, <2>2
<1>6. ~open2 => \A i \in 1 .. m : Num(d[i]) # q
  <2> SUFFICES ASSUME ~open2, NEW i \in 1 .. m PROVE Num(d[i]) # q
    OBVIOUS
  <2>1. n \in 1 .. l /\ n \in 1 .. n /\ n + i \in 1 .. l /\ n < n + i
    BY <1>1, <1>3
  <2>2. o[n].eop /\ d[i] = o[n + i] /\ Num(o[n]) = q
    BY <1>3, <1>5, <2>1
  <2> QED BY <1>1, <1>4, <2>1, <2>2 DEF EndsNumber
<1>7. more /\ ~open2 => src # q
  <2>1. n \in 1 .. l /\ n \in 1 .. n
    BY <1>1
  <2> QED BY <1>4, <1>5, <2>1
<1>8. OneNumber(d)
  <2> SUFFICES ASSUME NEW i \in 1 .. m, NEW j \in 1 .. m, i < j,
                      \A k \in i .. j - 1 : ~d[k].eop
               PROVE  Num(d[i]) = Num(d[j])
    BY <1>2 DEF OneNumber
  <2> DEFINE a == n + i
             c == n + j
  <2>1. a \in 1 .. l /\ c \in 1 .. l /\ a < c
    BY <1>1, <1>3
  <2>2. \A k \in a .. c - 1 : k - n \in i .. j - 1 /\ k - n \in 1 .. m
                              /\ n + (k - n) = k
    BY <1>1
  <2>3. \A k \in a .. c - 1 : ~o[k].eop
    BY <1>3, <2>2
  <2> HIDE DEF a, c
  <2>4. Num(o[a]) = Num(o[c])
    BY <1>1, <1>4, <2>1, <2>3 DEF OneNumber
  <2> QED BY <1>3, <2>4 DEF a, c
<1>9. EndsNumber(d)
  <2> SUFFICES ASSUME NEW i \in 1 .. m, NEW j \in 1 .. m, i < j, d[i].eop
               PROVE  Num(d[i]) # Num(d[j])
    BY <1>2 DEF EndsNumber
  <2>1. n + i < n + j
    BY <1>1
  <2> QED BY <1>1, <1>3, <1>4, <2>1 DEF EndsNumber
<1>10. m # 0 => d[m] = o[l]
  <2>1. m # 0 => m \in 1 .. m
    BY <1>1
  <2> QED BY <1>1, <1>3, <2>1
<1>11. d = <<>> <=> m = 0
  BY <1>2
<1>12. m # 0 /\ open2 => Num(d[1]) = q
  <2> SUFFICES ASSUME m # 0, open2 PROVE Num(d[1]) = q
    OBVIOUS
  <2> DEFINE c == n + 1
  <2>1. 1 \in 1 .. l /\ c \in 1 .. l /\ 1 < c /\ 1 \in 1 .. m
        /\ \A k \in 1 .. c - 1 : k \in 1 .. n - 1 \/ k = n
    BY <1>1
  <2>2. \A k \in 1 .. c - 1 : ~o[k].eop
    BY <2>1
  <2>3. d[1] = o[c]
    BY <1>3, <2>1
  <2> HIDE DEF c
  <2>4. Num(o[1]) = Num(o[c])
    <3>1. 1 \in 1 .. Len(o) /\ c \in 1 .. Len(o)
      BY <1>1, <2>1
    <3>2. OneNumber(o)
      BY <1>4
    <3> QED BY ONLY <2>1, <2>2, <3>1, <3>2 DEF OneNumber
  <2> QED BY <2>3, <2>4
<1>13. m = 0 => (more <=> open2) /\ (more => src = cur2)
  <2> SUFFICES ASSUME m = 0 PROVE (more <=> open2) /\ (more => src = cur2)
    OBVIOUS
  <2>1. l = n /\ n \in 1 .. n
    BY <1>1
  <2> QED BY <1>4, <1>5, <2>1
<1>14. Numbered(d, open2, cur2, more, src)
  <2>1. m # 0 => /\ more <=> ~d[m].eop
                 /\ more => src = Num(d[m])
    BY <1>4, <1>10
  <2>2. more => \A i \in 1 .. m : d[i].eop => src # Num(d[i])
    BY <1>3, <1>4
  <2>3. m # 0 /\ open2 => Num(d[1]) = cur2
    BY <1>12
  <2> QED BY ONLY <1>2, <1>8, <1>9, <1>11, <1>13, <2>1, <2>2, <2>3 DEF Numbered
<1>15. q \in Numbers(o, open, cur, more, src)
  <2>1. 1 \in 1 .. Len(o)
    BY <1>1
  <2> QED BY <2>1 DEF Numbers
<1> DEFINE A == Numbers(o, open, cur, more, src)
           B == Numbers(d, open2, cur2, more, src)
<1>16. ASSUME NEW x \in B PROVE x \in A /\ (~open2 => x # q)
  <2>1. CASE \E i \in 1 .. m : x = Num(d[i])
    <3>1. PICK i \in 1 .. m : x = Num(d[i])
      BY <2>1
    <3>2. n + i \in 1 .. Len(o) /\ x = Num(o[n + i])
      BY <1>1, <1>3, <3>1
    <3>3. x \in A
      BY <3>2 DEF Numbers
    <3> QED BY <1>6, <3>1, <3>3
  <2>2. CASE more /\ x = src
    BY <1>7, <2>2 DEF Numbers
  <2>3. CASE open2 /\ x = cur2
    BY <1>15, <2>3
  <2> QED BY <1>2, <1>16, <2>1, <2>2, <2>3 DEF Numbers
<1>17. ASSUME NEW x \in A, ~open2 => x # q PROVE x \in B
  <2>0. open2 => q \in B
    BY DEF Numbers
  <2>1. CASE x = q
    BY <1>17, <2>0, <2>1
  <2>2. CASE x # q
    <3>1. CASE \E i \in 1 .. l : x = Num(o[i])
      <4>1. PICK i \in 1 .. l : x = Num(o[i])
        BY <3>1
      <4> DEFINE j == i - n
      <4>2. j \in 1 .. m /\ n + j = i
        <5>1. i \notin 1 .. n
          BY <1>5, <2>2, <4>1
        <5> QED BY <1>1, <5>1
      <4> HIDE DEF j
      <4>3. x = Num(d[j]) /\ j \in 1 .. Len(d)
        BY <1>2, <1>3, <4>1, <4>2
      <4> QED BY <4>3 DEF Numbers
    <3>2. CASE more /\ x = src
      BY <3>2 DEF Numbers
    <3>3. CASE open /\ x = cur
      BY <1>4, <2>2, <3>3
    <3> QED BY <1>1, <1>17, <3>1, <3>2, <3>3 DEF Numbers
  <2> QED BY <2>1, <2>2
<1> HIDE DEF A, B, q
<1>18. B = A \ (IF open2 THEN {} ELSE {q})
  BY <1>16, <1>17
<1> QED BY <1>14, <1>15, <1>18 DEF A, B, q, LeavesUnits

\* A port pushes the units u of a segment, numbered x, and has more of that
\* TLP, numbered src2, when more2.
PutsUnits(o, open, cur, more, src, u, x, more2, src2) ==
  /\ Numbered(o, open, cur, more, src)
  /\ u # <<>>
  /\ \A i \in 1 .. Len(u) : /\ Num(u[i]) = x
                            /\ u[i].eop => i = Len(u)
  /\ more2 <=> ~u[Len(u)].eop
  /\ more2 => src2 = x
  /\ more => x = src
  /\ ~more => x \notin Numbers(o, open, cur, more, src)

HoldsUnits(t, o, open, cur, more, src, x, more2, src2) ==
  /\ Numbered(t, open, cur, more2, src2)
  /\ Numbers(t, open, cur, more2, src2)
       = Numbers(o, open, cur, more, src) \cup {x}
  /\ more => x \in Numbers(o, open, cur, more, src)

LEMMA UnitsPut ==
  ASSUME NEW W, NEW o \in Seq(W), NEW open, NEW cur, NEW more, NEW src,
         NEW u \in Seq(W), NEW x, NEW more2, NEW src2,
         PutsUnits(o, open, cur, more, src, u, x, more2, src2)
  PROVE  HoldsUnits(o \o u, o, open, cur, more, src, x, more2, src2)
<1>0. /\ Numbered(o, open, cur, more, src)
      /\ u # <<>>
      /\ \A i \in 1 .. Len(u) : Num(u[i]) = x
      /\ \A i \in 1 .. Len(u) : u[i].eop => i = Len(u)
      /\ more2 <=> ~u[Len(u)].eop
      /\ more2 => src2 = x
      /\ more => x = src
      /\ ~more => x \notin Numbers(o, open, cur, more, src)
  BY DEF PutsUnits
<1> USE <1>0
<1> DEFINE l == Len(o)
           m == Len(u)
           t == o \o u
<1>1. l \in Nat /\ m \in Nat /\ m > 0 /\ l = Len(o) /\ m = Len(u)
  OBVIOUS
<1>2. /\ t \in Seq(W) /\ Len(t) = l + m
      /\ \A i \in 1 .. l : t[i] = o[i]
      /\ \A i \in 1 .. m : t[l + i] = u[i]
  BY TwoLists
<1>3. /\ OneNumber(o) /\ EndsNumber(o)
      /\ l # 0 /\ open => Num(o[1]) = cur
      /\ l # 0 => /\ more <=> ~o[l].eop
                  /\ more => src = Num(o[l])
      /\ l = 0 => /\ more <=> open
                  /\ more => src = cur
      /\ more => \A i \in 1 .. l : o[i].eop => src # Num(o[i])
  <2>1. o = <<>> <=> l = 0
    OBVIOUS
  <2> QED BY <2>1 DEF Numbered
<1> HIDE DEF l, m, t
<1>4. /\ \A i \in 1 .. l + m : i \notin 1 .. l => /\ i - l \in 1 .. m
                                                 /\ l + (i - l) = i
      /\ \A i \in 1 .. m : l + i \in 1 .. l + m
      /\ m \in 1 .. m /\ 1 \in 1 .. m
  BY <1>1
<1>5. \A i \in 1 .. l + m : i \notin 1 .. l => /\ t[i] = u[i - l]
                                              /\ Num(t[i]) = x
  <2> SUFFICES ASSUME NEW i \in 1 .. l + m, i \notin 1 .. l
               PROVE  t[i] = u[i - l] /\ Num(t[i]) = x
    OBVIOUS
  <2>1. i - l \in 1 .. m /\ l + (i - l) = i
    BY <1>4
  <2>2. t[i] = u[i - l]
    <3>1. t[l + (i - l)] = u[i - l]
      BY ONLY <1>2, <2>1
    <3> QED BY <2>1, <3>1
  <2>3. Num(u[i - l]) = x
    BY <1>1, <2>1
  <2> QED BY <2>2, <2>3
\* A unit of o that ends a TLP has another number.
<1>6. ASSUME NEW i \in 1 .. l, o[i].eop PROVE Num(o[i]) # x
  <2>1. CASE more
    BY <1>3, <1>6, <2>1
  <2>2. CASE ~more
    <3>1. Num(o[i]) \in Numbers(o, open, cur, more, src)
      BY <1>1, <1>6 DEF Numbers
    <3> QED BY <2>2, <3>1
  <2> QED BY <2>1, <2>2
<1>7. OneNumber(t)
  <2> SUFFICES ASSUME NEW i \in 1 .. l + m, NEW j \in 1 .. l + m, i < j,
                      \A k \in i .. j - 1 : ~t[k].eop
               PROVE  Num(t[i]) = Num(t[j])
    BY <1>2 DEF OneNumber
  <2>1. CASE j \in 1 .. l
    <3>1. i \in 1 .. l /\ \A k \in i .. j - 1 : k \in 1 .. l
      BY <1>1, <2>1
    <3>2. \A k \in i .. j - 1 : ~o[k].eop
      BY <1>2, <3>1
    <3>3. Num(o[i]) = Num(o[j])
      BY <1>1, <1>3, <2>1, <3>1, <3>2 DEF OneNumber
    <3> QED BY <1>2, <2>1, <3>1, <3>3
  <2>2. CASE i \notin 1 .. l
    <3>1. j \notin 1 .. l
      BY <1>1, <2>2
    <3> QED BY <1>5, <2>2, <3>1
  <2>3. CASE i \in 1 .. l /\ j \notin 1 .. l
    <3>1. /\ l \in i .. j - 1 /\ l \in 1 .. l /\ l # 0
          /\ \A k \in i .. l - 1 : k \in i .. j - 1 /\ k \in 1 .. l
      BY <1>1, <2>3
    <3>2. ~o[l].eop /\ \A k \in i .. l - 1 : ~o[k].eop
      BY <1>2, <3>1
    <3>3. Num(o[l]) = x
      BY <1>3, <3>1, <3>2
    <3>4. Num(o[i]) = Num(o[l])
      <4>1. i = l \/ i < l
        BY <1>1, <2>3
      <4> QED BY <1>1, <1>3, <2>3, <3>1, <3>2, <4>1 DEF OneNumber
    <3> QED BY <1>2, <1>5, <2>3, <3>3, <3>4
  <2> QED BY <2>1, <2>2, <2>3
<1>8. EndsNumber(t)
  <2> SUFFICES ASSUME NEW i \in 1 .. l + m, NEW j \in 1 .. l + m, i < j,
                      t[i].eop
               PROVE  Num(t[i]) # Num(t[j])
    BY <1>2 DEF EndsNumber
  <2>1. CASE i \in 1 .. l /\ j \in 1 .. l
    BY <1>1, <1>2, <1>3, <2>1 DEF EndsNumber
  <2>2. CASE i \in 1 .. l /\ j \notin 1 .. l
    BY <1>2, <1>5, <1>6, <2>2
  <2>3. CASE i \notin 1 .. l
    <3>1. i - l \in 1 .. m /\ u[i - l].eop
      BY <1>4, <1>5, <2>3
    <3>2. i - l = m
      BY <1>1, <3>1
    <3> QED BY <1>1, <3>2
  <2> QED BY <2>1, <2>2, <2>3
<1>9. t[l + m] = u[m] /\ t # <<>>
  BY <1>1, <1>2, <1>4
<1>10. open => Num(t[1]) = cur
  <2> SUFFICES ASSUME open PROVE Num(t[1]) = cur
    OBVIOUS
  <2>1. CASE l = 0
    <3>1. 1 \in 1 .. l + m /\ 1 \notin 1 .. l
      BY <1>1, <2>1
    <3> QED BY <1>3, <1>5, <2>1, <3>1
  <2>2. CASE l # 0
    <3>1. 1 \in 1 .. l
      BY <1>1, <2>2
    <3> QED BY <1>2, <1>3, <2>2, <3>1
  <2> QED BY <2>1, <2>2
<1>11. ASSUME more2, NEW i \in 1 .. l + m, t[i].eop PROVE src2 # Num(t[i])
  <2>1. CASE i \in 1 .. l
    BY <1>2, <1>6, <1>11, <2>1
  <2>2. CASE i \notin 1 .. l
    <3>1. i - l \in 1 .. m /\ u[i - l].eop
      BY <1>4, <1>5, <1>11, <2>2
    <3>2. i - l = m
      BY <1>1, <3>1
    <3> QED BY <1>1, <1>11, <3>1, <3>2
  <2> QED BY <2>1, <2>2
<1>12. /\ more2 <=> ~t[l + m].eop
       /\ more2 => src2 = Num(t[l + m])
  BY <1>1, <1>4, <1>9
<1>13. Numbered(t, open, cur, more2, src2)
  BY ONLY <1>2, <1>7, <1>8, <1>9, <1>10, <1>11, <1>12 DEF Numbered
<1> DEFINE A == Numbers(o, open, cur, more, src)
           B == Numbers(t, open, cur, more2, src2)
<1>14. ASSUME NEW y \in B PROVE y \in A \cup {x}
  <2>1. CASE \E i \in 1 .. l + m : y = Num(t[i])
    <3>1. PICK i \in 1 .. l + m : y = Num(t[i])
      BY <2>1
    <3>2. CASE i \in 1 .. l
      <4>1. y = Num(o[i]) /\ i \in 1 .. Len(o)
        BY <1>1, <1>2, <3>1, <3>2
      <4> QED BY <4>1 DEF Numbers
    <3>3. CASE i \notin 1 .. l
      BY <1>5, <3>1, <3>3
    <3> QED BY <3>2, <3>3
  <2>2. CASE more2 /\ y = src2
    BY <2>2
  <2>3. CASE open /\ y = cur
    BY <2>3 DEF Numbers
  <2> QED BY <1>2, <1>14, <2>1, <2>2, <2>3 DEF Numbers
<1>15. x \in B
  <2>1. l + m \in 1 .. Len(t) /\ l + m \in 1 .. l + m /\ l + m \notin 1 .. l
    BY <1>1, <1>2
  <2>2. x = Num(t[l + m])
    BY <1>5, <2>1
  <2> QED BY <2>1, <2>2 DEF Numbers
<1>16. ASSUME NEW y \in A PROVE y \in B
  <2>1. CASE \E i \in 1 .. l : y = Num(o[i])
    <3>1. PICK i \in 1 .. l : y = Num(o[i])
      BY <2>1
    <3>2. i \in 1 .. Len(t) /\ y = Num(t[i])
      BY <1>1, <1>2, <3>1
    <3> QED BY <3>2 DEF Numbers
  <2>2. CASE more /\ y = src
    BY <1>15, <2>2
  <2>3. CASE open /\ y = cur
    BY <2>3 DEF Numbers
  <2> QED BY <1>1, <1>16, <2>1, <2>2, <2>3 DEF Numbers
<1> HIDE DEF A, B
<1>17. B = A \cup {x}
  BY <1>14, <1>15, <1>16
<1>18. more => x \in A
  BY DEF A, Numbers
<1> QED BY <1>13, <1>17, <1>18 DEF A, B, t, HoldsUnits

-----------------------------------------------------------------------------
(* Every sequence number comes back once.                                  *)

\* The beat on show has units, and a start carries the number of its units.
BeatNamed ==
  m_axis_rq.tvalid =>
    /\ UnitCount \in 1 .. SegUnits
    /\ Starts => m_axis_rq.seq_num % SEQ_NUM_FLAG = Num([unit |-> m_axis_rq.data[0]])

\* The core's open TLP has a number of its port.
SinkNamed == sink # NoPort => PortOf(sink_seq) = sink

NumbersKept(p) ==
  Numbered(owed[p], sink = p, sink_seq % SEQ_NUM_FLAG, ~NoMore(p), wr_src.seq)

SInv == /\ BeatNamed /\ SinkNamed /\ EverySeqOnce
        /\ \A p \in Ports : NumbersKept(p)

LEMMA BeatKeepsName ==
  ASSUME EInv, BeatNamed, NEW tready \in BOOLEAN, NEW back,
         Core(tready, back), RQ_STRADDLE_ENC' = RQ_STRADDLE_ENC,
         NEW ins, Engine(tready, ins)
  PROVE  BeatNamed'
<1>0. FInv /\ RQ_STRADDLE_ENC \in BOOLEAN
  BY DEF EInv, IInv
<1>1. ASSUME NEW p \in Ports, OutputFree(tready), Granted(p),
             NEW eop \in BOOLEAN, NEW split2 \in BOOLEAN,
             Emit(p, eop, split2),
             eop \/ (~split2 /\ Seg(p).n = SegUnits)
      PROVE  BeatNamed'
  <2>1. sink' = NoPort <=> ~frame_reg
    BY <1>1, SinkFollows
  <2>2. frame_reg => sink' = p
    BY <1>1, SinkFollows DEF Granted
  <2>3. UnitCount' \in 1 .. SegUnits /\ (Starts' <=> ~frame_reg)
    BY <1>0, <1>1, <2>1, <2>2, BeatRead
  <2>4. Seg(p) \in Segments
    BY <1>0, <1>1, ShownSegment DEF FInv
  <2>5. m_axis_rq'.data[0] = IF frame_reg THEN out_shift_reg
                                          ELSE <<p, Seg(p).seq, 0>>
    BY <1>1, <2>4, BeatData
  <2>6. m_axis_rq'.seq_num = rq_seq(p)
    BY <1>1, Zenon DEF Emit, Beat
  <2>7. rq_seq(p) % SEQ_NUM_FLAG = Seg(p).seq
    BY <2>4, FlagAssumption DEF rq_seq, Segments, SeqNums
  <2> QED BY <2>3, <2>5, <2>6, <2>7 DEF BeatNamed, Num
<1>2. ASSUME NEW p \in Ports, SplitHead(p, tready, ins) PROVE BeatNamed'
  BY <1>1, <1>2 DEF SplitHead, Extra
<1>3. ASSUME NEW p \in Ports, SplitTail(p, tready, ins) PROVE BeatNamed'
  BY <1>1, <1>3 DEF SplitTail
<1>4. ASSUME NEW p \in Ports, WholeSegment(p, tready, ins) PROVE BeatNamed'
  <2>1. Granted(p)
    BY <1>4 DEF WholeSegment
  <2>2. Seg(p).eop \in BOOLEAN /\ (Seg(p).eop \/ Seg(p).n = SegUnits)
    BY <1>0, <2>1, ShownSegment DEF FInv, Segments, FullOrLast
  <2> QED BY <1>1, <1>4, <2>2 DEF WholeSegment
<1>5. ASSUME NothingGranted(tready, ins) PROVE BeatNamed'
  BY <1>5 DEF NothingGranted, NoBeat, BeatNamed
<1>6. ASSUME OutputHeld(tready, ins) PROVE BeatNamed'
  <2>1. sink' = sink /\ m_axis_rq' = m_axis_rq
    BY <1>6 DEF OutputHeld, OutputFree, Core, Handshake
  <2> QED BY <2>1 DEF BeatNamed, Starts, UnitCount
<1> QED BY <1>2, <1>3, <1>4, <1>5, <1>6 DEF Engine

\* The port the core takes a beat for is the one its number is flagged with.
LEMMA SinkSeqIsPorts ==
  ASSUME FramingLegal, SinkNamed, m_axis_rq.tvalid
  PROVE  PortOf(SinkSeq) = SinkPort /\ (Starts <=> sink = NoPort)
BY DEF FramingLegal, SinkNamed, SinkSeq, SinkPort

LEMMA SinkKeepsName ==
  ASSUME FramingLegal, SinkNamed, NEW tready, NEW back, Core(tready, back)
  PROVE  SinkNamed'
BY SinkSeqIsPorts DEF Core, Handshake, SinkNamed

LEMMA UnsentNumbers ==
  ASSUME EInv, NEW p \in Ports
  PROVE  Unsent(p) = Numbers(owed[p], sink = p, sink_seq % SEQ_NUM_FLAG,
                             ~NoMore(p), wr_src.seq)
<1>1. DOMAIN owed[p] = 1 .. Len(owed[p])
  BY ShownIsFirst DEF ShownBegins
<1>2. ~NoMore(p) <=> p = "wr" /\ wr_src # NoTlp
  BY DEF NoMore
<1> QED BY <1>1, <1>2 DEF Unsent, Numbers, Num

\* Only what is in use matters.
LEMMA NumberedAlike ==
  ASSUME NEW o, NEW open, NEW cur, NEW more, NEW src,
         Numbered(o, open, cur, more, src),
         NEW open2, NEW cur2, NEW more2, NEW src2,
         open2 <=> open, open => cur2 = cur, more2 <=> more, more => src2 = src
  PROVE  /\ Numbered(o, open2, cur2, more2, src2)
         /\ Numbers(o, open2, cur2, more2, src2)
              = Numbers(o, open, cur, more, src)
BY DEF Numbered, Numbers

\* The units on show are those of one TLP, which has the core's number.
LEMMA ShownNumber ==
  ASSUME EInv, SInv, NEW p \in Ports, m_axis_rq.tvalid, SinkPort = p,
         NEW n, n = Len(UnitsShown(p))
  PROVE  /\ n \in 1 .. Len(owed[p])
         /\ \A i \in 1 .. n - 1 : ~owed[p][i].eop
         /\ owed[p][n].eop <=> Ends
         /\ Num(owed[p][1]) = SinkSeq % SEQ_NUM_FLAG
<1> DEFINE o == owed[p]
           u == UnitsShown(p)
           c == UnitCount
<1>1. c \in 1 .. SegUnits
  BY DEF SInv, BeatNamed
<1>2. u = [i \in 1 .. c |-> [unit |-> m_axis_rq.data[i - 1],
                             sop  |-> i = 1 /\ Starts,
                             eop  |-> i = c /\ Ends]]
  BY DEF UnitsShown
<1>3. /\ o \in Seq(Words) /\ u \in Seq(Words) /\ n \in Nat /\ n <= Len(o)
      /\ u = SubSeq(o, 1, n)
  BY ShownIsFirst DEF ShownBegins, Begins
<1> HIDE DEF c
<1>4. n = c
  <2>1. DOMAIN u = 1 .. n
    BY <1>3
  <2>2. DOMAIN u = 1 .. c
    BY <1>2
  <2>3. 1 .. n = 1 .. c /\ n \in Nat /\ c \in Nat
    BY <1>1, <1>3, <2>1, <2>2, SegUnitsAssumption
  <2>4. n \in 1 .. n \/ n = 0
    BY <1>3
  <2>5. c \in 1 .. c /\ c \in 1 .. n
    BY <1>1, <2>3
  <2>6. n \in 1 .. c
    BY <2>3, <2>4, <2>5
  <2> QED BY <2>3, <2>5, <2>6
<1>5. n \in 1 .. Len(o)
  BY <1>1, <1>3, <1>4
<1>6. \A i \in 1 .. n : o[i] = u[i]
  <2> HIDE DEF o, u
  <2>1. SubSeq(o, 1, n) = [i \in 1 .. n |-> o[i]]
    BY ONLY <1>3, Beginning
  <2> QED BY <1>3, <2>1
<1>7. ASSUME NEW i \in 1 .. n
      PROVE  /\ o[i].eop <=> (i = n /\ Ends)
             /\ o[i].unit = m_axis_rq.data[i - 1]
  <2>1. u[i] = [unit |-> m_axis_rq.data[i - 1], sop  |-> i = 1 /\ Starts,
                eop  |-> i = n /\ Ends]
    BY <1>2, <1>4
  <2> HIDE DEF o, u
  <2>2. o[i] = [unit |-> m_axis_rq.data[i - 1], sop  |-> i = 1 /\ Starts,
                eop  |-> i = n /\ Ends]
    BY <1>6, <2>1
  <2>3. o[i].eop = (i = n /\ Ends)
    BY <2>2
  <2>4. o[i].unit = m_axis_rq.data[i - 1]
    BY <2>2
  <2> QED BY <2>3, <2>4
<1>8. 1 \in 1 .. n /\ n \in 1 .. n /\ 1 - 1 = 0
      /\ \A i \in 1 .. n - 1 : i \in 1 .. n /\ i # n
  BY <1>1, <1>4
<1>9. Num(o[1]) = SinkSeq % SEQ_NUM_FLAG
  <2>1. CASE Starts
    <3>1. o[1].unit = m_axis_rq.data[0]
      BY <1>7, <1>8
    <3>2. m_axis_rq.seq_num % SEQ_NUM_FLAG
            = Num([unit |-> m_axis_rq.data[0]])
      BY <2>1 DEF SInv, BeatNamed
    <3> QED BY <2>1, <3>1, <3>2 DEF Num, SinkSeq
  <2>2. CASE ~Starts
    <3>1. sink = p /\ SinkSeq = sink_seq
      BY <2>2 DEF SinkPort, SinkSeq
    <3>2. o # <<>>
      BY <1>3, <1>5
    <3> QED BY <3>1, <3>2 DEF SInv, NumbersKept, Numbered
  <2> QED BY <2>1, <2>2
<1>10. /\ \A i \in 1 .. n - 1 : ~o[i].eop
       /\ o[n].eop <=> Ends
  BY <1>7, <1>8
<1> QED BY <1>5, <1>9, <1>10

\* What the core has received whole on this edge.
Done(tready) == IF Handshake(tready) /\ Ends THEN {SinkSeq} ELSE {}

LEMMA CoreTakes ==
  ASSUME EInv, SInv, NEW tready \in BOOLEAN, NEW back, Core(tready, back),
         NEW p \in Ports
  PROVE  /\ Left(p, tready) \in Seq(Words)
         /\ Numbered(Left(p, tready), (sink = p)', (sink_seq % SEQ_NUM_FLAG)',
                     ~NoMore(p), wr_src.seq)
         /\ Numbers(Left(p, tready), (sink = p)', (sink_seq % SEQ_NUM_FLAG)',
                    ~NoMore(p), wr_src.seq)
              = Unsent(p) \ Returned(p, Done(tready))
         /\ Returned(p, Done(tready)) \subseteq Unsent(p)
<1> DEFINE o == owed[p]
           n == Len(UnitsShown(p))
           cur == sink_seq % SEQ_NUM_FLAG
           cur2 == sink_seq' % SEQ_NUM_FLAG
           open == sink = p
           open2 == sink' = p
           more == ~NoMore(p)
           src == wr_src.seq
           d == Left(p, tready)
<1>1. /\ o \in Seq(Words) /\ Numbered(o, open, cur, more, src)
      /\ Unsent(p) = Numbers(o, open, cur, more, src)
  BY ShownIsFirst, UnsentNumbers DEF ShownBegins, SInv, NumbersKept
<1>2. p # NoPort
  BY DEF Ports, NoPort
<1>3. m_axis_rq.tvalid => PortOf(SinkSeq) = SinkPort /\ (Starts <=> sink = NoPort)
  BY SinkSeqIsPorts DEF EInv, IInv, FInv, SInv
<1>4. CASE Handshake(tready) /\ SinkPort = p
  <2>1. /\ n \in 1 .. Len(o)
        /\ \A i \in 1 .. n - 1 : ~o[i].eop
        /\ o[n].eop <=> Ends
        /\ Num(o[1]) = SinkSeq % SEQ_NUM_FLAG
    BY <1>4, ShownNumber DEF Handshake
  <2>2. open2 <=> ~o[n].eop
    BY <1>2, <1>4, <2>1 DEF Core
  <2>3. open2 => cur2 = Num(o[1])
    BY <1>2, <1>4, <2>1 DEF Core
  <2>4. d = SubSeq(o, n + 1, Len(o))
    BY <1>4 DEF Left, Handshake
  <2>5. Returned(p, Done(tready)) = IF open2 THEN {} ELSE {Num(o[1])}
    <3>1. CASE Ends
      <4>1. Done(tready) = {SinkSeq} /\ ~open2
        BY <1>4, <2>1, <2>2, <3>1 DEF Done
      <4>2. PortOf(SinkSeq) = p
        BY <1>3, <1>4 DEF Handshake
      <4> QED BY <2>1, <4>1, <4>2 DEF Returned
    <3>2. CASE ~Ends
      <4>1. Done(tready) = {} /\ open2
        BY <2>1, <2>2, <3>2 DEF Done
      <4> QED BY <4>1 DEF Returned
    <3> QED BY <3>1, <3>2
  <2>6. d \in Seq(Words)
    <3> DEFINE l == Len(o)
    <3>1. l \in Nat /\ l = Len(o) /\ n \in Nat /\ n <= l
      BY <1>1, <2>1
    <3> HIDE DEF o, n, l, d
    <3>2. SubSeq(o, n + 1, l) \in Seq(Words)
      BY ONLY <1>1, <3>1, Remainder
    <3> QED BY <2>4, <3>1, <3>2
  <2> HIDE DEF o, n, cur, cur2, open, open2, more, src, d, Words
  <2>7. o \in Seq(Words) /\ TakesUnits(o, open, cur, more, src, n, open2, cur2)
    BY <1>1, <2>1, <2>2, <2>3 DEF TakesUnits
  <2>9. LeavesUnits(o, open, cur, more, src, d, open2, cur2)
    BY ONLY <2>4, <2>7, UnitsTaken, ZenonT(30)
  <2>8. /\ d \in Seq(Words)
        /\ Numbered(d, open2, cur2, more, src)
        /\ Numbers(d, open2, cur2, more, src)
             = Unsent(p) \ Returned(p, Done(tready))
        /\ Returned(p, Done(tready)) \subseteq Unsent(p)
    BY <1>1, <2>5, <2>6, <2>9 DEF LeavesUnits
  <2> QED BY <2>8 DEF d, open2, cur2, more, src
<1>5. CASE ~(Handshake(tready) /\ SinkPort = p)
  <2>1. d = o
    <3>1. tready => UnitsShown(p) = <<>>
      BY <1>5 DEF UnitsShown, Handshake
    <3>2. (IF tready THEN Len(UnitsShown(p)) ELSE 0) = 0
      BY <3>1
    <3>3. d = SubSeq(o, 0 + 1, Len(o))
      BY <3>2 DEF Left
    <3> QED BY <1>1, <3>3, WholeList
  <2>2. open2 <=> open
    BY <1>2, <1>3, <1>5 DEF Core, Handshake, SinkPort
  <2>3. open => cur2 = cur
    BY <1>2, <1>3, <1>5 DEF Core, Handshake, SinkPort
  <2>4. Returned(p, Done(tready)) = {}
    BY <1>3, <1>5 DEF Returned, Done, Handshake
  <2> HIDE DEF o, cur, cur2, open, open2, more, src, d, Words
  <2>5. /\ Numbered(o, open2, cur2, more, src)
        /\ Numbers(o, open2, cur2, more, src)
             = Numbers(o, open, cur, more, src)
    <3>1. (more <=> more) /\ (more => src = src)
      OBVIOUS
    <3> QED BY ONLY <1>1, <2>2, <2>3, <3>1, NumberedAlike
  <2>6. /\ d \in Seq(Words)
        /\ Numbered(d, open2, cur2, more, src)
        /\ Numbers(d, open2, cur2, more, src)
             = Unsent(p) \ Returned(p, Done(tready))
        /\ Returned(p, Done(tready)) \subseteq Unsent(p)
    BY <1>1, <2>1, <2>4, <2>5
  <2> QED BY <2>6 DEF d, open2, cur2, more, src
<1> QED BY <1>4, <1>5

\* What a port pushes, as numbers.
Pushed(in) == {in[i].seq : i \in DOMAIN in}

UnsentAsNumbers ==
  \A p \in Ports :
    Unsent(p) = Numbers(owed[p], sink = p, sink_seq % SEQ_NUM_FLAG,
                        ~NoMore(p), wr_src.seq)

LEMMA UnsentCounted == EInv => UnsentAsNumbers
BY UnsentNumbers DEF UnsentAsNumbers

\* An edge takes the number of a TLP the core has whole off a port's list, and
\* adds that of what the port pushes, which is new or of the TLP under way.
LEMMA PortKeepsNumbers ==
  ASSUME NEW tready \in BOOLEAN, NEW back, NEW credit, EInv, SInv,
         UnsentAsNumbers',
         NEW rd_in \in Push("rd", ReadTlps), NEW wr_in \in Push("wr", WriteTlps),
         Edge(tready, rd_in, wr_in, back, credit),
         NEW p \in Ports, NEW in, in = IF p = "rd" THEN rd_in ELSE wr_in
  PROVE  /\ NumbersKept(p)'
         /\ Unsent(p)' = (Unsent(p) \ Returned(p, Done(tready))) \cup Pushed(in)
         /\ \/ Pushed(in) \cap waiting[p] = {}
            \/ Pushed(in) \subseteq Unsent(p) \ Returned(p, Done(tready))
<1> DEFINE o == Left(p, tready)
           t == owed'[p]
           open == (sink = p)'
           cur == (sink_seq % SEQ_NUM_FLAG)'
           more == ~NoMore(p)
           more2 == ~NoMore(p)'
           src == wr_src.seq
           src2 == wr_src'.seq
           rest == Unsent(p) \ Returned(p, Done(tready))
           tlps == [q \in Ports |-> IF q = "rd" THEN rd_in ELSE wr_in]
<1>1. /\ o \in Seq(Words)
      /\ Numbered(o, open, cur, more, src)
      /\ Numbers(o, open, cur, more, src) = rest
  BY CoreTakes DEF Edge
<1>2. /\ tlps[p] = in
      /\ t = o \o (IF in = <<>> THEN <<>> ELSE UnitsOf(p, Segment(in[1])))
      /\ wr_src' = IF wr_in = <<>> THEN wr_src ELSE Rest(wr_in[1])
  BY DEF Edge, Account, Left
<1>3. /\ NumbersKept(p)' <=> Numbered(t, open, cur, more2, src2)
      /\ Unsent(p)' = Numbers(t, open, cur, more2, src2)
  BY DEF NumbersKept, UnsentAsNumbers
<1>4. CASE in = <<>>
  <2>1. t = o /\ Pushed(in) = {}
    <3>1. Pushed(in) = {}
      BY <1>4 DEF Pushed
    <3>2. t = o \o <<>>
      BY <1>2, <1>4
    <3> HIDE DEF o, t, Words
    <3> QED BY <1>1, <3>1, <3>2, EmptyRight
  <2>2. (more2 <=> more) /\ (more => src2 = src)
    BY <1>2, <1>4 DEF NoMore, Ports
  <2> HIDE DEF o, t, open, cur, more, more2, src, src2, rest, Words
  <2>3. /\ Numbered(o, open, cur, more2, src2)
        /\ Numbers(o, open, cur, more2, src2)
             = Numbers(o, open, cur, more, src)
    <3>1. (open <=> open) /\ (open => cur = cur)
      OBVIOUS
    <3> QED BY ONLY <1>1, <2>2, <3>1, NumberedAlike
  <2>4. NumbersKept(p)' /\ Unsent(p)' = rest \cup Pushed(in)
        /\ Pushed(in) \cap waiting[p] = {}
    BY <1>1, <1>3, <2>1, <2>3
  <2> QED BY <2>4 DEF rest
<1>5. CASE in # <<>>
  <2>1. PICK y \in IF p = "rd" THEN ReadTlps ELSE WriteTlps : in = <<y>>
    BY <1>5 DEF Push, Ports
  <2> DEFINE s == Segment(y)
             u == UnitsOf(p, s)
             x == y.seq
  <2>2. FifosOK /\ y \in Tlps
    BY OfferedTlps DEF EInv, IInv, FInv
  <2>3. p = "wr" => wr_src' = Rest(y)
    <3>1. p = "wr" => wr_in = <<y>> /\ wr_in # <<>> /\ wr_in[1] = y
      BY <1>5, <2>1 DEF Ports
    <3> HIDE DEF tlps
    <3> QED BY <1>2, <3>1
  <2>4. /\ s \in Segments /\ s.seq = x
        /\ s.eop <=> NoMore(p)'
        /\ Rest(y) # NoTlp => Rest(y).seq = x
    BY <2>2, <2>3, PushGoesOn, SegmentOf
  <2>5. t = o \o u
    BY <1>2, <1>5, <2>1
  <2>6. Pushed(in) = {x}
    BY <2>1 DEF Pushed
  <2>7. /\ u \in Seq(Words) /\ Len(u) \in Nat \ {0}
        /\ \A i \in 1 .. Len(u) : /\ Num(u[i]) = x
                                  /\ u[i].eop = (s.eop /\ i = Len(u))
    <3> HIDE DEF s
    <3>1. /\ UnitsOf(p, s) \in Seq(Words)
          /\ Len(UnitsOf(p, s)) \in Nat \ {0}
          /\ \A i \in 1 .. Len(UnitsOf(p, s)) :
               UnitsOf(p, s)[i]
                 = [unit |-> <<p, s.seq,
                               (IF s.sop THEN 0 ELSE s.first) + i - 1>>,
                    sop  |-> s.sop /\ i = 1,
                    eop  |-> s.eop /\ i = Len(UnitsOf(p, s))]
      BY <2>4, UnitsList
    <3> HIDE DEF Words
    <3>2. ASSUME NEW i \in 1 .. Len(u)
          PROVE  /\ u[i].unit = <<p, s.seq,
                                  (IF s.sop THEN 0 ELSE s.first) + i - 1>>
                 /\ u[i].eop = (s.eop /\ i = Len(u))
      <4>1. u[i] = [unit |-> <<p, s.seq,
                               (IF s.sop THEN 0 ELSE s.first) + i - 1>>,
                    sop  |-> s.sop /\ i = 1,
                    eop  |-> s.eop /\ i = Len(u)]
        BY <3>1
      <4> HIDE DEF u
      <4> QED BY <4>1
    <3>3. ASSUME NEW i \in 1 .. Len(u) PROVE Num(u[i]) = x
      <4> HIDE DEF u
      <4> QED BY <2>4, <3>2 DEF Num
    <3> QED BY <3>1, <3>2, <3>3
  <2>8. more2 <=> ~u[Len(u)].eop
    <3>1. Len(u) \in 1 .. Len(u)
      BY <2>7
    <3>2. u[Len(u)].eop = s.eop
      <4>1. s.eop \in BOOLEAN
        BY <2>4 DEF Segments
      <4> HIDE DEF u, s
      <4> QED BY <2>7, <3>1, <4>1
    <3> QED BY <2>4, <3>2
  <2>9. more2 => src2 = x
    BY <2>3, <2>4 DEF NoMore
  <2>10. more => x = src
    BY <2>1 DEF NoMore, WriteTlps
  <2>11. ~more => x \notin waiting[p]
    BY <2>1 DEF NoMore, WriteTlps, ReadTlps, Ports
  <2>12. rest \subseteq waiting[p]
    BY DEF SInv, EverySeqOnce
  <2> HIDE DEF o, t, open, cur, more, more2, src, src2, rest, Words, u, x, s
  <2>13. PutsUnits(o, open, cur, more, src, u, x, more2, src2)
    <3>1. u # <<>>
      BY <2>7
    <3>2. \A i \in 1 .. Len(u) : Num(u[i]) = x /\ (u[i].eop => i = Len(u))
      BY <2>7
    <3> QED BY <1>1, <2>8, <2>9, <2>10, <2>11, <2>12, <3>1, <3>2 DEF PutsUnits
  <2>14. HoldsUnits(o \o u, o, open, cur, more, src, x, more2, src2)
    <3>1. o \in Seq(Words) /\ u \in Seq(Words)
      BY <1>1, <2>7
    <3> QED BY ONLY <2>13, <3>1, UnitsPut, ZenonT(30)
  <2>15. /\ Numbered(t, open, cur, more2, src2)
         /\ Numbers(t, open, cur, more2, src2) = rest \cup {x}
         /\ more => x \in rest
    BY <1>1, <2>5, <2>14 DEF HoldsUnits
  <2>16. /\ NumbersKept(p)'
         /\ Unsent(p)' = rest \cup Pushed(in)
    BY <1>3, <2>6, <2>15
  <2>17. \/ Pushed(in) \cap waiting[p] = {}
         \/ Pushed(in) \subseteq rest
    BY <2>6, <2>11, <2>15
  <2> QED BY <2>16, <2>17 DEF rest
<1> QED BY <1>4, <1>5

\* Within a port, a number and its flagged form are one to one.
LEMMA ReturnedAfter ==
  ASSUME NEW p \in Ports, NEW c \in SUBSET RqSeqNums, NEW b \in SUBSET c, NEW d
  PROVE  /\ Returned(p, (c \ b) \cup d)
              = (Returned(p, c) \ Returned(p, b)) \cup Returned(p, d)
         /\ Returned(p, b) \subseteq Returned(p, c)
<1>1. ASSUME NEW x \in RqSeqNums, NEW y \in RqSeqNums,
             PortOf(x) = PortOf(y), x % SEQ_NUM_FLAG = y % SEQ_NUM_FLAG
      PROVE  x = y
  <2>1. ASSUME NEW z \in RqSeqNums
        PROVE  z % SEQ_NUM_FLAG = IF PortOf(z) = "rd" THEN z - SEQ_NUM_FLAG
                                                      ELSE z
    BY FlagAssumption DEF RqSeqNums, PortOf
  <2>2. /\ x % SEQ_NUM_FLAG = IF PortOf(x) = "rd" THEN x - SEQ_NUM_FLAG ELSE x
        /\ y % SEQ_NUM_FLAG = IF PortOf(y) = "rd" THEN y - SEQ_NUM_FLAG ELSE y
    BY <2>1
  <2> QED BY <1>1, <2>2, FlagAssumption DEF RqSeqNums
<1>2. Returned(p, b) \subseteq Returned(p, c)
  BY DEF Returned
<1>3. Returned(p, c \ b) = Returned(p, c) \ Returned(p, b)
  <2>1. ASSUME NEW v \in Returned(p, c \ b)
        PROVE  v \in Returned(p, c) \ Returned(p, b)
    <3>1. PICK x \in c \ b : PortOf(x) = p /\ v = x % SEQ_NUM_FLAG
      BY DEF Returned
    <3>2. ASSUME NEW y \in b, PortOf(y) = p, v = y % SEQ_NUM_FLAG PROVE FALSE
      BY <1>1, <3>1, <3>2
    <3>3. v \notin Returned(p, b)
      BY <3>2 DEF Returned
    <3>4. v \in Returned(p, c)
      BY <3>1 DEF Returned
    <3> QED BY <3>3, <3>4
  <2>2. ASSUME NEW v \in Returned(p, c) \ Returned(p, b)
        PROVE  v \in Returned(p, c \ b)
    BY DEF Returned
  <2> QED BY <2>1, <2>2
<1>4. Returned(p, (c \ b) \cup d) = Returned(p, c \ b) \cup Returned(p, d)
  BY DEF Returned
<1> QED BY <1>2, <1>3, <1>4

\* The balance of a port's numbers.
LEMMA Balance ==
  ASSUME NEW W, NEW U, NEW R, NEW B \in SUBSET R, NEW G \in SUBSET U, NEW T,
         W = U \cup R, U \cap R = {},
         T \cap W = {} \/ T \subseteq U \ G,
         NEW U2, U2 = (U \ G) \cup T, NEW R2, R2 = (R \ B) \cup G
  PROVE  (W \ B) \cup T = U2 \cup R2 /\ U2 \cap R2 = {}
OBVIOUS

LEMMA EdgeKeepsNumbers ==
  ASSUME NEW tready \in BOOLEAN, NEW back \in SUBSET in_core, NEW credit,
         EInv, SInv, UnsentAsNumbers',
         NEW rd_in \in Push("rd", ReadTlps), NEW wr_in \in Push("wr", WriteTlps),
         Edge(tready, rd_in, wr_in, back, credit)
  PROVE  SInv'
<1> DEFINE tlps == [p \in Ports |-> IF p = "rd" THEN rd_in ELSE wr_in]
           ins == [p \in Ports |->
                     [i \in DOMAIN tlps[p] |-> Segment(tlps[p][i])]]
<1>1. /\ Engine(tready, ins) /\ Core(tready, back)
      /\ Account(tready, back, tlps)
      /\ UNCHANGED RQ_STRADDLE_ENC
  BY DEF Edge
<1>2. BeatNamed'
  <2> HIDE DEF ins
  <2> QED BY <1>1, BeatKeepsName DEF SInv
<1>3. SinkNamed'
  BY <1>1, SinkKeepsName DEF EInv, IInv, FInv, SInv
<1>4. ASSUME NEW p \in Ports
      PROVE  /\ NumbersKept(p)'
             /\ waiting'[p] = Unsent(p)' \cup Returned(p, in_core')
             /\ Unsent(p)' \cap Returned(p, in_core') = {}
  <2> DEFINE T == Pushed(tlps[p])
             G == Returned(p, Done(tready))
             B == Returned(p, back)
             U == Unsent(p)
             R == Returned(p, in_core)
             U2 == Unsent(p)'
             R2 == Returned(p, in_core')
             W == waiting[p]
  <2>1. tlps[p] = IF p = "rd" THEN rd_in ELSE wr_in
    OBVIOUS
  <2>2. /\ NumbersKept(p)'
        /\ U2 = (U \ G) \cup T
        /\ T \cap W = {} \/ T \subseteq U \ G
    <3> DEFINE in == tlps[p]
    <3> HIDE DEF in
    <3>1. in = IF p = "rd" THEN rd_in ELSE wr_in
      BY <2>1 DEF in
    <3>2. /\ NumbersKept(p)'
          /\ Unsent(p)' = (Unsent(p) \ Returned(p, Done(tready)))
                            \cup Pushed(in)
          /\ \/ Pushed(in) \cap waiting[p] = {}
             \/ Pushed(in) \subseteq Unsent(p) \ Returned(p, Done(tready))
      <4> HIDE DEF tlps, ins
      <4> QED BY <3>1, PortKeepsNumbers
    <3> QED BY <3>2 DEF in
  <2>3. G \subseteq U
    BY <1>1, CoreTakes
  <2>4. in_core' = (in_core \ back) \cup Done(tready)
    BY <1>1 DEF Core, Done
  <2>5. R2 = (R \ B) \cup G /\ B \subseteq R
    BY <2>4, ReturnedAfter DEF EInv, TInv, NumbersOK
  <2>6. W = U \cup R /\ U \cap R = {}
    BY DEF SInv, EverySeqOnce
  <2>7. waiting'[p] = (W \ B) \cup T
    BY <1>1 DEF Account, Pushed
  <2> HIDE DEF T, G, B, U, R, U2, R2, W
  <2>8. (W \ B) \cup T = U2 \cup R2 /\ U2 \cap R2 = {}
    BY <2>2, <2>3, <2>5, <2>6, Balance
  <2> QED BY <2>2, <2>7, <2>8 DEF U2, R2
<1>5. EverySeqOnce'
  BY <1>4 DEF EverySeqOnce, Returned
<1> QED BY <1>2, <1>3, <1>4, <1>5 DEF SInv

\* Nothing is on its way at the start and after a reset.
NothingSent ==
  /\ ~m_axis_rq.tvalid /\ sink = NoPort /\ in_core = {} /\ wr_src = NoTlp
  /\ \A p \in Ports : waiting[p] = {} /\ owed[p] = <<>>

LEMMA NothingToReturn == NothingSent => SInv
<1> SUFFICES ASSUME NothingSent PROVE SInv
  OBVIOUS
<1>1. ASSUME NEW p \in Ports
      PROVE  /\ NumbersKept(p)
             /\ waiting[p] = Unsent(p) \cup Returned(p, in_core)
             /\ Unsent(p) \cap Returned(p, in_core) = {}
  <2>1. sink # p /\ NoMore(p) /\ owed[p] = <<>> /\ waiting[p] = {}
    BY DEF NothingSent, Ports, NoPort, NoMore
  <2>2. NumbersKept(p)
    BY <2>1 DEF NumbersKept, Numbered, OneNumber, EndsNumber
  <2>3. Unsent(p) = {} /\ Returned(p, in_core) = {}
    BY <2>1 DEF NothingSent, Unsent, Returned, NoMore
  <2> QED BY <2>1, <2>2, <2>3
<1>2. BeatNamed /\ SinkNamed
  BY DEF NothingSent, BeatNamed, SinkNamed
<1> QED BY <1>1, <1>2 DEF SInv, EverySeqOnce

LEMMA NumbersInductive ==
  EInv /\ UnsentAsNumbers' /\ SInv /\ [Next]_vars => SInv'
<1> SUFFICES ASSUME EInv, UnsentAsNumbers', SInv, [Next]_vars PROVE SInv'
  OBVIOUS
<1>1. CASE UNCHANGED vars
  BY <1>1 DEF vars, engVars, envVars, SInv, BeatNamed, SinkNamed, EverySeqOnce,
              NumbersKept, NoMore, Unsent, UnitCount, Starts
<1>2. ASSUME NEW tready \in BOOLEAN, Clock(tready) PROVE SInv'
  <2>1. PICK rd_in \in Push("rd", ReadTlps), wr_in \in Push("wr", WriteTlps),
             credit \in Credits, back \in SUBSET in_core :
               Edge(tready, rd_in, wr_in, back, credit)
    BY <1>2 DEF Clock
  <2> QED BY <2>1, EdgeKeepsNumbers
<1>3. ASSUME NEW tready \in BOOLEAN, NEW credit \in Credits,
             Reset(tready, credit)
      PROVE  SInv'
  <2>1. NothingSent'
    BY <1>3 DEF Reset, Restart, NothingSent, NoBeat
  <2> QED BY <2>1, NothingToReturn, PTL
<1> QED BY <1>1, <1>2, <1>3 DEF Next

\* "Returns every sequence number exactly once": each number a port waits for
\* is on its way to the core or held by it under that port's flag, never both,
\* and the core holds no other, whatever the sizes and the core's order.
THEOREM NumbersComeBackOnce == Spec => []EverySeqOnce
<1>1. Init => SInv
  <2>1. Init => NothingSent
    BY DEF Init, NothingSent, NoBeat
  <2> QED BY <2>1, NothingToReturn
<1>2. SInv => EverySeqOnce
  BY DEF SInv
<1> QED BY <1>1, <1>2, EngHolds, UnsentCounted, NumbersInductive, PTL DEF Spec

=============================================================================
