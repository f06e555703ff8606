------------------------------ MODULE RqEngine ------------------------------
(***************************************************************************)
(* The requester request engine, rtl/gen5x8/pcie_versal_if_rq.sv: it       *)
(* merges the TLPs of a read and a write port onto the core's 1024-bit RQ  *)
(* bus, a descriptor before the payload, and routes the sequence numbers   *)
(* the core returns.  The module guards make one segment of a beat's width *)
(* the only geometry, so the loops over segments run once.                 *)
(*                                                                         *)
(* A unit is the width of the descriptor (four dwords).  A beat has        *)
(* SegUnits of them; the payload of a write is shifted up by one, and what *)
(* the shift pushes out of a beat's top waits for the next one.  When that *)
(* happens to the last segment of a TLP it is split over two beats.        *)
(***************************************************************************)
EXTENDS Integers, Sequences, FiniteSets

CONSTANTS
  SegUnits,         (* units in a beat: TLP_DATA_WIDTH / 128               *)
  WrUnits,          (* payload units a write TLP may have                  *)
  SEQ_NUM_FLAG,     (* top bit of an RQ sequence number                    *)
  TX_SEQ_NUM_COUNT, (* sequence numbers the core returns at one edge       *)
  FifoDepth         (* bound: segments a port's FIFO holds                 *)

ASSUME SegUnitsAssumption == SegUnits \in Nat /\ SegUnits > 1
ASSUME WrUnitsAssumption == WrUnits \subseteq Nat \ {0}
ASSUME FlagAssumption == SEQ_NUM_FLAG \in Nat \ {0}
ASSUME FifoDepthAssumption == FifoDepth \in Nat

VARIABLES
  RQ_STRADDLE_ENC,  (* elaboration parameter: framing by tuser or by tkeep *)
  fifo,             (* the segments each port's FIFO shows, oldest first   *)
  credit_reg,       (* have_np_credit_reg and have_p_credit_reg            *)
  frame_reg,        (* a TLP has started and not ended                     *)
  port_reg,         (* its port                                            *)
  tlp_split1_reg,   (* the first beat of a split segment has gone          *)
  out_shift_reg,    (* the unit shifted out of the last beat               *)
  m_axis_rq,        (* the output register's beat, or NoBeat               *)
  wr_src,           (* write port: the TLP whose segments it still owes    *)
  sink,             (* core: port of the TLP it is receiving, or NoPort    *)
  sink_seq,         (* core: its sequence number                           *)
  in_core,          (* core: RQ sequence numbers it will return            *)
  waiting,          (* ports: sequence numbers issued and not returned     *)
  owed,             (* history: units put in each FIFO, not in the core    *)
  edge              (* history: alternates, so that every edge is a step   *)

engVars == <<RQ_STRADDLE_ENC, credit_reg, frame_reg, port_reg,
             tlp_split1_reg, out_shift_reg, m_axis_rq>>
envVars == <<fifo, wr_src, sink, sink_seq, in_core, waiting, owed>>
vars == <<engVars, envVars, edge>>

Ports == {"rd", "wr"}
SeqNums == 0 .. SEQ_NUM_FLAG - 1
Lanes == 0 .. SegUnits - 1

NoPort == "none"
Blank == <<"none", 0, 0>>   \* a unit nobody sent

\* What the output register stands for while its tvalid is low.
NoBeat == [tvalid |-> FALSE,
           data |-> [i \in Lanes |-> Blank], seq_num |-> 0, is_sop |-> FALSE,
           is_eop |-> FALSE, eop_ptr |-> 0, tkeep |-> {}, tlast |-> FALSE]

\* A segment: payload units first .. first + n - 1 of a TLP of a port.
Unit(p, s, i) == IF i < s.n THEN <<p, s.seq, s.first + i>> ELSE Blank

-----------------------------------------------------------------------------
(* The combinational block, for the segment port p's FIFO shows.           *)

Seg(p) == Head(fifo[p])
Header == ~frame_reg
split1 == frame_reg /\ tlp_split1_reg

\* Mutant of Eligible: the credits of the two ports are swapped.
EligibleSwapped(p) ==
  fifo[p] # <<>> /\ credit_reg[IF p = "rd" THEN "wr" ELSE "rd"]

Eligible(p) == fifo[p] # <<>> /\ credit_reg[p]

\* Mutant of Granted: the read port comes first before credit is looked at.
GrantedBeforeCredit(p) ==
  IF frame_reg
    THEN port_reg = p /\ fifo[p] # <<>>
    ELSE Eligible(p) /\ (p = "wr" => fifo["rd"] = <<>>)

\* The open TLP goes on as soon as its next segment is there; a new one needs
\* credit, and the read port comes first.
Granted(p) ==
  IF frame_reg
    THEN port_reg = p /\ fifo[p] # <<>>
    ELSE Eligible(p) /\ (p = "wr" => ~Eligible("rd"))

\* port_seg_extra: the last segment reaches into the beat's top unit.
Extra(p) == Seg(p).eop /\ Seg(p).n = SegUnits

\* Mutant of rq_seq: the flag is one bit too high.
rq_seq_wide(p) == Seg(p).seq + (IF p = "rd" THEN 2 * SEQ_NUM_FLAG ELSE 0)

rq_seq(p) == Seg(p).seq + (IF p = "rd" THEN SEQ_NUM_FLAG ELSE 0)

\* Mutant of Strb: the second beat of a split keeps the segment's strobes.
StrbUnsplit(p, split2) ==
  {i \in Lanes : IF i = 0 THEN Header \/ out_shift_reg # Blank
                          ELSE i <= Seg(p).n}

\* out_tlp_strb, in lanes.
Strb(p, split2) ==
  {i \in Lanes : IF i = 0 THEN Header \/ out_shift_reg # Blank
                          ELSE ~split2 /\ i <= Seg(p).n}

Highest(S) == IF S = {} THEN 0 ELSE CHOOSE i \in S : \A j \in S : j <= i

\* The beat built from the segment: tdata, and the framing in tuser, or in
\* tkeep and tlast.
Beat(p, eop, split2) ==
  [tvalid  |-> TRUE,
   data    |-> [i \in Lanes |->
                  IF i > 0 THEN Unit(p, Seg(p), i - 1)
                           ELSE IF Header THEN <<p, Seg(p).seq, 0>>
                                          ELSE out_shift_reg],
   seq_num |-> rq_seq(p),
   is_sop  |-> RQ_STRADDLE_ENC /\ Header,
   is_eop  |-> RQ_STRADDLE_ENC /\ eop,
   eop_ptr |-> Highest(Strb(p, split2)),
   tkeep   |-> IF RQ_STRADDLE_ENC THEN {} ELSE Strb(p, split2),
   tlast   |-> ~RQ_STRADDLE_ENC /\ eop]

-----------------------------------------------------------------------------
(* The engine's part of an edge.  ins is what the ports push.              *)

OutputFree(tready) == ~m_axis_rq.tvalid \/ tready

FifosAfter(read, ins) ==
  fifo' = [p \in Ports |->
             (IF p \in read THEN Tail(fifo[p]) ELSE fifo[p]) \o ins[p]]

Emit(p, eop, split2) ==
  /\ m_axis_rq' = Beat(p, eop, split2)
  /\ out_shift_reg' = Unit(p, Seg(p), SegUnits - 1)
  /\ port_reg' = p

\* The first beat of a split segment, which stays in the FIFO.
SplitHead(p, tready, ins) ==
  /\ OutputFree(tready) /\ Granted(p) /\ Extra(p) /\ ~split1
  /\ Emit(p, FALSE, FALSE)
  /\ frame_reg' = TRUE /\ tlp_split1_reg' = TRUE
  /\ FifosAfter({}, ins)

\* The second one ends the TLP.
SplitTail(p, tready, ins) ==
  /\ OutputFree(tready) /\ Granted(p) /\ Extra(p) /\ split1
  /\ Emit(p, TRUE, TRUE)
  /\ frame_reg' = FALSE /\ tlp_split1_reg' = FALSE
  /\ FifosAfter({p}, ins)

\* A segment that makes one beat.
WholeSegment(p, tready, ins) ==
  /\ OutputFree(tready) /\ Granted(p) /\ ~Extra(p)
  /\ Emit(p, Seg(p).eop, FALSE)
  /\ frame_reg' = ~Seg(p).eop /\ tlp_split1_reg' = split1
  /\ FifosAfter({p}, ins)

\* Nothing to send: no credit, no TLP, or the open one's rest is missing.
NothingGranted(tready, ins) ==
  /\ OutputFree(tready) /\ \A p \in Ports : ~Granted(p)
  /\ m_axis_rq' = NoBeat
  /\ FifosAfter({}, ins)
  /\ UNCHANGED <<frame_reg, port_reg, tlp_split1_reg, out_shift_reg>>

OutputHeld(tready, ins) ==
  /\ ~OutputFree(tready)
  /\ FifosAfter({}, ins)
  /\ UNCHANGED <<frame_reg, port_reg, tlp_split1_reg, out_shift_reg,
                 m_axis_rq>>

Engine(tready, ins) ==
  \/ \E p \in Ports : \/ SplitHead(p, tready, ins)
                      \/ SplitTail(p, tready, ins)
                      \/ WholeSegment(p, tready, ins)
  \/ NothingGranted(tready, ins)
  \/ OutputHeld(tready, ins)

-----------------------------------------------------------------------------
(* The core: what it makes of a beat, and the sequence numbers it returns. *)

Starts == IF RQ_STRADDLE_ENC THEN m_axis_rq.is_sop ELSE sink = NoPort
Ends == m_axis_rq.is_eop \/ m_axis_rq.tlast

\* The port the core will answer: the flag of the number it was given.
PortOf(seq_num) == IF seq_num >= SEQ_NUM_FLAG THEN "rd" ELSE "wr"

SinkPort == IF Starts THEN PortOf(m_axis_rq.seq_num) ELSE sink
SinkSeq == IF Starts THEN m_axis_rq.seq_num ELSE sink_seq

UnitCount ==
  CASE ~RQ_STRADDLE_ENC  -> Cardinality(m_axis_rq.tkeep)
    [] m_axis_rq.is_eop  -> m_axis_rq.eop_ptr + 1
    [] OTHER             -> SegUnits

\* The units the core reads off the beat, with their framing.
UnitsShown(p) ==
  IF m_axis_rq.tvalid /\ SinkPort = p
    THEN [i \in 1 .. UnitCount |->
            [unit |-> m_axis_rq.data[i - 1],
             sop  |-> i = 1 /\ Starts,
             eop  |-> i = UnitCount /\ Ends]]
    ELSE <<>>

\* Mutant of Returned: a number of the read port is strobed to both.
ReturnedToBoth(p, back) ==
  {x % SEQ_NUM_FLAG : x \in {y \in back : p = "wr" \/ PortOf(y) = p}}

\* m_axis_rd_req_tx_seq_num, m_axis_wr_req_tx_seq_num: the number without its
\* flag, strobed to the port the flag names.
Returned(p, back) == {x % SEQ_NUM_FLAG : x \in {y \in back : PortOf(y) = p}}

Handshake(tready) == m_axis_rq.tvalid /\ tready

Core(tready, back) ==
  /\ sink' = IF Handshake(tready)
               THEN IF Ends THEN NoPort ELSE SinkPort
               ELSE sink
  /\ sink_seq' = IF Handshake(tready)
                   THEN IF Ends THEN 0 ELSE SinkSeq
                   ELSE sink_seq
  /\ in_core' = (in_core \ back)
                  \cup (IF Handshake(tready) /\ Ends THEN {SinkSeq} ELSE {})

-----------------------------------------------------------------------------
(* The two ports: TLPs enter the FIFOs segment by segment.  A TLP is its   *)
(* sequence number, the first payload unit not pushed yet and how many are *)
(* left; a read has none.                                                  *)

NoTlp == [seq |-> 0, first |-> 0, left |-> 0]

ReadTlps == {[seq |-> s, first |-> 1, left |-> 0] : s \in SeqNums \ waiting["rd"]}

WriteTlps ==
  IF wr_src # NoTlp
    THEN {wr_src}
    ELSE {[seq |-> s, first |-> 1, left |-> u] :
            s \in SeqNums \ waiting["wr"], u \in WrUnits}

Segment(t) ==
  LET n == IF t.left < SegUnits THEN t.left ELSE SegUnits
  IN  [seq |-> t.seq, first |-> t.first, n |-> n,
       sop |-> t.first = 1, eop |-> n = t.left]

Rest(t) ==
  IF t.left <= SegUnits
    THEN NoTlp
    ELSE [t EXCEPT !.first = @ + SegUnits, !.left = @ - SegUnits]

\* A segment's units, and the descriptor before the first one.
UnitsOf(p, s) ==
  LET k == IF s.sop THEN 0 ELSE s.first
      m == s.first + s.n - k
  IN  [i \in 1 .. m |-> [unit |-> <<p, s.seq, k + i - 1>>,
                         sop  |-> s.sop /\ i = 1,
                         eop  |-> s.eop /\ i = m]]

\* At most one segment enters a FIFO on an edge.
Push(p, T) ==
  {<<>>} \cup (IF Len(fifo[p]) < FifoDepth THEN {<<t>> : t \in T} ELSE {})

Account(tready, back, tlps) ==
  /\ waiting' = [p \in Ports |->
                   (waiting[p] \ Returned(p, back))
                     \cup {tlps[p][i].seq : i \in DOMAIN tlps[p]}]
  /\ owed' = [p \in Ports |->
                SubSeq(owed[p],
                       (IF tready THEN Len(UnitsShown(p)) ELSE 0) + 1,
                       Len(owed[p]))
                  \o (IF tlps[p] = <<>>
                        THEN <<>> ELSE UnitsOf(p, Segment(tlps[p][1])))]

\* One clock edge: the core is ready or not, the ports push rd_in and wr_in,
\* the core returns the numbers of back, and credit is what it advertises.
Edge(tready, rd_in, wr_in, back, credit) ==
  LET tlps == [p \in Ports |-> IF p = "rd" THEN rd_in ELSE wr_in]
  IN  /\ Engine(tready, [p \in Ports |-> [i \in DOMAIN tlps[p] |->
                                            Segment(tlps[p][i])]])
      /\ Core(tready, back)
      /\ wr_src' = IF wr_in = <<>> THEN wr_src ELSE Rest(wr_in[1])
      /\ Account(tready, back, tlps)
      /\ credit_reg' = credit
      /\ edge' = 1 - edge
      /\ UNCHANGED RQ_STRADDLE_ENC

\* Mutant of Restart: an open TLP survives.
RestartKeepsFrame == m_axis_rq' = NoBeat /\ UNCHANGED <<frame_reg, port_reg>>

\* What rst clears in the engine.
Restart == m_axis_rq' = NoBeat /\ frame_reg' = FALSE /\ port_reg' = "rd"

\* An edge with rst.  The split and shift registers load as on any other; the
\* FIFOs, the ports and the core restart too.
Reset(tready, credit) ==
  LET granted == {p \in Ports : OutputFree(tready) /\ Granted(p)}
  IN  /\ Restart
      /\ IF granted = {}
           THEN UNCHANGED <<tlp_split1_reg, out_shift_reg>>
           ELSE \E p \in granted :
                  /\ tlp_split1_reg' = (Extra(p) /\ ~split1)
                  /\ out_shift_reg' = Unit(p, Seg(p), SegUnits - 1)
      /\ credit_reg' = credit
      /\ edge' = 1 - edge
      /\ UNCHANGED RQ_STRADDLE_ENC
      /\ fifo' = [p \in Ports |-> <<>>]
      /\ wr_src' = NoTlp
      /\ sink' = NoPort /\ sink_seq' = 0 /\ in_core' = {}
      /\ waiting' = [p \in Ports |-> {}]
      /\ owed' = [p \in Ports |-> <<>>]

Init ==
  /\ RQ_STRADDLE_ENC \in BOOLEAN
  /\ edge = 0
  /\ fifo = [p \in Ports |-> <<>>]
  /\ credit_reg = [p \in Ports |-> FALSE]
  /\ frame_reg = FALSE /\ port_reg = "rd"
  /\ tlp_split1_reg = FALSE /\ out_shift_reg = Blank
  /\ m_axis_rq = NoBeat
  /\ wr_src = NoTlp
  /\ sink = NoPort /\ sink_seq = 0 /\ in_core = {}
  /\ waiting = [p \in Ports |-> {}]
  /\ owed = [p \in Ports |-> <<>>]

Credits == [Ports -> BOOLEAN]

Clock(tready) ==
  \E rd_in \in Push("rd", ReadTlps), wr_in \in Push("wr", WriteTlps),
     credit \in Credits :
    \E back \in SUBSET in_core :
      /\ Cardinality(back) <= TX_SEQ_NUM_COUNT
      /\ Edge(tready, rd_in, wr_in, back, credit)

Next == \E tready \in BOOLEAN :
          Clock(tready) \/ \E credit \in Credits : Reset(tready, credit)

\* An edge on which the core is ready, returns what it holds, and a port that
\* owes the rest of a TLP and can push it does.
Helpful ==
  \E rd_in \in Push("rd", ReadTlps), wr_in \in Push("wr", WriteTlps),
     credit \in Credits :
    /\ wr_src # NoTlp /\ Len(fifo["wr"]) < FifoDepth => wr_in # <<>>
    /\ Edge(TRUE, rd_in, wr_in, in_core, credit)

(***************************************************************************)
(* The clock runs, reset is not held, the core goes on taking beats and    *)
(* returning numbers, and a write that was started is finished.  Nothing   *)
(* is assumed of credit.                                                   *)
(***************************************************************************)
Fairness == WF_vars(Helpful)

Spec == Init /\ [][Next]_vars
FairSpec == Spec /\ Fairness

-----------------------------------------------------------------------------
TypeOK ==
  /\ RQ_STRADDLE_ENC \in BOOLEAN
  /\ frame_reg \in BOOLEAN /\ tlp_split1_reg \in BOOLEAN
  /\ port_reg \in Ports
  /\ credit_reg \in [Ports -> BOOLEAN]
  /\ waiting \in [Ports -> SUBSET SeqNums]
  /\ in_core \subseteq 0 .. 2 * SEQ_NUM_FLAG - 1
  /\ sink \in Ports \cup {NoPort}
  /\ \A p \in Ports : Len(fifo[p]) <= FifoDepth

(***************************************************************************)
(* What the core's receiver insists on (Cpm5Rq1024Sink): a beat starts a   *)
(* TLP exactly when none is open, and tkeep is a run from lane 0 that is   *)
(* full unless the TLP ends.  The engine keeps its side of it through      *)
(* splits, arbitration and resets.                                         *)
(***************************************************************************)
FramingLegal ==
  m_axis_rq.tvalid =>
    /\ Starts <=> sink = NoPort
    /\ ~RQ_STRADDLE_ENC =>
         \E n \in 1 .. SegUnits : /\ m_axis_rq.tkeep = 0 .. n - 1
                                  /\ n = SegUnits \/ m_axis_rq.tlast

(***************************************************************************)
(* Each port's TLPs reach the core whole, in order and once, descriptor    *)
(* first, without a unit of the other port between, under every stall of   *)
(* the core, credit and FIFO.                                              *)
(***************************************************************************)
RdStream == INSTANCE TlpStream WITH
  stream <- owed["rd"], shown <- UnitsShown("rd")
WrStream == INSTANCE TlpStream WITH
  stream <- owed["wr"], shown <- UnitsShown("wr")

ImplementsStreams == RdStream!Spec /\ WrStream!Spec

(***************************************************************************)
(* "Returns every sequence number exactly once": a number a port waits for *)
(* is on its way to the core or held by it, under that port's flag, and    *)
(* the core holds no other.                                                *)
(***************************************************************************)
Unsent(p) ==
  {owed[p][i].unit[2] : i \in DOMAIN owed[p]}
    \cup (IF p = "wr" /\ wr_src # NoTlp THEN {wr_src.seq} ELSE {})
    \cup (IF sink = p THEN {sink_seq % SEQ_NUM_FLAG} ELSE {})

EverySeqOnce ==
  \A p \in Ports :
    /\ waiting[p] = Unsent(p) \cup Returned(p, in_core)
    /\ Unsent(p) \cap Returned(p, in_core) = {}

(***************************************************************************)
(* Posted traffic that is out of credit never holds up a read: once the    *)
(* core keeps non-posted credit, every read comes back.                    *)
(***************************************************************************)
ReadsComeBack ==
  <>[]credit_reg["rd"] =>
    \A s \in SeqNums : s \in waiting["rd"] ~> s \notin waiting["rd"]

(***************************************************************************)
(* The read port has fixed priority, but a read that lacks credit does not *)
(* use it: with posted credit and no read that could go, writes go, reads  *)
(* waiting or not.                                                         *)
(***************************************************************************)
WritesGoWhenReadsRest ==
  <>[](credit_reg["wr"] /\ ~Eligible("rd")) =>
    \A s \in SeqNums : s \in waiting["wr"] ~> s \notin waiting["wr"]

=============================================================================
