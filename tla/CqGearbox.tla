----------------------------- MODULE CqGearbox -----------------------------
(***************************************************************************)
(* The completer-request gearbox: one 1024-bit beat of the core becomes    *)
(* one or two 512-bit halves for the 512-bit shim                          *)
(* (rtl/gen5x8/pcie_versal_if_cqcc_gearbox.sv, CQ half).                   *)
(*                                                                         *)
(* A dword is one unit of a beat: dwords 0 .. half-1 are the low half and  *)
(* half .. 2*half-1 the high half.  The instance scales the half width     *)
(* down and keeps what the code depends on: how many packets can start     *)
(* and end in a half, and where.  Payload, byte enables, TPH and PASID     *)
(* fields travel with their packet start and are the start's slot number.  *)
(***************************************************************************)
EXTENDS CqSkid, TlpBeats

CONSTANT
  Builds,  (* [straddle, half, weight]: CQ_STRADDLE, dwords in a half,      *)
           (* CQ_SOP_PTR_DW in dwords                                       *)
  BusBeats(_)  (* the beats the core sends a build                          *)

VARIABLES
  build,         (* elaboration parameters: never change                   *)
  cq_phase_reg,  (* the low half has gone, the high half is next           *)
  cq_open_reg,   (* a packet is open where the output register's beat begins *)
  bus_open,      (* the core's bus: a packet is open after the last beat    *)
  owed           (* history: dwords accepted and not yet handed over        *)

cqVars == <<skidVars, build, cq_phase_reg, cq_open_reg, bus_open, owed>>

HalfSlots == 2  \* packet starts (and ends) one 512-bit beat can mark

Dwords(c) == 0 .. 2 * c.half - 1
HalfOf(c, d) == d \div c.half

\* A beat as the core drives it.  Straddled: sop_ptr and eop_ptr hold the
\* pointers of the starts and ends it marks, in slot order.  Otherwise keep
\* is the number of dwords tkeep marks, from dword 0, and last is tlast.
\* open: a packet is open where the beat begins (not a wire: what the core
\* knows of its own stream).
SopDw(c, b) == [i \in DOMAIN b.sop_ptr |-> b.sop_ptr[i] * c.weight]
EopDw(c, b) == b.eop_ptr

SopAt(c, b) == Marks(SopDw(c, b))
EopAt(c, b) == Marks(EopDw(c, b))

-----------------------------------------------------------------------------
(* The combinational split of beat b in build c, a packet being open where *)
(* it begins or not (cq_open_reg).                                         *)

\* The walk over the dwords, or what tkeep marks.
Strb(c, b, open) ==
  IF c.straddle
    THEN {d \in Dwords(c) : Carries(SopAt(c, b), EopAt(c, b), open, d)}
    ELSE {d \in Dwords(c) : d < b.keep}

OpenNext(c, b, open) ==
  IF c.straddle
    THEN OpenBefore(SopAt(c, b), EopAt(c, b), open, 2 * c.half)
    ELSE ~b.last

\* The slots whose mark falls in half h (dw: the dword each slot marks).
MarksIn(c, dw, h) == {i \in DOMAIN dw : HalfOf(c, dw[i]) = h}

\* Mutant of FirstSlots: the second packet start or end of a half is dropped.
FirstSlot(M) == {i \in M : \A j \in M : i <= j}

FirstSlots(M) == {i \in M : Cardinality({j \in M : j < i}) < HalfSlots}

\* is_sop, sop_ptr and the per-packet fields of half h.  Not straddled: the
\* low half starts a packet unless one is open.
HalfSop(c, b, open, h) ==
  IF c.straddle
    THEN {[ptr |-> SopDw(c, b)[i] % c.half, slot |-> i] :
            i \in FirstSlots(MarksIn(c, SopDw(c, b), h))}
    ELSE {[ptr |-> 0, slot |-> 1] : x \in {y \in {h} : y = 0 /\ ~open}}

\* is_eop and eop_ptr of half h.  Not straddled: the last dword of the beat,
\* in the high half if that one holds any.
HalfEop(c, b, open, h) ==
  IF c.straddle
    THEN {EopDw(c, b)[i] % c.half :
            i \in FirstSlots(MarksIn(c, EopDw(c, b), h))}
    ELSE {d % c.half : d \in {x \in Strb(c, b, open) :
                                /\ b.last /\ HalfOf(c, x) = h
                                /\ x + 1 \notin Strb(c, b, open)}}

\* Mutant of ErrSlot: two marks in a half already count as too many.
ErrSlotEarly(c, b) ==
  /\ c.straddle
  /\ \E h \in {0, 1}, dw \in {SopDw(c, b), EopDw(c, b)} :
       Cardinality(MarksIn(c, dw, h)) >= HalfSlots

ErrSlot(c, b) ==
  /\ c.straddle
  /\ \E h \in {0, 1}, dw \in {SopDw(c, b), EopDw(c, b)} :
       Cardinality(MarksIn(c, dw, h)) > HalfSlots

\* cq_err_gap: half h holds dwords, but not its first one.
LeadingGap(c, b, open, h) ==
  /\ c.straddle
  /\ \E d \in Strb(c, b, open) : HalfOf(c, d) = h
  /\ h * c.half \notin Strb(c, b, open)

BeatCloses(c, b, open) ==
  IF c.straddle THEN EopAt(c, b) # {} /\ ~OpenNext(c, b, open) ELSE b.last

-----------------------------------------------------------------------------
(* The dwords of a packet stream, as the two ends of the gearbox see them. *)

\* What the core put on its bus.
Tokens(c, b) ==
  IF c.straddle
    THEN LET s == InOrder({d \in Dwords(c) :
                       InPacket(b.open, SopDw(c, b), EopDw(c, b), d)})
         IN  [i \in DOMAIN s |->
               [dw  |-> s[i],
                sop |-> {j \in DOMAIN b.sop_ptr : SopDw(c, b)[j] = s[i]},
                eop |-> s[i] \in EopAt(c, b)]]
    ELSE [i \in 1 .. b.keep |->
           [dw  |-> i - 1,
            sop |-> IF i = 1 /\ ~b.open THEN {1} ELSE {},
            eop |-> b.last /\ i = b.keep]]

OpenAfter(c, b) ==
  IF c.straddle
    THEN (IF b.open THEN 1 ELSE 0) + Len(b.sop_ptr) > Len(b.eop_ptr)
    ELSE ~b.last

\* No dword of a beat.
Unreadable(c) == [dw |-> 2 * c.half, sop |-> {}, eop |-> FALSE]

\* What the shim reads off half h: the dwords tkeep marks and the packet
\* starts and ends the pointers put there.  A half is expected to be filled
\* from its first dword: what the shim makes of one that is not is unknown
\* (the gearbox calls it not expressible), so none of it counts as read.
HalfTokens(c, b, open, h) ==
  LET s == InOrder({d \in Strb(c, b, open) : HalfOf(c, d) = h})
  IN  [i \in DOMAIN s |->
        IF LeadingGap(c, b, open, h)
          THEN Unreadable(c)
          ELSE [dw  |-> s[i],
                sop |-> {x.slot : x \in {y \in HalfSop(c, b, open, h) :
                                           y.ptr = s[i] % c.half}},
                eop |-> s[i] % c.half \in HalfEop(c, b, open, h)]]

-----------------------------------------------------------------------------
\* The combinational block as a table, one row per beat it can be shown.
SplitOf ==
  [c \in Builds |-> [b \in Beats |-> [open \in BOOLEAN |->
     [occ       |-> [h \in {0, 1} |->
                      \E d \in Strb(c, b, open) : HalfOf(c, d) = h],
      eops      |-> [h \in {0, 1} |-> HalfEop(c, b, open, h)],
      tokens    |-> [h \in {0, 1} |-> HalfTokens(c, b, open, h)],
      open_next |-> OpenNext(c, b, open),
      closes    |-> BeatCloses(c, b, open),
      gap       |-> [h \in {0, 1} |-> LeadingGap(c, b, open, h)],
      err_slot  |-> ErrSlot(c, b)]]]]

TokensOf == [c \in Builds |-> [b \in Beats |-> Tokens(c, b)]]

split == SplitOf[build][cq_reg][cq_open_reg]

status_error_cq_slot_overflow == cq_reg_tvalid /\ split.err_slot

status_error_cq_leading_gap == cq_reg_tvalid /\ \E h \in {0, 1} : split.gap[h]

cq_any == split.occ[0] \/ split.occ[1]
cq_sel == IF cq_phase_reg \/ ~split.occ[0] THEN 1 ELSE 0

\* Mutant of cq_last_half: a beat with both halves stops after the first.
cq_last_half_always == TRUE

\* Mutant of cq_last_half: which half is on show is not looked at.
cq_last_half_no_phase == ~(split.occ[0] /\ split.occ[1])

cq_last_half == ~(~cq_phase_reg /\ split.occ[0] /\ split.occ[1])

m_axis_cq_tvalid == cq_reg_tvalid /\ cq_any
m_axis_cq_tlast  == cq_last_half /\ split.closes

cq_reg_ready(m_axis_cq_tready) ==
  cq_any => m_axis_cq_tready /\ cq_last_half

Shown == split.tokens[cq_sel]

-----------------------------------------------------------------------------
Fits(b) == b.open = bus_open

Idle == [open |-> FALSE, sop_ptr |-> <<>>, eop_ptr |-> <<>>,
         keep |-> 0, last |-> FALSE]

\* What the core promises of a beat: marks on the beat's dwords, packet after
\* packet; or, with one packet per beat, some dwords.
LegalBeat(c, b) ==
  IF c.straddle
    THEN /\ b.sop_ptr \in Seq(Nat) /\ SopAt(c, b) \subseteq Dwords(c)
         /\ b.eop_ptr \in Seq(Dwords(c))
         /\ Alternate(b.open, SopDw(c, b), EopDw(c, b))
    ELSE b.keep \in 1 .. 2 * c.half /\ b.last \in BOOLEAN

ASSUME TrafficAssumption ==
  /\ Idle \in Beats
  /\ \A c \in Builds :
       /\ c.straddle \in BOOLEAN
       /\ c.half \in Nat \ {0} /\ c.weight \in Nat \ {0}
       /\ BusBeats(c) \subseteq Beats
       /\ \A b \in BusBeats(c) : LegalBeat(c, b)

CqInit ==
  /\ build \in Builds
  /\ cq_reg = Idle /\ cq_skid = Idle
  /\ cq_reg_tvalid = FALSE /\ cq_skid_tvalid = FALSE
  /\ cq_in_ready_reg = FALSE
  /\ cq_phase_reg = FALSE /\ cq_open_reg = FALSE
  /\ bus_open = FALSE
  /\ accepted = <<>> /\ owed = <<>>

\* The output register's half of the edge: phase and open.
Advance(m_axis_cq_tready) ==
  \/ /\ m_axis_cq_tvalid /\ m_axis_cq_tready
     /\ cq_phase_reg' = ~cq_last_half
     /\ cq_open_reg' = IF cq_last_half THEN split.open_next ELSE cq_open_reg
  \/ /\ cq_reg_tvalid /\ ~cq_any
     /\ cq_open_reg' = split.open_next
     /\ UNCHANGED cq_phase_reg
  \/ /\ IF m_axis_cq_tvalid THEN ~m_axis_cq_tready ELSE ~cq_reg_tvalid
     /\ UNCHANGED <<cq_phase_reg, cq_open_reg>>

\* The ledger: dwords taken off the bus join it, dwords handed over leave it.
Account(tvalid, beat, m_axis_cq_tready) ==
  LET handed == IF m_axis_cq_tvalid /\ m_axis_cq_tready THEN Len(Shown) ELSE 0
      taken  == tvalid /\ cq_in_ready_reg
  IN  /\ owed' = SubSeq(owed, handed + 1, Len(owed))
                   \o (IF taken THEN TokensOf[build][beat] ELSE <<>>)
      /\ bus_open' = IF taken THEN OpenAfter(build, beat) ELSE bus_open

\* One clock edge: the bus offers a beat or idles, the shim is ready or not.
Edge(tvalid, beat, m_axis_cq_tready) ==
  /\ tvalid => Fits(beat)
  /\ SkidEdge(tvalid, beat, cq_reg_ready(m_axis_cq_tready))
  /\ Advance(m_axis_cq_tready)
  /\ Account(tvalid, beat, m_axis_cq_tready)
  /\ UNCHANGED build

\* An edge with rst: the core and the shim restart with the gearbox.
Reset(beat, m_axis_cq_tready) ==
  /\ SkidReset(beat, cq_reg_ready(m_axis_cq_tready))
  /\ cq_phase_reg' = FALSE /\ cq_open_reg' = FALSE
  /\ bus_open' = FALSE /\ owed' = <<>>
  /\ UNCHANGED build

\* While tready is low the edge is the same whatever the bus holds.
Offer(m_axis_cq_tready) ==
  \/ /\ cq_in_ready_reg
     /\ \E beat \in BusBeats(build) : Edge(TRUE, beat, m_axis_cq_tready)
  \/ Edge(FALSE, Idle, m_axis_cq_tready)

CqNext ==
  \E m_axis_cq_tready \in BOOLEAN :
    Offer(m_axis_cq_tready) \/ Reset(Idle, m_axis_cq_tready)

\* The shim keeps taking halves, and reset is not held forever.
CqSpec == CqInit /\ [][CqNext]_cqVars /\ WF_cqVars(Offer(TRUE))

-----------------------------------------------------------------------------
CqTypeOK ==
  /\ SkidTypeOK
  /\ build \in Builds
  /\ cq_phase_reg \in BOOLEAN /\ cq_open_reg \in BOOLEAN
  /\ bus_open \in BOOLEAN
  /\ Len(owed) <= 4 * build.half

(***************************************************************************)
(* Whatever the order in which the bus offers beats and the shim stalls:   *)
(* the shim gets every dword the core sent, in order and once, each packet *)
(* start with its own fields and each packet end where it was, and a half  *)
(* that is on show does not change until it is taken.  Two kinds of half   *)
(* are excused, each only while the gearbox reports it: those of a beat    *)
(* with more starts or ends in a half than a half can mark                 *)
(* (status_error_cq_slot_overflow), and one that is not filled from its    *)
(* first dword (status_error_cq_leading_gap), which the shim cannot read.  *)
(* Their dwords leave the ledger unread.                                   *)
(***************************************************************************)
Reported ==
  \/ status_error_cq_slot_overflow
  \/ status_error_cq_leading_gap /\ split.gap[cq_sel]

Excused == IF Reported THEN SubSeq(owed, 1, Len(Shown)) ELSE Shown

Stream == INSTANCE TlpStream WITH
  stream <- owed,
  shown  <- IF m_axis_cq_tvalid THEN Excused ELSE <<>>

ImplementsStream == Stream!Spec

(***************************************************************************)
(* With one packet per beat at most, tlast (taken from the core's tlast    *)
(* and the half sequencing) and is_eop (taken from tkeep) say the same of  *)
(* every half handed to the shim.                                          *)
(***************************************************************************)
LastMarksEop ==
  m_axis_cq_tvalid /\ ~build.straddle
    => (m_axis_cq_tlast <=> split.eops[cq_sel] # {})

(***************************************************************************)
(* Two marks per half are enough when packets start on the grid of the     *)
(* Versal pointer (a quarter of a beat apart): the overflow flag is then   *)
(* unreachable on legal traffic, so it never drops a packet silently or    *)
(* otherwise.                                                              *)
(***************************************************************************)
QuarterGridFits ==
  2 * build.weight = build.half => ~status_error_cq_slot_overflow

(***************************************************************************)
(* The gearbox never wedges the core's bus: as long as the shim keeps      *)
(* taking halves, s_axis_cq_tready comes back, beats without a dword       *)
(* included.                                                               *)
(***************************************************************************)
InputReopens == []<>cq_in_ready_reg

=============================================================================
