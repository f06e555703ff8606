----------------------------- MODULE CcGearbox -----------------------------
(***************************************************************************)
(* The completer-completion half of the gearbox: 512-bit beats of the shim *)
(* become 1024-bit beats of the core                                       *)
(* (rtl/gen5x8/pcie_versal_if_cqcc_gearbox.sv, CC half).  A beat that ends *)
(* between packets goes out alone in the low half; a beat that leaves a    *)
(* packet open is held until the next one can go out above it.             *)
(*                                                                         *)
(* A 512-bit beat is dwords 0 .. Half-1; the shim marks a start on any     *)
(* dword and the core on every SopDw-th one.                               *)
(***************************************************************************)
EXTENDS TlpBeats

CONSTANTS
  Half,        (* dwords in a beat of the shim                              *)
  SopDw,       (* CC_SOP_PTR_DW: the dwords between two that the core marks *)
  BusBeats(_)  (* the beats the shim sends: straddling packets, or not      *)

ASSUME WidthAssumption ==
  Half \in Nat \ {0} /\ SopDw \in Nat \ {0} /\ Half % SopDw = 0

VARIABLES
  straddle,           (* CC_STRADDLE: never changes                        *)
  cc_hold_valid_reg,
  cc_hold_reg,        (* the held beat: its dwords and its mapped marks     *)
  cc_open_reg,        (* a packet is open after the last beat handed over   *)
  s_axis_cc,          (* the beat the shim offers, or NoBeat                *)
  m_axis_cc_tready,   (* the core's ready                                   *)
  bus_open,           (* the shim: a packet is open after its last beat     *)
  bus_tag,            (* marks alternate beats, to tell one from the next   *)
  owed,               (* history: dwords offered and not yet handed over    *)
  core_open,          (* history: the core is inside a packet               *)
  flagged             (* history: the held beat was reported misaligned     *)

busVars == <<s_axis_cc, m_axis_cc_tready, bus_open, bus_tag>>
ccVars == <<straddle, cc_hold_valid_reg, cc_hold_reg, cc_open_reg, busVars,
            owed, core_open, flagged>>

\* A beat of the shim: open and last as the shim knows its own stream;
\* straddled, starts and ends are the dwords its pointers mark, in slot
\* order; otherwise keep is the number of dwords tkeep marks.
NoBeat == [open |-> FALSE, starts |-> <<>>, ends |-> <<>>, keep |-> 0,
           last |-> FALSE, tag |-> 0]
s_axis_cc_tvalid == s_axis_cc # NoBeat

\* What the shim promises of a beat: marks on the beat's dwords, packet after
\* packet, and something of a packet on it; or, with one packet per beat,
\* some dwords, all of them unless the packet ends.
LegalBeat(straddling, b) ==
  /\ b.keep \in 1 .. Half /\ b.last \in BOOLEAN
  /\ b.starts \in Seq(0 .. Half - 1) /\ b.ends \in Seq(0 .. Half - 1)
  /\ straddling =>
       /\ Alternate(b.open, b.starts, b.ends)
       /\ b.open \/ b.starts # <<>>
  /\ ~straddling => b.last \/ b.keep = Half

ASSUME TrafficAssumption ==
  \A straddling \in BOOLEAN : \A b \in BusBeats(straddling) :
    /\ b = [open |-> b.open, starts |-> b.starts, ends |-> b.ends,
            keep |-> b.keep, last |-> b.last, tag |-> 0]
    /\ b.open \in BOOLEAN /\ LegalBeat(straddling, b)

-----------------------------------------------------------------------------
(* The combinational map of the beat on offer.                             *)

cc_open_in == cc_hold_valid_reg \/ cc_open_reg

\* Mutant of cc_map: starts keep the shim's pointer weight.
cc_map_unscaled ==
  IF straddle
    THEN [sop |-> s_axis_cc.starts, eop |-> s_axis_cc.ends]
    ELSE [sop |-> IF cc_open_in THEN <<>> ELSE <<0>>,
          eop |-> IF s_axis_cc.last THEN <<s_axis_cc.keep - 1>> ELSE <<>>]

\* Starts move to the core's grid, rounded down; ends keep their dword.
cc_map ==
  IF straddle
    THEN [sop |-> [i \in DOMAIN s_axis_cc.starts |->
                     s_axis_cc.starts[i] \div SopDw],
          eop |-> s_axis_cc.ends]
    ELSE [sop |-> IF cc_open_in THEN <<>> ELSE <<0>>,
          eop |-> IF s_axis_cc.last THEN <<s_axis_cc.keep - 1>> ELSE <<>>]

cc_map_open_after ==
  IF straddle
    THEN OpenBefore(Marks(s_axis_cc.starts), Marks(s_axis_cc.ends),
                    cc_open_in, Half)
    ELSE ~s_axis_cc.last

cc_map_align_err ==
  straddle /\ \E s \in Marks(s_axis_cc.starts) : s % SopDw # 0

status_error_cc_sop_align == s_axis_cc_tvalid /\ cc_map_align_err

\* Mutant of cc_single_ok: every beat waits for the next one.
cc_single_never == FALSE

cc_single_ok == ~cc_map_open_after

-----------------------------------------------------------------------------
(* The output: the held beat below the one on offer, or that one alone.    *)

\* Mutant of cc_out_sop: the start pointers of the high half are not moved up.
cc_out_sop_unbiased ==
  (IF cc_hold_valid_reg THEN cc_hold_reg.sop ELSE <<>>) \o cc_map.sop

cc_out_sop ==
  IF cc_hold_valid_reg
    THEN cc_hold_reg.sop
           \o [i \in DOMAIN cc_map.sop |-> cc_map.sop[i] + Half \div SopDw]
    ELSE cc_map.sop

cc_out_eop ==
  IF cc_hold_valid_reg
    THEN cc_hold_reg.eop
           \o [i \in DOMAIN cc_map.eop |-> cc_map.eop[i] + Half]
    ELSE cc_map.eop

m_axis_cc_tvalid == s_axis_cc_tvalid /\ (cc_hold_valid_reg \/ cc_single_ok)

s_axis_cc_tready ==
  cc_hold_valid_reg \/ cc_single_ok => m_axis_cc_tready

\* m_axis_cc_tkeep and the beat each half of m_axis_cc_tdata came from.
OutKeep ==
  IF cc_hold_valid_reg
    THEN 0 .. cc_hold_reg.keep - 1 \cup
           {d + Half : d \in 0 .. s_axis_cc.keep - 1}
    ELSE 0 .. s_axis_cc.keep - 1

OutTag(d) ==
  IF cc_hold_valid_reg /\ d < Half THEN cc_hold_reg.tag ELSE s_axis_cc.tag

-----------------------------------------------------------------------------
(* The dwords of the packet stream, as the shim and the core see them.     *)

\* What the shim means.
Tokens(straddling, b) ==
  LET D == IF straddling
             THEN {d \in 0 .. Half - 1 : InPacket(b.open, b.starts, b.ends, d)}
             ELSE 0 .. b.keep - 1
      s == InOrder(D)
  IN  [i \in DOMAIN s |->
        [tag |-> b.tag, dw |-> s[i],
         sop |-> IF straddling THEN s[i] \in Marks(b.starts)
                               ELSE i = 1 /\ ~b.open,
         eop |-> IF straddling THEN s[i] \in Marks(b.ends)
                               ELSE b.last /\ i = Len(s)]]

OpenAfter(straddling, b) ==
  IF straddling
    THEN (IF b.open THEN 1 ELSE 0) + Len(b.starts) > Len(b.ends)
    ELSE ~b.last

\* What the core reads: straddled, from the marks alone.
Shown ==
  LET starts == {p * SopDw : p \in Marks(cc_out_sop)}
      ends == Marks(cc_out_eop)
      D == IF straddle
             THEN {d \in 0 .. 2 * Half - 1 :
                     Carries(starts, ends, core_open, d)}
             ELSE OutKeep
      s == InOrder(D)
  IN  [i \in DOMAIN s |->
        [tag |-> OutTag(s[i]), dw |-> s[i] % Half,
         sop |-> s[i] \in starts, eop |-> s[i] \in ends]]

Handover == m_axis_cc_tvalid /\ m_axis_cc_tready

\* A beat with a start the core's grid cannot mark is excused while it is
\* reported: it stands for what the shim meant.
ShownOrExcused ==
  IF flagged \/ status_error_cc_sop_align THEN owed ELSE Shown

-----------------------------------------------------------------------------
CcInit ==
  /\ straddle \in BOOLEAN
  /\ cc_hold_valid_reg = FALSE
  /\ cc_hold_reg = [sop |-> <<>>, eop |-> <<>>, keep |-> 0, tag |-> 0]
  /\ cc_open_reg = FALSE
  /\ s_axis_cc = NoBeat
  /\ m_axis_cc_tready = FALSE
  /\ bus_open = FALSE /\ bus_tag = 0
  /\ owed = <<>> /\ core_open = FALSE /\ flagged = FALSE

\* The merged beat goes out, or waits for the core or for the shim.
MergeOut ==
  /\ cc_hold_valid_reg
  /\ IF Handover
       THEN cc_hold_valid_reg' = FALSE /\ cc_open_reg' = cc_map_open_after
       ELSE UNCHANGED <<cc_hold_valid_reg, cc_open_reg>>
  /\ UNCHANGED cc_hold_reg

\* A beat that ends between packets goes out alone, or waits for the core.
SingleOut ==
  /\ ~cc_hold_valid_reg /\ s_axis_cc_tvalid /\ cc_single_ok
  /\ cc_open_reg' = IF m_axis_cc_tready THEN cc_map_open_after ELSE cc_open_reg
  /\ UNCHANGED <<cc_hold_valid_reg, cc_hold_reg>>

\* A beat that leaves a packet open is taken at once and held.
Hold ==
  /\ ~cc_hold_valid_reg /\ s_axis_cc_tvalid /\ ~cc_single_ok
  /\ cc_hold_valid_reg' = TRUE
  /\ cc_hold_reg' = [sop |-> cc_map.sop, eop |-> cc_map.eop,
                     keep |-> s_axis_cc.keep, tag |-> s_axis_cc.tag]
  /\ UNCHANGED cc_open_reg

NothingOffered ==
  /\ ~cc_hold_valid_reg /\ ~s_axis_cc_tvalid
  /\ UNCHANGED <<cc_hold_valid_reg, cc_hold_reg, cc_open_reg>>

Registers == MergeOut \/ SingleOut \/ Hold \/ NothingOffered

\* The shim keeps a beat it offers until it is taken, then offers the next
\* one of its stream or nothing.
OfferStays ==
  /\ s_axis_cc_tvalid /\ ~s_axis_cc_tready
  /\ UNCHANGED <<s_axis_cc, bus_open, bus_tag, owed>>

OfferNothing(left) ==
  /\ s_axis_cc_tvalid => s_axis_cc_tready
  /\ s_axis_cc' = NoBeat
  /\ owed' = left
  /\ UNCHANGED <<bus_open, bus_tag>>

OfferBeat(left) ==
  /\ s_axis_cc_tvalid => s_axis_cc_tready
  /\ \E b \in BusBeats(straddle) :
       /\ b.open = bus_open
       /\ s_axis_cc' = [b EXCEPT !.tag = bus_tag]
       /\ owed' = left \o Tokens(straddle, [b EXCEPT !.tag = bus_tag])
       /\ bus_open' = OpenAfter(straddle, b)
  /\ bus_tag' = 1 - bus_tag

\* The histories.
Account ==
  /\ core_open' = IF Handover THEN ~owed[Len(owed)].eop ELSE core_open
  /\ flagged' = /\ cc_hold_valid_reg'
                /\ flagged \/ (~cc_hold_valid_reg /\ status_error_cc_sop_align)

\* One clock edge.
Edge(tready) ==
  /\ Registers
  /\ Account
  /\ LET left == IF Handover
                THEN SubSeq(owed, Len(ShownOrExcused) + 1, Len(owed))
                ELSE owed
     IN  OfferStays \/ OfferNothing(left) \/ OfferBeat(left)
  /\ m_axis_cc_tready' = tready
  /\ UNCHANGED straddle

\* An edge with rst; shim and core restart too.
Reset(tready) ==
  /\ cc_hold_valid_reg' = FALSE /\ cc_open_reg' = FALSE
  /\ UNCHANGED <<cc_hold_reg, straddle>>
  /\ s_axis_cc' = NoBeat /\ bus_open' = FALSE /\ bus_tag' = 0
  /\ m_axis_cc_tready' = tready
  /\ owed' = <<>> /\ core_open' = FALSE /\ flagged' = FALSE

CcNext == \E tready \in BOOLEAN : Edge(tready) \/ Reset(tready)

CcSpec == CcInit /\ [][CcNext]_ccVars

-----------------------------------------------------------------------------
CcTypeOK ==
  /\ straddle \in BOOLEAN
  /\ cc_hold_valid_reg \in BOOLEAN /\ cc_open_reg \in BOOLEAN
  /\ m_axis_cc_tready \in BOOLEAN /\ bus_open \in BOOLEAN
  /\ core_open \in BOOLEAN /\ flagged \in BOOLEAN
  /\ Marks(cc_hold_reg.sop) \subseteq 0 .. Half \div SopDw - 1
  /\ Marks(cc_hold_reg.eop) \subseteq 0 .. Half - 1
  /\ cc_hold_reg.keep \in 0 .. Half
  /\ Len(owed) <= 2 * Half

(***************************************************************************)
(* Whatever the shim's traffic and the core's stalls: the core reads every *)
(* dword the shim sent, in order and once, with the starts and ends where  *)
(* the shim put them, and a beat that is on offer does not change until it *)
(* is taken, the one exception being a start off the core's grid, which    *)
(* status_error_cc_sop_align must have reported.                           *)
(***************************************************************************)
Stream == INSTANCE TlpStream WITH
  stream <- owed,
  shown  <- IF m_axis_cc_tvalid THEN ShownOrExcused ELSE <<>>

ImplementsStream == Stream!Spec

(***************************************************************************)
(* No completion waits for traffic that may never come: a beat is held     *)
(* back only while the shim owes the rest of a packet.  An earlier packet  *)
(* that ends in such a beat waits with it.                                 *)
(***************************************************************************)
HoldsMidPacketOnly ==
  cc_hold_valid_reg /\ ~s_axis_cc_tvalid => bus_open

=============================================================================
