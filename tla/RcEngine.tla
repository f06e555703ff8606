------------------------------ MODULE RcEngine ------------------------------
(***************************************************************************)
(* The requester-completion engine, rtl/gen5x8/pcie_versal_if_rc.sv, in    *)
(* the straddled formats: beats of the core are realigned so that a        *)
(* completion's three-dword descriptor leaves the data, then compacted     *)
(* into the fewer, coarser slots of the completion FIFO's input.           *)
(*                                                                         *)
(* A segment of four dwords has two parts: lo, dwords 0 to 2, which in a   *)
(* completion's first segment are its descriptor, and hi, dword 3.  A      *)
(* realigned segment is the hi of one segment and the lo of the next; the  *)
(* header travels beside the data.  A step is one clock edge; what is not  *)
(* valid is not kept, so a list of segments is the valid ones in order.    *)
(* The parameter guards admit one or two segments to a slot, so the carry  *)
(* is at most one segment, the last of the scan that is valid.             *)
(***************************************************************************)
EXTENDS Integers, Sequences, SequencesExt

CONSTANTS
  Builds,     (* [segs, slots, compact]: INT_TLP_SEG_COUNT,                *)
              (* RC_FIFO_SEG_COUNT, RC_SOP_COMPACT                         *)
  Beats(_, _) (* the beats the core sends a build, inside a TLP or not     *)

VARIABLES
  build,        (* elaboration parameters: never change                    *)
  rc_int_reg,   (* the beat whose realignment may need the next one        *)
  rx_cpl_reg,   (* the realigned segments                                  *)
  b1_valid_reg, (* slots wait to be loaded                                 *)
  b1_slots,     (* these slots                                             *)
  cy_reg,       (* the carry: segments of a slot that is not full yet      *)
  cp_reg,       (* the slots handed to the FIFO, a beat of them at a time  *)
  bus_open,     (* the core's bus is inside a TLP                          *)
  bus_tag,      (* the number of the core's next beat, modulo 2            *)
  owed          (* history: units sent and not yet taken by the FIFO       *)

NoBeat == <<>>
Idle == [valid |-> FALSE, sop |-> FALSE, eop |-> "no", id |-> <<0, 0>>]

\* The parameter guards (rc.sv:195-231), for one or two segments to a slot.
ASSUME BuildsAssumption ==
  \A c \in Builds :
    /\ {c.segs, c.slots} \subseteq Nat \ {0}
    /\ c.compact \in BOOLEAN
    /\ c.segs \in {c.slots, 2 * c.slots}

\* The bus is inside a TLP before segment i of a beat.
OpenBefore(open, b, i) ==
  IF i = 1 THEN open ELSE b[i - 1].valid /\ b[i - 1].eop = "no"

\* The core leaves no segment idle inside a TLP and starts one only outside.
\* A beat it sends is never idle in its first segment: the engine's walk over
\* tuser takes a beat to begin inside a TLP until it meets an end (rc.sv:732),
\* so it would read idle segments before the first start as valid ones.
ASSUME BeatsAssumption ==
  \A c \in Builds : \A open \in BOOLEAN : \A b \in Beats(c, open) :
    /\ b \in [1 .. c.segs -> [valid : BOOLEAN, sop : BOOLEAN,
                              eop : {"no", "lo", "hi"}, id : {Idle.id}]]
    /\ b[1].valid
    /\ \A i \in 1 .. c.segs :
         /\ OpenBefore(open, b, i) => b[i].valid
         /\ b[i].valid => b[i].sop = ~OpenBefore(open, b, i)

coreVars == <<bus_open, bus_tag>>
vars == <<build, rc_int_reg, rx_cpl_reg, b1_valid_reg, b1_slots, cy_reg,
          cp_reg, coreVars, owed>>

\* CP_FPC, segments in a slot; CP_NE, segments a scan may meet.
CP_FPC == build.segs \div build.slots
CP_NE == build.segs + CP_FPC - 1

\* CP_NB: the power of two of output beats, two at least, whose slots can
\* hold CP_NE segments apart; three beats would do for two segments a slot.
CP_NB ==
  LET beats == (CP_NE + build.slots - 1) \div build.slots
      fits == {n \in {2, 4, 8} : n >= beats}
  IN  CHOOSE n \in fits : \A m \in fits : n <= m

CP_NSL == build.slots * CP_NB

-----------------------------------------------------------------------------
(* Realignment.                                                            *)

Part(which, s) == <<[part |-> which, id |-> s.id, eop |-> FALSE]>>
When(c, s) == IF c THEN s ELSE <<>>

\* Mutant of Leaves: a segment that goes on does not wait for the next.
LeavesAlone(s, n) ==
  \/ s.eop = "hi" \/ (s.eop = "lo" /\ s.sop)
  \/ s.eop = "no"

\* Whether segment s makes a realigned one, n being the segment after it: a
\* lo end was handed over with the segment before, and a segment that goes
\* on waits for what it goes on with.
Leaves(s, n) ==
  \/ s.eop = "hi" \/ (s.eop = "lo" /\ s.sop)
  \/ s.eop = "no" /\ n.valid

Joined(s, n) ==
  [sop  |-> s.sop,
   eop  |-> s.eop # "no" \/ n.eop = "lo",
   hdr  |-> s.id,
   data |-> When(s.eop # "lo", Part("hi", s))
              \o When(s.eop = "no", Part("lo", n))]

\* The beat held, with the first segment of the beat on the bus behind it.
Full(b) == rc_int_reg \o <<IF b = NoBeat THEN Idle ELSE b[1]>>

\* What segment s makes, n being the segment after it.
Moved(s, n) == When(s.valid /\ Leaves(s, n), <<Joined(s, n)>>)

Realigned(b) ==
  FlattenSeq([i \in 1 .. build.segs |-> Moved(Full(b)[i], Full(b)[i + 1])])

\* What is left of the beat held when no other takes its place.
Remaining ==
  [i \in 1 .. build.segs |->
     LET s == rc_int_reg[i]
     IN  IF s.valid /\ s.eop = "no" /\ ~Full(NoBeat)[i + 1].valid
         THEN s ELSE Idle]

-----------------------------------------------------------------------------
(* Compaction.                                                             *)

\* Mutant of Ends: only a full slot is closed.
EndsFull(open) == Len(open) = CP_FPC

\* A slot ends with its TLP or when it is full.
Ends(open) == open[Len(open)].eop \/ Len(open) = CP_FPC

\* The scan: a segment joins the open slot; a start finds a new one.
Placed(acc, s) ==
  LET cut == s.sop /\ acc.open # <<>>
      shut == IF cut THEN Append(acc.shut, acc.open) ELSE acc.shut
      open == IF cut THEN <<s>> ELSE Append(acc.open, s)
  IN  IF Ends(open) THEN [shut |-> Append(shut, open), open |-> <<>>]
                    ELSE [shut |-> shut, open |-> open]

Scan(segs) ==
  LET scan[i \in 0 .. Len(segs)] ==
        IF i = 0 THEN [shut |-> <<>>, open |-> <<>>]
                 ELSE Placed(scan[i - 1], segs[i])
  IN  scan[Len(segs)]

Scanned == Scan(cy_reg \o rx_cpl_reg)

\* A slot: the header, error and start of its first segment, the data of all,
\* and an end if one of them ends.
Slot(segs) ==
  [sop  |-> segs[1].sop,
   eop  |-> \E i \in DOMAIN segs : segs[i].eop,
   hdr  |-> segs[1].hdr,
   data |-> FlattenSeq([i \in DOMAIN segs |-> segs[i].data])]

\* The slots a scan fills; one beyond the last is not written.
Slots ==
  LET n == Len(Scanned.shut)
  IN  [i \in 1 .. (IF n > CP_NSL THEN CP_NSL ELSE n) |-> Slot(Scanned.shut[i])]

-----------------------------------------------------------------------------
\* The FIFO's input: a beat of slots, or of segments when not compacting.
OnOffer ==
  IF build.compact
  THEN SubSeq(cp_reg, 1,
              IF Len(cp_reg) < build.slots THEN Len(cp_reg) ELSE build.slots)
  ELSE rx_cpl_reg

BeatsLeft == (Len(cp_reg) + build.slots - 1) \div build.slots

\* Mutant of b2_free: the last beat counts as gone before the FIFO takes it.
b2_free_early(fifo_tlp_ready) == BeatsLeft <= 1

b2_free(fifo_tlp_ready) == BeatsLeft = 0 \/ (BeatsLeft = 1 /\ fifo_tlp_ready)
b2_load(fifo_tlp_ready) == b1_valid_reg /\ b2_free(fifo_tlp_ready)
b1_free(fifo_tlp_ready) == ~b1_valid_reg \/ b2_load(fifo_tlp_ready)

\* s_axis_rc_tready.
stage_a_ready(fifo_tlp_ready) ==
  IF build.compact THEN b1_free(fifo_tlp_ready) ELSE fifo_tlp_ready

\* The always_ff of the compaction.
Compact(fifo_tlp_ready) ==
  LET load == b2_load(fifo_tlp_ready)
      take == b1_free(fifo_tlp_ready) /\ rx_cpl_reg # <<>>
  IN
  /\ build.compact
  /\ b1_valid_reg' = (take \/ (b1_valid_reg /\ ~load))
  /\ b1_slots' = IF take THEN Slots ELSE IF load THEN <<>> ELSE b1_slots
  /\ cy_reg' = IF take THEN Scanned.open ELSE cy_reg
  /\ cp_reg' = IF load THEN b1_slots
               ELSE IF BeatsLeft # 0 /\ fifo_tlp_ready
               THEN SubSeq(cp_reg, build.slots + 1, Len(cp_reg))
               ELSE cp_reg

NoCompact ==
  /\ ~build.compact
  /\ UNCHANGED <<b1_valid_reg, b1_slots, cy_reg, cp_reg>>

\* The realignment's registers, beat b being on the bus.
Realign(b, fifo_tlp_ready) ==
  IF stage_a_ready(fifo_tlp_ready)
  THEN /\ rx_cpl_reg' = Realigned(b)
       /\ rc_int_reg' = IF b = NoBeat THEN Remaining ELSE b
  ELSE UNCHANGED <<rx_cpl_reg, rc_int_reg>>

\* The units of a segment or slot: the header, the data, the end marked.
Marked(units, last) ==
  IF last THEN [units EXCEPT ![Len(units)].eop = TRUE] ELSE units

Units(x) ==
  Marked(When(x.sop, <<[part |-> "hdr", id |-> x.hdr, eop |-> FALSE]>>)
           \o x.data, x.eop)

AllUnits(xs) == FlattenSeq([i \in DOMAIN xs |-> Units(xs[i])])

\* Those of a segment on the bus, whose lo is a header if it starts a TLP.
BusUnits(s) ==
  IF ~s.valid THEN <<>>
  ELSE Marked(<<[part |-> IF s.sop THEN "hdr" ELSE "lo", id |-> s.id,
                 eop |-> FALSE]>>
                \o When(s.eop # "lo", Part("hi", s)), s.eop # "no")

\* What the FIFO takes leaves the account, what the core sent joins it.
Account(b, fifo_tlp_ready) ==
  LET gone == IF fifo_tlp_ready THEN Len(AllUnits(OnOffer)) ELSE 0
  IN  owed' = SubSeq(owed, gone + 1, Len(owed))
                \o FlattenSeq([i \in DOMAIN b |-> BusUnits(b[i])])

\* The core: a beat that is taken gets the next number.
Numbered(b) == [i \in DOMAIN b |-> [b[i] EXCEPT !.id = <<bus_tag, i>>]]
OpenAfter(b) == b[Len(b)].valid /\ b[Len(b)].eop = "no"

TakeBeat(b, fifo_tlp_ready) ==
  /\ stage_a_ready(fifo_tlp_ready)
  /\ Realign(Numbered(b), fifo_tlp_ready)
  /\ Account(Numbered(b), fifo_tlp_ready)
  /\ bus_open' = OpenAfter(b)
  /\ bus_tag' = 1 - bus_tag

TakeNothing(fifo_tlp_ready) ==
  /\ Realign(NoBeat, fifo_tlp_ready)
  /\ Account(NoBeat, fifo_tlp_ready)
  /\ UNCHANGED coreVars

\* One clock edge.
Edge(fifo_tlp_ready) ==
  /\ Compact(fifo_tlp_ready) \/ NoCompact
  /\ UNCHANGED build
  /\ \/ \E b \in Beats(build, bus_open) : TakeBeat(b, fifo_tlp_ready)
     \/ TakeNothing(fifo_tlp_ready)

Empty(b) == [i \in 1 .. b.segs |-> Idle]

\* An edge with rst; the core restarts too.
Reset ==
  /\ rc_int_reg' = Empty(build) /\ rx_cpl_reg' = <<>>
  /\ b1_valid_reg' = FALSE /\ b1_slots' = <<>>
  /\ cy_reg' = <<>> /\ cp_reg' = <<>>
  /\ bus_open' = FALSE /\ bus_tag' = 0 /\ owed' = <<>>
  /\ UNCHANGED build

Init ==
  /\ build \in Builds
  /\ rc_int_reg = Empty(build) /\ rx_cpl_reg = <<>>
  /\ b1_valid_reg = FALSE /\ b1_slots = <<>>
  /\ cy_reg = <<>> /\ cp_reg = <<>>
  /\ bus_open = FALSE /\ bus_tag = 0 /\ owed = <<>>

Next == Reset \/ \E fifo_tlp_ready \in BOOLEAN : Edge(fifo_tlp_ready)

Spec == Init /\ [][Next]_vars

-----------------------------------------------------------------------------
(***************************************************************************)
(* The FIFO gets every header and every dword of the completions the core  *)
(* sent, in order and once, with the starts and ends where they were, and  *)
(* a beat on offer does not change until it is taken, whatever waits in    *)
(* the realignment, the carry and the two stages behind.                   *)
(***************************************************************************)
Stream == INSTANCE TlpStream WITH stream <- owed, shown <- AllUnits(OnOffer)

ImplementsStream == Stream!Spec

\* Another edge without a beat would only wait.
Quiet ==
  /\ rx_cpl_reg = <<>> /\ ~b1_valid_reg /\ OnOffer = <<>>
  /\ Realigned(NoBeat) = <<>>

(***************************************************************************)
(* A completion that has arrived whole reaches the FIFO without another    *)
(* beat of the core behind it (rc.sv:868 and the carry of the compaction): *)
(* what the engine still has when it goes quiet is an unfinished TLP's.    *)
(***************************************************************************)
FinishedLeave == Quiet => \A i \in DOMAIN owed : ~owed[i].eop

=============================================================================
