------------------------------- MODULE CqSkid -------------------------------
(***************************************************************************)
(* The two-place input buffer of the completer-request gearbox, in         *)
(* rtl/gen5x8/pcie_versal_if_cqcc_gearbox.sv: an output register and a     *)
(* skid register that catches the beat accepted while the output is held,  *)
(* so that s_axis_cq_tready is itself a register.                          *)
(***************************************************************************)
EXTENDS Naturals, Sequences

CONSTANT Beats  (* what s_axis_cq carries in one beat *)

VARIABLES
  cq_reg,          (* the output register's beat  *)
  cq_reg_tvalid,
  cq_skid,         (* the skid register's beat    *)
  cq_skid_tvalid,
  cq_in_ready_reg, (* drives s_axis_cq_tready     *)
  accepted         (* history: beats taken off s_axis_cq and not yet passed *)
                   (* on by the output register, oldest first               *)

skidVars == <<cq_reg, cq_reg_tvalid, cq_skid, cq_skid_tvalid, cq_in_ready_reg,
              accepted>>

SkidInit ==
  /\ cq_reg \in Beats /\ cq_skid \in Beats
  /\ cq_reg_tvalid = FALSE
  /\ cq_skid_tvalid = FALSE
  /\ cq_in_ready_reg = FALSE
  /\ accepted = <<>>

\* Mutant of StoreToReg: the flag is set and the beat is not loaded.
StoreToRegFlagOnly(tvalid, beat, reg_ready) ==
  /\ cq_in_ready_reg
  /\ reg_ready \/ ~cq_reg_tvalid
  /\ cq_reg_tvalid' = tvalid
  /\ cq_in_ready_reg' = ~cq_skid_tvalid
  /\ UNCHANGED <<cq_reg, cq_skid, cq_skid_tvalid>>

\* tready is high: the beat on the input goes to the output register when
\* that is free or being emptied, and to the skid register otherwise.
StoreToReg(tvalid, beat, reg_ready) ==
  /\ cq_in_ready_reg
  /\ reg_ready \/ ~cq_reg_tvalid
  /\ cq_reg' = beat /\ cq_reg_tvalid' = tvalid
  /\ cq_in_ready_reg' = ~cq_skid_tvalid
  /\ UNCHANGED <<cq_skid, cq_skid_tvalid>>

\* Mutant of StoreToSkid: tready falls a cycle after the skid is taken.
StoreToSkidReadyLate(tvalid, beat, reg_ready) ==
  /\ cq_in_ready_reg
  /\ ~reg_ready /\ cq_reg_tvalid
  /\ cq_skid' = beat /\ cq_skid_tvalid' = tvalid
  /\ cq_in_ready_reg' = ~cq_skid_tvalid
  /\ UNCHANGED <<cq_reg, cq_reg_tvalid>>

StoreToSkid(tvalid, beat, reg_ready) ==
  /\ cq_in_ready_reg
  /\ ~reg_ready /\ cq_reg_tvalid
  /\ cq_skid' = beat /\ cq_skid_tvalid' = tvalid
  /\ cq_in_ready_reg' = ~tvalid
  /\ UNCHANGED <<cq_reg, cq_reg_tvalid>>

\* Mutant of SkidToReg: the skid register is not marked free.
SkidToRegTwice(reg_ready) ==
  /\ ~cq_in_ready_reg /\ reg_ready
  /\ cq_reg' = cq_skid /\ cq_reg_tvalid' = cq_skid_tvalid
  /\ cq_in_ready_reg' = TRUE
  /\ UNCHANGED <<cq_skid, cq_skid_tvalid>>

\* tready is low and the output register empties: the skid register follows.
SkidToReg(reg_ready) ==
  /\ ~cq_in_ready_reg /\ reg_ready
  /\ cq_reg' = cq_skid /\ cq_reg_tvalid' = cq_skid_tvalid
  /\ cq_skid_tvalid' = FALSE
  /\ cq_in_ready_reg' = TRUE
  /\ UNCHANGED cq_skid

SkidHold(reg_ready) ==
  /\ ~cq_in_ready_reg /\ ~reg_ready
  /\ cq_in_ready_reg' = ~cq_skid_tvalid
  /\ UNCHANGED <<cq_reg, cq_reg_tvalid, cq_skid, cq_skid_tvalid>>

\* The two handshakes, whatever the registers make of them: a beat offered
\* while tready is high is accepted, and the oldest accepted beat is passed on
\* when the output register is valid and taken.
Handshakes(tvalid, beat, reg_ready) ==
  accepted' = (IF cq_reg_tvalid /\ reg_ready THEN Tail(accepted) ELSE accepted)
                \o (IF tvalid /\ cq_in_ready_reg THEN <<beat>> ELSE <<>>)

SkidEdge(tvalid, beat, reg_ready) ==
  /\ \/ StoreToReg(tvalid, beat, reg_ready)
     \/ StoreToSkid(tvalid, beat, reg_ready)
     \/ SkidToReg(reg_ready)
     \/ SkidHold(reg_ready)
  /\ Handshakes(tvalid, beat, reg_ready)

\* rst clears the flags, and with them the beats accepted; the data registers
\* still load as on any other edge.
SkidReset(beat, reg_ready) ==
  /\ cq_reg_tvalid' = FALSE
  /\ cq_skid_tvalid' = FALSE
  /\ cq_in_ready_reg' = FALSE
  /\ accepted' = <<>>
  /\ cq_reg' = CASE cq_in_ready_reg /\ (reg_ready \/ ~cq_reg_tvalid) -> beat
                 [] ~cq_in_ready_reg /\ reg_ready -> cq_skid
                 [] OTHER -> cq_reg
  /\ cq_skid' = IF cq_in_ready_reg /\ ~reg_ready /\ cq_reg_tvalid
                  THEN beat ELSE cq_skid

SkidNext ==
  \E tvalid, reg_ready \in BOOLEAN, beat \in Beats :
    SkidEdge(tvalid, beat, reg_ready) \/ SkidReset(beat, reg_ready)

SkidSpec == SkidInit /\ [][SkidNext]_skidVars

-----------------------------------------------------------------------------
SkidTypeOK ==
  /\ cq_reg \in Beats /\ cq_skid \in Beats
  /\ cq_reg_tvalid \in BOOLEAN
  /\ cq_skid_tvalid \in BOOLEAN
  /\ cq_in_ready_reg \in BOOLEAN

(***************************************************************************)
(* A beat is never accepted into an occupied skid register, and the skid   *)
(* register is never ahead of an empty output register.                    *)
(***************************************************************************)
SkidInv ==
  /\ cq_in_ready_reg => ~cq_skid_tvalid
  /\ cq_skid_tvalid => cq_reg_tvalid

(***************************************************************************)
(* What the output register shows is always the oldest beat accepted on    *)
(* s_axis_cq and not yet passed on, from the edge on which that beat       *)
(* becomes the oldest, and there are never more than two: no accepted beat *)
(* is lost, repeated, changed or overtaken, and only rst drops any.        *)
(***************************************************************************)
Fifo == INSTANCE BeatQueue WITH
  queue    <- accepted,
  out      <- IF cq_reg_tvalid THEN <<cq_reg>> ELSE <<>>,
  Capacity <- 2

ImplementsFifo == Fifo!Spec

=============================================================================
