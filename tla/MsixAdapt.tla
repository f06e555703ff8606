----------------------------- MODULE MsixAdapt -----------------------------
(***************************************************************************)
(* The MSI-X adapter, rtl/irq/pcie_versal_msix_adapt.sv: it takes one      *)
(* interrupt index at a time from the user logic (irq_index, irq_valid,    *)
(* irq_ready) and turns it into a request on the interrupt port of the     *)
(* CPM5 (cfg_msix_mint_vector, cfg_msix_int_vector), which answers with    *)
(* cfg_msix_sent or cfg_msix_fail.                                         *)
(*                                                                         *)
(* A step of the module is one rising edge of clk.  The case statement of  *)
(* the combinational block gives one action per branch; an action's        *)
(* parameters are the input pins sampled at that edge.                     *)
(***************************************************************************)
EXTENDS Integers

CONSTANTS
  Indices,      (* values irq_index takes                                  *)
  VectorCount,  (* MSIX_VECTOR_COUNT                                       *)
  RetryLimit,   (* FAIL_RETRY_LIMIT                                        *)
  StsMax,       (* all ones in STS_COUNT_WIDTH bits                        *)
  MaxIrqs,      (* bound: requests the user presents between two resets    *)
  NoIrq         (* irq_valid is low                                        *)

\* The elaboration checks of the module, and what the widths imply.
ASSUME IndicesAssumption == Indices \subseteq Nat /\ NoIrq \notin Indices
ASSUME VectorCountAssumption == VectorCount \in Nat \ {0}
ASSUME RetryLimitAssumption == RetryLimit \in Nat \ {0}
ASSUME StsMaxAssumption == StsMax \in Nat \ {0}
ASSUME MaxIrqsAssumption == MaxIrqs \in Nat

VARIABLES
  state_reg,        (* the FSM: "IDLE", "SETUP" or "REQ"                   *)
  vec_reg,          (* the index taken at the last accept                  *)
  retry_reg,        (* failures of this request already retried            *)
  int_vector_reg,   (* drives cfg_msix_int_vector                          *)
  irq_ready_reg,    (* drives irq_ready                                    *)
  mint_valid_reg,   (* gates vec_reg onto cfg_msix_mint_vector             *)
  sts,              (* the five saturating status counters                 *)
  masked_seen_reg,  (* sticky: a request was taken under function mask     *)
  accepted,         (* history: accept beats since reset                   *)
  shown             (* history: rises of int_vector for this request       *)

regs == <<state_reg, vec_reg, retry_reg, int_vector_reg, irq_ready_reg,
          mint_valid_reg, sts, masked_seen_reg>>
vars == <<regs, accepted, shown>>

Counters == {"sent", "fail", "disabled", "oor", "retry"}

Busy == state_reg # "IDLE"

(***************************************************************************)
(* cfg_msix_mint_vector, the request port's vector number.                 *)
(***************************************************************************)
cfg_msix_mint_vector == IF mint_valid_reg THEN vec_reg ELSE 0

\* Mutant of Bump: the counter wraps.
WrapBump(c) == sts' = [sts EXCEPT ![c] = (@ + 1) % (StsMax + 1)]

\* One more event of kind c: the counter stops at all ones.
Bump(c) == sts' = [sts EXCEPT ![c] = IF @ = StsMax THEN @ ELSE @ + 1]

-----------------------------------------------------------------------------
Init ==
  /\ state_reg = "IDLE"
  /\ vec_reg = 0
  /\ retry_reg = 0
  /\ int_vector_reg = FALSE
  /\ irq_ready_reg = FALSE
  /\ mint_valid_reg = FALSE
  /\ sts = [c \in Counters |-> 0]
  /\ masked_seen_reg = FALSE
  /\ accepted = 0
  /\ shown = 0

\* ST_IDLE with no handshake at this edge.
Idle(irq) ==
  /\ state_reg = "IDLE"
  /\ irq = NoIrq \/ ~irq_ready_reg
  /\ int_vector_reg' = FALSE
  /\ mint_valid_reg' = FALSE
  /\ irq_ready_reg' = TRUE
  /\ UNCHANGED <<state_reg, vec_reg, retry_reg, sts, masked_seen_reg,
                 accepted, shown>>

TakeIndex(irq) ==
  /\ state_reg = "IDLE" /\ irq_ready_reg /\ irq # NoIrq
  /\ accepted < MaxIrqs
  /\ int_vector_reg' = FALSE
  /\ irq_ready_reg' = FALSE
  /\ vec_reg' = irq
  /\ accepted' = accepted + 1
  /\ shown' = 0

\* Mutant of Accept: the retry count of the last request is inherited.
AcceptKeepsRetry(irq) == TakeIndex(irq) /\ UNCHANGED retry_reg

\* The handshake in ST_IDLE: ready drops for a cycle and the index is latched.
Accept(irq) == TakeIndex(irq) /\ retry_reg' = 0

\* Mutant of DropOutOfRange: the index is presented to the core.
OutOfRangeAdmitted(irq) ==
  /\ Accept(irq)
  /\ irq >= VectorCount
  /\ mint_valid_reg' = TRUE
  /\ state_reg' = "SETUP"
  /\ UNCHANGED <<sts, masked_seen_reg>>

\* An index beyond the table is dropped and counted.
DropOutOfRange(irq) ==
  /\ Accept(irq)
  /\ irq >= VectorCount
  /\ Bump("oor")
  /\ mint_valid_reg' = FALSE
  /\ UNCHANGED <<state_reg, masked_seen_reg>>

\* So is an index taken while the function's MSI-X is disabled.
DropDisabled(irq, enable) ==
  /\ Accept(irq)
  /\ irq < VectorCount /\ ~enable
  /\ Bump("disabled")
  /\ mint_valid_reg' = FALSE
  /\ UNCHANGED <<state_reg, masked_seen_reg>>

\* Anything else becomes a request, the function mask notwithstanding.
Forward(irq, enable, mask) ==
  /\ Accept(irq)
  /\ irq < VectorCount /\ enable
  /\ masked_seen_reg' = (masked_seen_reg \/ mask)
  /\ mint_valid_reg' = TRUE
  /\ state_reg' = "SETUP"
  /\ UNCHANGED sts

\* ST_SETUP: the vector has been on the port for a cycle, raise int_vector.
Present ==
  /\ state_reg = "SETUP"
  /\ int_vector_reg' = TRUE
  /\ state_reg' = "REQ"
  /\ irq_ready_reg' = FALSE
  /\ shown' = shown + 1
  /\ UNCHANGED <<vec_reg, retry_reg, mint_valid_reg, sts, masked_seen_reg,
                 accepted>>

\* ST_REQ, no answer yet.
Wait(sent, fail) ==
  /\ state_reg = "REQ" /\ ~sent /\ ~fail
  /\ int_vector_reg' = TRUE
  /\ irq_ready_reg' = FALSE
  /\ UNCHANGED <<state_reg, vec_reg, retry_reg, mint_valid_reg, sts,
                 masked_seen_reg, accepted, shown>>

\* The end of a presentation: int_vector falls, and the vector leaves the
\* port unless the request is set up again.
EndPresentation(state, vector_stays) ==
  /\ int_vector_reg' = FALSE
  /\ irq_ready_reg' = FALSE
  /\ mint_valid_reg' = vector_stays
  /\ state_reg' = state
  /\ UNCHANGED <<vec_reg, masked_seen_reg, accepted, shown>>

\* Mutant of Retry: the retry limit is not looked at.
RetryUnbounded(fail) ==
  /\ state_reg = "REQ" /\ fail
  /\ Bump("fail")
  /\ retry_reg' = retry_reg + 1
  /\ EndPresentation("SETUP", mint_valid_reg)

\* Mutant of Retry: the vector leaves the port between two presentations.
RetryDropsVector(fail) ==
  /\ state_reg = "REQ" /\ fail /\ retry_reg < RetryLimit
  /\ Bump("fail")
  /\ retry_reg' = retry_reg + 1
  /\ EndPresentation("SETUP", FALSE)

\* ST_REQ, failed with retries left: drop int_vector and set up again.
Retry(fail) ==
  /\ state_reg = "REQ" /\ fail /\ retry_reg < RetryLimit
  /\ Bump("fail")
  /\ retry_reg' = retry_reg + 1
  /\ EndPresentation("SETUP", mint_valid_reg)

\* Mutant of GiveUp: the FSM waits for another answer to the same request.
GiveUpHolds(fail) ==
  /\ state_reg = "REQ" /\ fail /\ retry_reg >= RetryLimit
  /\ Bump("fail")
  /\ UNCHANGED retry_reg
  /\ EndPresentation("REQ", FALSE)

\* ST_REQ, failed with none left: the request is abandoned and counted twice,
\* as a failure and as a request lost to the retry limit.
GiveUp(fail) ==
  /\ state_reg = "REQ" /\ fail /\ retry_reg >= RetryLimit
  /\ sts' = [sts EXCEPT !["fail"] = IF @ = StsMax THEN @ ELSE @ + 1,
                        !["retry"] = IF @ = StsMax THEN @ ELSE @ + 1]
  /\ UNCHANGED retry_reg
  /\ EndPresentation("IDLE", FALSE)

\* ST_REQ, sent; a simultaneous fail wins.
Complete(sent, fail) ==
  /\ state_reg = "REQ" /\ sent /\ ~fail
  /\ Bump("sent")
  /\ UNCHANGED retry_reg
  /\ EndPresentation("IDLE", FALSE)

\* rst overrides whatever the combinational block asked for.
Reset ==
  /\ state_reg' = "IDLE"
  /\ vec_reg' = 0
  /\ retry_reg' = 0
  /\ int_vector_reg' = FALSE
  /\ irq_ready_reg' = FALSE
  /\ mint_valid_reg' = FALSE
  /\ sts' = [c \in Counters |-> 0]
  /\ masked_seen_reg' = FALSE
  /\ accepted' = 0
  /\ shown' = 0

\* The three ways an answer ends a presentation.
Answered(sent, fail) == Retry(fail) \/ GiveUp(fail) \/ Complete(sent, fail)

\* One clock edge with these values on the input pins.
Edge(irq, enable, mask, sent, fail) ==
  \/ Idle(irq)
  \/ DropOutOfRange(irq)
  \/ DropDisabled(irq, enable)
  \/ Forward(irq, enable, mask)
  \/ Present
  \/ Wait(sent, fail)
  \/ Answered(sent, fail)

Next ==
  \/ \E irq \in Indices \cup {NoIrq}, enable, mask, sent, fail \in BOOLEAN :
       Edge(irq, enable, mask, sent, fail)
  \/ Reset

(***************************************************************************)
(* The clock runs, and the core answers every request it is shown: the     *)
(* adapter has no timeout and waits in ST_REQ for as long as it takes.     *)
(***************************************************************************)
Fairness ==
  /\ WF_vars(Idle(NoIrq))
  /\ WF_vars(Present)
  /\ WF_vars(\E sent, fail \in BOOLEAN : Answered(sent, fail))

Spec == Init /\ [][Next]_vars
FairSpec == Spec /\ Fairness

-----------------------------------------------------------------------------
BitsOK ==
  /\ int_vector_reg \in BOOLEAN
  /\ irq_ready_reg \in BOOLEAN
  /\ mint_valid_reg \in BOOLEAN
  /\ masked_seen_reg \in BOOLEAN

RegsOK ==
  /\ state_reg \in {"IDLE", "SETUP", "REQ"}
  /\ vec_reg \in Indices \cup {0}
  /\ retry_reg \in 0 .. RetryLimit
  /\ sts \in [Counters -> 0 .. StsMax]
  /\ accepted \in 0 .. MaxIrqs
  /\ shown \in Nat

TypeOK == BitsOK /\ RegsOK

(***************************************************************************)
(* D-2, D-4, D-5: no accepted index disappears.  Every accept beat is      *)
(* accounted for by exactly one of sent, dropped as disabled, dropped as   *)
(* out of range, dropped at the retry limit, or the request in progress;   *)
(* a saturated counter can only make the books fall short, never exceed.   *)
(***************************************************************************)
Settled == sts["sent"] + sts["disabled"] + sts["oor"] + sts["retry"]
InProgress == IF Busy THEN 1 ELSE 0

Conservation ==
  /\ Settled + InProgress <= accepted
  /\ (\A c \in Counters \ {"fail"} : sts[c] < StsMax)
        => Settled + InProgress = accepted

(***************************************************************************)
(* D-3: a request is shown to the core at most RetryLimit + 1 times, and   *)
(* the failure counter is explained by the requests: RetryLimit + 1        *)
(* failures for each one given up, at most RetryLimit for each one sent,   *)
(* and those of the request in progress.                                   *)
(***************************************************************************)
FailuresExplained ==
  /\ shown <= RetryLimit + 1
  /\ sts["fail"] < StsMax =>
       LET past == sts["fail"] - (IF Busy THEN retry_reg ELSE 0)
       IN  /\ past >= (RetryLimit + 1) * sts["retry"]
           /\ sts["sent"] < StsMax /\ sts["retry"] < StsMax =>
                past <= (RetryLimit + 1) * sts["retry"]
                          + RetryLimit * sts["sent"]

(***************************************************************************)
(* How the port registers follow the FSM, and how often the request in     *)
(* progress has been shown: what makes the two invariants above inductive. *)
(***************************************************************************)
PortFollowsState ==
  /\ int_vector_reg <=> state_reg = "REQ"
  /\ mint_valid_reg <=> Busy
  /\ irq_ready_reg => ~Busy
  /\ Busy => vec_reg \in Indices /\ vec_reg < VectorCount

ShownOncePerFailure ==
  /\ state_reg = "SETUP" => shown = retry_reg
  /\ state_reg = "REQ" => shown = retry_reg + 1

IInv == TypeOK /\ PortFollowsState /\ ShownOncePerFailure
          /\ Conservation /\ FailuresExplained

(***************************************************************************)
(* D-1: the vector number is on the port the cycle before int_vector       *)
(* rises, and neither it nor the vector moves while int_vector is high.    *)
(***************************************************************************)
VectorStable ==
  [][int_vector_reg' =>
       /\ mint_valid_reg
       /\ cfg_msix_mint_vector' = cfg_msix_mint_vector]_vars

(***************************************************************************)
(* "The mapper is STALLING, which deadlocks every event queue": it always  *)
(* comes back to ready, whatever the answers, disables and resets.         *)
(***************************************************************************)
ReadyAgain == []<>irq_ready_reg

(***************************************************************************)
(* What the adapter promises (MsixDelivery): the request in progress, its  *)
(* failures so far and the books, without the port's timing.               *)
(***************************************************************************)
Delivery == INSTANCE MsixDelivery WITH
  request <- IF Busy THEN vec_reg ELSE NoIrq,
  tries <- IF Busy THEN retry_reg ELSE 0,
  books <- sts

Implements == Delivery!Spec

=============================================================================
