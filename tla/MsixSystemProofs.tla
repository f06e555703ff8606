--------------------------- MODULE MsixSystemProofs ---------------------------
(***************************************************************************)
(* Proofs about the MSI-X adapter, alone and beside the simulated core,    *)
(* for every table size on either side, retry limit, counter width and set *)
(* of indices: the adapter delivers each index it accepts or says why not; *)
(* beside the core no interrupt is lost, and no answer is taken for        *)
(* another presentation, as long as the drain's write does not outlast an  *)
(* edge.                                                                   *)
(***************************************************************************)
EXTENDS MsixSystem, TLAPS, WellFoundedInduction

-----------------------------------------------------------------------------
(* The adapter alone.                                                      *)

USE IndicesAssumption, VectorCountAssumption, RetryLimitAssumption,
    StsMaxAssumption, MaxIrqsAssumption

(***************************************************************************)
(* Every step of the adapter is one of its actions for some pin values.    *)
(***************************************************************************)
LEMMA StepCases ==
  Next =>
    \/ \E irq \in Indices \cup {NoIrq} : Idle(irq)
    \/ \E irq \in Indices : DropOutOfRange(irq)
    \/ \E irq \in Indices, en \in BOOLEAN : DropDisabled(irq, en)
    \/ \E irq \in Indices, en, mask \in BOOLEAN :
             Forward(irq, en, mask)
    \/ Present
    \/ \E sent, fail \in BOOLEAN : Wait(sent, fail)
    \/ \E fail \in BOOLEAN : Retry(fail)
    \/ \E fail \in BOOLEAN : GiveUp(fail)
    \/ \E sent, fail \in BOOLEAN : Complete(sent, fail)
    \/ Reset
<1>1. ASSUME NEW irq \in Indices \cup {NoIrq}, NEW en \in BOOLEAN,
             NEW mask \in BOOLEAN, NEW sent \in BOOLEAN,
             NEW fail \in BOOLEAN,
             Edge(irq, en, mask, sent, fail), irq = NoIrq
      PROVE  Idle(irq) \/ Present \/ Wait(sent, fail) \/ Retry(fail)
               \/ GiveUp(fail) \/ Complete(sent, fail)
  BY <1>1 DEF Edge, Answered, DropOutOfRange, DropDisabled, Forward, Accept,
            TakeIndex
<1>2. QED
  BY <1>1 DEF Next, Edge, Answered

-----------------------------------------------------------------------------
(***************************************************************************)
(* Type correctness of the one-bit registers.                              *)
(***************************************************************************)
LEMMA BitsStep ==
  ASSUME BitsOK, [Next]_vars
  PROVE  BitsOK'
<1> USE DEF BitsOK
<1>1. CASE UNCHANGED vars
  BY <1>1 DEF vars, regs
<1>2. CASE Next
  <2>1. CASE \E irq \in Indices \cup {NoIrq} : Idle(irq)
    BY <2>1 DEF Idle
  <2>2. CASE \E irq \in Indices : DropOutOfRange(irq)
    BY <2>2 DEF DropOutOfRange, Accept, TakeIndex
  <2>3. CASE \E irq \in Indices, en \in BOOLEAN : DropDisabled(irq, en)
    BY <2>3 DEF DropDisabled, Accept, TakeIndex
  <2>4. CASE \E irq \in Indices, en, mask \in BOOLEAN :
             Forward(irq, en, mask)
    BY <2>4 DEF Forward, Accept, TakeIndex
  <2>5. CASE Present
    BY <2>5 DEF Present
  <2>6. CASE \E sent, fail \in BOOLEAN : Wait(sent, fail)
    BY <2>6 DEF Wait
  <2>7. CASE \E fail \in BOOLEAN : Retry(fail)
    BY <2>7 DEF Retry, EndPresentation
  <2>8. CASE \E fail \in BOOLEAN : GiveUp(fail)
    BY <2>8 DEF GiveUp, EndPresentation
  <2>9. CASE \E sent, fail \in BOOLEAN : Complete(sent, fail)
    BY <2>9 DEF Complete, EndPresentation
  <2>10. CASE Reset
    BY <2>10 DEF Reset
  <2>11. QED
    BY <1>2, <2>1, <2>2, <2>3, <2>4, <2>5, <2>6, <2>7, <2>8, <2>9, <2>10,
       StepCases
<1>3. QED
  BY <1>1, <1>2

(***************************************************************************)
(* Type correctness of the wider registers, counters and histories.        *)
(***************************************************************************)
LEMMA RegsStep ==
  ASSUME RegsOK, [Next]_vars
  PROVE  RegsOK'
<1> USE DEF RegsOK, Counters
<1>1. CASE UNCHANGED vars
  BY <1>1 DEF vars, regs
<1>2. CASE Next
  <2>1. CASE \E irq \in Indices \cup {NoIrq} : Idle(irq)
    BY <2>1 DEF Idle
  <2>2. CASE \E irq \in Indices : DropOutOfRange(irq)
    BY <2>2 DEF DropOutOfRange, Accept, TakeIndex, Bump
  <2>3. CASE \E irq \in Indices, en \in BOOLEAN : DropDisabled(irq, en)
    BY <2>3 DEF DropDisabled, Accept, TakeIndex, Bump
  <2>4. CASE \E irq \in Indices, en, mask \in BOOLEAN :
             Forward(irq, en, mask)
    BY <2>4 DEF Forward, Accept, TakeIndex
  <2>5. CASE Present
    BY <2>5 DEF Present
  <2>6. CASE \E sent, fail \in BOOLEAN : Wait(sent, fail)
    BY <2>6 DEF Wait
  <2>7. CASE \E fail \in BOOLEAN : Retry(fail)
    BY <2>7 DEF Retry, EndPresentation, Bump
  <2>8. CASE \E fail \in BOOLEAN : GiveUp(fail)
    BY <2>8 DEF GiveUp, EndPresentation
  <2>9. CASE \E sent, fail \in BOOLEAN : Complete(sent, fail)
    BY <2>9 DEF Complete, EndPresentation, Bump
  <2>10. CASE Reset
    BY <2>10 DEF Reset
  <2>11. QED
    BY <1>2, <2>1, <2>2, <2>3, <2>4, <2>5, <2>6, <2>7, <2>8, <2>9, <2>10,
       StepCases
<1>3. QED
  BY <1>1, <1>2

(***************************************************************************)
(* Every register stays within its width, for every value of the constants.*)
(***************************************************************************)
THEOREM TypeCorrect == Spec => []TypeOK
<1>1. Init => TypeOK
  <2>1. Init => BitsOK
    BY DEF Init, BitsOK
  <2>2. Init => RegsOK
    BY DEF Init, RegsOK, Counters
  <2>3. QED
    BY <2>1, <2>2 DEF TypeOK
<1>2. TypeOK /\ [Next]_vars => TypeOK'
  BY BitsStep, RegsStep DEF TypeOK
<1>3. QED
  BY <1>1, <1>2, PTL DEF Spec

-----------------------------------------------------------------------------
(***************************************************************************)
(* int_vector is high exactly in ST_REQ, the vector is on the port exactly *)
(* while busy, and only an index of the table gets there.                  *)
(***************************************************************************)
LEMMA PortStep ==
  ASSUME RegsOK, PortFollowsState, [Next]_vars
  PROVE  PortFollowsState'
<1> USE DEF PortFollowsState, RegsOK, Busy
<1>1. CASE UNCHANGED vars
  BY <1>1 DEF vars, regs
<1>2. CASE Next
  <2>1. CASE \E irq \in Indices \cup {NoIrq} : Idle(irq)
    BY <2>1 DEF Idle
  <2>2. CASE \E irq \in Indices : DropOutOfRange(irq)
    BY <2>2 DEF DropOutOfRange, Accept, TakeIndex, Bump
  <2>3. CASE \E irq \in Indices, en \in BOOLEAN : DropDisabled(irq, en)
    BY <2>3 DEF DropDisabled, Accept, TakeIndex, Bump
  <2>4. CASE \E irq \in Indices, en, mask \in BOOLEAN :
             Forward(irq, en, mask)
    BY <2>4 DEF Forward, Accept, TakeIndex
  <2>5. CASE Present
    BY <2>5 DEF Present
  <2>6. CASE \E sent, fail \in BOOLEAN : Wait(sent, fail)
    BY <2>6 DEF Wait
  <2>7. CASE \E fail \in BOOLEAN : Retry(fail)
    BY <2>7 DEF Retry, EndPresentation, Bump
  <2>8. CASE \E fail \in BOOLEAN : GiveUp(fail)
    BY <2>8 DEF GiveUp, EndPresentation
  <2>9. CASE \E sent, fail \in BOOLEAN : Complete(sent, fail)
    BY <2>9 DEF Complete, EndPresentation, Bump
  <2>10. CASE Reset
    BY <2>10 DEF Reset
  <2>11. QED
    BY <1>2, <2>1, <2>2, <2>3, <2>4, <2>5, <2>6, <2>7, <2>8, <2>9, <2>10,
       StepCases
<1>3. QED
  BY <1>1, <1>2

(***************************************************************************)
(* A request is shown once, and once more for every failure retried.       *)
(***************************************************************************)
LEMMA ShownStep ==
  ASSUME RegsOK, ShownOncePerFailure, [Next]_vars
  PROVE  ShownOncePerFailure'
<1> USE DEF ShownOncePerFailure, RegsOK
<1>1. CASE UNCHANGED vars
  BY <1>1 DEF vars, regs
<1>2. CASE Next
  <2>1. CASE \E irq \in Indices \cup {NoIrq} : Idle(irq)
    BY <2>1 DEF Idle
  <2>2. CASE \E irq \in Indices : DropOutOfRange(irq)
    BY <2>2 DEF DropOutOfRange, Accept, TakeIndex, Bump
  <2>3. CASE \E irq \in Indices, en \in BOOLEAN : DropDisabled(irq, en)
    BY <2>3 DEF DropDisabled, Accept, TakeIndex, Bump
  <2>4. CASE \E irq \in Indices, en, mask \in BOOLEAN :
             Forward(irq, en, mask)
    BY <2>4 DEF Forward, Accept, TakeIndex
  <2>5. CASE Present
    BY <2>5 DEF Present
  <2>6. CASE \E sent, fail \in BOOLEAN : Wait(sent, fail)
    BY <2>6 DEF Wait
  <2>7. CASE \E fail \in BOOLEAN : Retry(fail)
    BY <2>7 DEF Retry, EndPresentation, Bump
  <2>8. CASE \E fail \in BOOLEAN : GiveUp(fail)
    BY <2>8 DEF GiveUp, EndPresentation
  <2>9. CASE \E sent, fail \in BOOLEAN : Complete(sent, fail)
    BY <2>9 DEF Complete, EndPresentation, Bump
  <2>10. CASE Reset
    BY <2>10 DEF Reset
  <2>11. QED
    BY <1>2, <2>1, <2>2, <2>3, <2>4, <2>5, <2>6, <2>7, <2>8, <2>9, <2>10,
       StepCases
<1>3. QED
  BY <1>1, <1>2

(***************************************************************************)
(* Each accept beat enters the books once, when it settles.                *)
(***************************************************************************)
LEMMA ConservationStep ==
  ASSUME RegsOK, Conservation, [Next]_vars
  PROVE  Conservation'
<1> USE DEF Conservation, Settled, InProgress, Busy, RegsOK, Counters
<1>1. CASE UNCHANGED vars
  BY <1>1 DEF vars, regs
<1>2. CASE Next
  <2>1. CASE \E irq \in Indices \cup {NoIrq} : Idle(irq)
    BY <2>1 DEF Idle
  <2>2. CASE \E irq \in Indices : DropOutOfRange(irq)
    BY <2>2 DEF DropOutOfRange, Accept, TakeIndex, Bump
  <2>3. CASE \E irq \in Indices, en \in BOOLEAN : DropDisabled(irq, en)
    BY <2>3 DEF DropDisabled, Accept, TakeIndex, Bump
  <2>4. CASE \E irq \in Indices, en, mask \in BOOLEAN :
             Forward(irq, en, mask)
    BY <2>4 DEF Forward, Accept, TakeIndex
  <2>5. CASE Present
    BY <2>5 DEF Present
  <2>6. CASE \E sent, fail \in BOOLEAN : Wait(sent, fail)
    BY <2>6 DEF Wait
  <2>7. CASE \E fail \in BOOLEAN : Retry(fail)
    BY <2>7 DEF Retry, EndPresentation, Bump
  <2>8. CASE \E fail \in BOOLEAN : GiveUp(fail)
    BY <2>8 DEF GiveUp, EndPresentation
  <2>9. CASE \E sent, fail \in BOOLEAN : Complete(sent, fail)
    BY <2>9 DEF Complete, EndPresentation, Bump
  <2>10. CASE Reset
    BY <2>10 DEF Reset
  <2>11. QED
    BY <1>2, <2>1, <2>2, <2>3, <2>4, <2>5, <2>6, <2>7, <2>8, <2>9, <2>10,
       StepCases
<1>3. QED
  BY <1>1, <1>2

(***************************************************************************)
(* Giving up books RetryLimit + 1 failures, sending at most RetryLimit.    *)
(***************************************************************************)
LEMMA FailuresStep ==
  ASSUME RegsOK, ShownOncePerFailure, FailuresExplained, [Next]_vars
  PROVE  FailuresExplained'
<1> USE DEF FailuresExplained, ShownOncePerFailure, Busy, RegsOK, Counters
<1>1. CASE UNCHANGED vars
  BY <1>1 DEF vars, regs
<1>2. CASE Next
  <2>1. CASE \E irq \in Indices \cup {NoIrq} : Idle(irq)
    BY <2>1 DEF Idle
  <2>2. CASE \E irq \in Indices : DropOutOfRange(irq)
    BY <2>2 DEF DropOutOfRange, Accept, TakeIndex, Bump
  <2>3. CASE \E irq \in Indices, en \in BOOLEAN : DropDisabled(irq, en)
    BY <2>3 DEF DropDisabled, Accept, TakeIndex, Bump
  <2>4. CASE \E irq \in Indices, en, mask \in BOOLEAN :
             Forward(irq, en, mask)
    BY <2>4 DEF Forward, Accept, TakeIndex
  <2>5. CASE Present
    BY <2>5 DEF Present
  <2>6. CASE \E sent, fail \in BOOLEAN : Wait(sent, fail)
    BY <2>6 DEF Wait
  <2>7. CASE \E fail \in BOOLEAN : Retry(fail)
    BY <2>7 DEF Retry, EndPresentation, Bump
  <2>8. CASE \E fail \in BOOLEAN : GiveUp(fail)
    BY <2>8 DEF GiveUp, EndPresentation
  <2>9. CASE \E sent, fail \in BOOLEAN : Complete(sent, fail)
    BY <2>9 DEF Complete, EndPresentation, Bump
  <2>10. CASE Reset
    BY <2>10 DEF Reset
  <2>11. QED
    BY <1>2, <2>1, <2>2, <2>3, <2>4, <2>5, <2>6, <2>7, <2>8, <2>9, <2>10,
       StepCases
<1>3. QED
  BY <1>1, <1>2

(***************************************************************************)
(* The inductive invariant.                                                *)
(***************************************************************************)
LEMMA Inductive == Spec => []IInv
<1>1. Init => IInv
  <2>1. Init => BitsOK
    BY DEF Init, BitsOK
  <2>2. Init => RegsOK
    BY DEF Init, RegsOK, Counters
  <2>3. Init => PortFollowsState /\ ShownOncePerFailure
    BY DEF Init, PortFollowsState, ShownOncePerFailure, Busy
  <2>4. Init => Conservation /\ FailuresExplained
    BY DEF Init, Conservation, FailuresExplained, Settled, InProgress, Busy,
           Counters
  <2>5. QED
    BY <2>1, <2>2, <2>3, <2>4 DEF IInv, TypeOK
<1>2. IInv /\ [Next]_vars => IInv'
  BY BitsStep, RegsStep, PortStep, ShownStep, ConservationStep, FailuresStep
     DEF IInv, TypeOK
<1>3. QED
  BY <1>1, <1>2, PTL DEF Spec

(***************************************************************************)
(* D-2, D-4, D-5: whatever the pins do, the books never exceed the accept  *)
(* beats, and balance them until a counter saturates.                      *)
(***************************************************************************)
THEOREM EveryAcceptAccounted == Spec => []Conservation
<1>1. IInv => Conservation
  BY DEF IInv
<1>2. QED
  BY <1>1, Inductive, PTL

(***************************************************************************)
(* D-3: no request is shown more than RetryLimit + 1 times, and the        *)
(* failure counter is explained by the requests sent and given up.         *)
(***************************************************************************)
THEOREM RetriesBounded == Spec => []FailuresExplained
<1>1. IInv => FailuresExplained
  BY DEF IInv
<1>2. QED
  BY <1>1, Inductive, PTL

(***************************************************************************)
(* D-1: the vector number is on the port a cycle before int_vector rises   *)
(* and does not move while it is high.                                     *)
(***************************************************************************)
THEOREM VectorHeld == Spec => VectorStable
<1> DEFINE Held == int_vector_reg' =>
                     /\ mint_valid_reg
                     /\ cfg_msix_mint_vector' = cfg_msix_mint_vector
<1>1. IInv /\ [Next]_vars => [Held]_vars
  <2> SUFFICES ASSUME IInv, Next PROVE Held
    OBVIOUS
  <2> USE DEF IInv, PortFollowsState, Busy, cfg_msix_mint_vector
  <2>1. CASE \E irq \in Indices \cup {NoIrq} : Idle(irq)
    BY <2>1 DEF Idle
  <2>2. CASE \E irq \in Indices : DropOutOfRange(irq)
    BY <2>2 DEF DropOutOfRange, Accept, TakeIndex
  <2>3. CASE \E irq \in Indices, en \in BOOLEAN : DropDisabled(irq, en)
    BY <2>3 DEF DropDisabled, Accept, TakeIndex
  <2>4. CASE \E irq \in Indices, en, mask \in BOOLEAN :
             Forward(irq, en, mask)
    BY <2>4 DEF Forward, Accept, TakeIndex
  <2>5. CASE Present
    BY <2>5 DEF Present
  <2>6. CASE \E sent, fail \in BOOLEAN : Wait(sent, fail)
    BY <2>6 DEF Wait
  <2>7. CASE \E fail \in BOOLEAN : Retry(fail)
    BY <2>7 DEF Retry, EndPresentation
  <2>8. CASE \E fail \in BOOLEAN : GiveUp(fail)
    BY <2>8 DEF GiveUp, EndPresentation
  <2>9. CASE \E sent, fail \in BOOLEAN : Complete(sent, fail)
    BY <2>9 DEF Complete, EndPresentation
  <2>10. CASE Reset
    BY <2>10 DEF Reset
  <2>11. QED
    BY <2>1, <2>2, <2>3, <2>4, <2>5, <2>6, <2>7, <2>8, <2>9, <2>10, StepCases
<1>2. QED
  BY <1>1, Inductive, PTL DEF Spec, VectorStable

(***************************************************************************)
(* A saturating increment is an entry in the books of MsixDelivery.        *)
(***************************************************************************)
LEMMA BumpIsEntry ==
  ASSUME RegsOK, NEW c \in Counters, Bump(c)
  PROVE  sts' = Delivery!Entered({c})
<1>1. sts' = [k \in Counters |->
                IF k = c THEN IF sts[k] = StsMax THEN sts[k] ELSE sts[k] + 1
                         ELSE sts[k]]
  BY DEF RegsOK, Bump
<1>2. \A k \in Counters : sts[k] \in 0 .. StsMax
  BY DEF RegsOK
<1>3. QED
  BY <1>1, <1>2 DEF Delivery!Entered, Delivery!Outcomes, Counters

(***************************************************************************)
(* The adapter implements the delivery of one request at a time promised   *)
(* by MsixDelivery: waiting, setting up and returning to ready are its     *)
(* stuttering steps.                                                       *)
(***************************************************************************)
THEOREM ImplementsDelivery == Spec => Implements
<1>1. Init => Delivery!Init
  BY DEF Init, Delivery!Init, Busy, Counters, Delivery!Outcomes
<1>2. IInv /\ [Next]_vars => [Delivery!Next]_(Delivery!vars)
  <2> SUFFICES ASSUME IInv, [Next]_vars
               PROVE  [Delivery!Next]_(Delivery!vars)
    OBVIOUS
  <2> USE DEF IInv, TypeOK, PortFollowsState, Busy, Delivery!vars
  <2>1. CASE UNCHANGED vars
    BY <2>1 DEF vars, regs
  <2>2. CASE Next
    <3>1. CASE \E irq \in Indices \cup {NoIrq} : Idle(irq)
      BY <3>1 DEF Idle
    <3>2. CASE \E irq \in Indices : DropOutOfRange(irq)
      <4>1. Bump("oor") /\ ~Busy /\ ~Busy'
        BY <3>2 DEF DropOutOfRange, Accept, TakeIndex
      <4>2. sts' = Delivery!Entered({"oor"})
        BY <4>1, BumpIsEntry DEF Counters
      <4>3. Delivery!Discard
        BY <4>1, <4>2 DEF Delivery!Discard
      <4>4. QED
        BY <4>3 DEF Delivery!Next
    <3>3. CASE \E irq \in Indices, en \in BOOLEAN :
                 DropDisabled(irq, en)
      <4>1. Bump("disabled") /\ ~Busy /\ ~Busy'
        BY <3>3 DEF DropDisabled, Accept, TakeIndex
      <4>2. sts' = Delivery!Entered({"disabled"})
        BY <4>1, BumpIsEntry DEF Counters
      <4>3. Delivery!Discard
        BY <4>1, <4>2 DEF Delivery!Discard
      <4>4. QED
        BY <4>3 DEF Delivery!Next
    <3>4. CASE \E irq \in Indices, en, mask \in BOOLEAN :
                 Forward(irq, en, mask)
      BY <3>4 DEF Forward, Accept, TakeIndex, Delivery!Take, Delivery!Next
    <3>5. CASE Present
      BY <3>5 DEF Present
    <3>6. CASE \E sent, fail \in BOOLEAN : Wait(sent, fail)
      BY <3>6 DEF Wait
    <3>7. CASE \E fail \in BOOLEAN : Retry(fail)
      <4>1. sts' = Delivery!Entered({"fail"})
        BY <3>7, BumpIsEntry DEF Retry, Counters
      <4>2. Delivery!Refused
        BY <3>7, <4>1 DEF Retry, EndPresentation, Delivery!Refused, RegsOK
      <4>3. QED
        BY <4>2 DEF Delivery!Next
    <3>8. CASE \E fail \in BOOLEAN : GiveUp(fail)
      <4>1. sts' = Delivery!Entered({"fail", "retry"})
        <5>1. sts' = [k \in Counters |->
                        IF k \in {"fail", "retry"}
                        THEN IF sts[k] = StsMax THEN sts[k] ELSE sts[k] + 1
                        ELSE sts[k]]
          BY <3>8 DEF GiveUp, RegsOK, Counters
        <5>2. \A k \in Counters : sts[k] \in 0 .. StsMax
          BY DEF RegsOK
        <5>3. QED
          BY <5>1, <5>2 DEF Delivery!Entered, Delivery!Outcomes, Counters
      <4>2. state_reg = "REQ" /\ state_reg' = "IDLE"
        BY <3>8 DEF GiveUp, EndPresentation
      <4>3. retry_reg = RetryLimit
        BY <3>8 DEF GiveUp, RegsOK
      <4>4. Delivery!Abandon
        BY <4>1, <4>2, <4>3 DEF Delivery!Abandon
      <4>5. QED
        BY <4>4 DEF Delivery!Next
    <3>9. CASE \E sent, fail \in BOOLEAN : Complete(sent, fail)
      <4>1. sts' = Delivery!Entered({"sent"})
        BY <3>9, BumpIsEntry DEF Complete, Counters
      <4>2. Delivery!Deliver
        BY <3>9, <4>1 DEF Complete, EndPresentation, Delivery!Deliver
      <4>3. QED
        BY <4>2 DEF Delivery!Next
    <3>10. CASE Reset
      BY <3>10 DEF Reset, Delivery!Restart, Delivery!Next, Counters,
                   Delivery!Outcomes
    <3>11. QED
      BY <2>2, <3>1, <3>2, <3>3, <3>4, <3>5, <3>6, <3>7, <3>8, <3>9, <3>10,
         StepCases
  <2>3. QED
    BY <2>1, <2>2
<1>3. QED
  BY <1>1, <1>2, Inductive, PTL DEF Spec, Implements, Delivery!Spec

-----------------------------------------------------------------------------
(* The adapter beside the core.                                            *)

(***************************************************************************)
(* How the coroutine keeps up with the adapter.  An answer on the pins, or *)
(* a send awaited, is for the presentation the adapter is making, which    *)
(* the device has seen; a presentation it has not seen is a rise to it.    *)
(***************************************************************************)
InStep ==
  /\ seen => state_reg = "REQ"
  /\ p_sent \/ p_fail => state_reg = "REQ" /\ seen /\ dev_pc # "send"
  /\ dev_pc = "send" => state_reg = "REQ" /\ seen
  /\ state_reg = "REQ" /\ ~seen => ~last_int
  /\ state_reg = "REQ" /\ seen /\ dev_pc # "send" => last_int

(***************************************************************************)
(* What is obliged is in progress or deferred; once its message is issued, *)
(* or its answer says sent, the request in progress answers for nothing.   *)
(***************************************************************************)
Covered ==
  /\ NoInterruptLost
  /\ dev_pc = "send" => dev_vec = vec_reg /\ vec_reg \notin obliged
  /\ p_sent => vec_reg \notin obliged \/ vec_reg \in pba

SysInv == InStep /\ Covered /\ PortFollowsState

-----------------------------------------------------------------------------
\* One-bit variables, the only types the steps below need.
BitsTyped ==
  /\ p_sent \in BOOLEAN /\ p_fail \in BOOLEAN
  /\ enable \in BOOLEAN /\ fn_mask \in BOOLEAN

LEMMA InitBits == SysInit => BitsTyped
BY DEF SysInit, BitsTyped

LEMMA StepBits == BitsTyped /\ [SysNext]_sysVars => BitsTyped'
<1> SUFFICES ASSUME BitsTyped, [SysNext]_sysVars PROVE BitsTyped'
  OBVIOUS
<1> USE DEF BitsTyped, hostVars, devVars
<1>1. CASE UNCHANGED sysVars  BY <1>1 DEF sysVars
<1>2. ASSUME NEW owed, DevEdge(owed)
      PROVE  p_sent' \in BOOLEAN /\ p_fail' \in BOOLEAN
  BY <1>2 DEF DevEdge, DevNoRequest, DevFail, DevDefer, DevSend, DevBlind
<1>3. CASE Clock
  BY <1>2, <1>3 DEF Clock
<1>4. CASE SendDone  BY <1>4 DEF SendDone
<1>5. CASE DrainDone \/ HostWrite \/ TestForcesFail
  BY <1>5 DEF DrainDone, HostWrite, TestForcesFail
<1> QED  BY <1>1, <1>3, <1>4, <1>5 DEF SysNext

\* A step of the system is a step of the adapter or leaves it alone.
LEMMA StepIsAdapters == BitsTyped /\ [SysNext]_sysVars => [Next]_vars
<1> SUFFICES ASSUME BitsTyped, [SysNext]_sysVars PROVE [Next]_vars
  OBVIOUS
<1>1. CASE UNCHANGED sysVars  BY <1>1 DEF sysVars
<1>2. CASE Clock
  BY <1>2 DEF Clock, BitsTyped, Next, Edge, Answered
<1>3. CASE SendDone \/ DrainDone \/ HostWrite \/ TestForcesFail
  BY <1>3 DEF SendDone, DrainDone, HostWrite, TestForcesFail
<1> QED  BY <1>1, <1>2, <1>3 DEF SysNext

(***************************************************************************)
(* The adapter beside the simulated core behaves as MsixAdapt says, so     *)
(* whatever is proved of it there holds in the system.                     *)
(***************************************************************************)
THEOREM SystemRunsAdapter == SysSpec => Spec
<1>1. SysInit => Init  BY DEF SysInit
<1> QED  BY <1>1, InitBits, StepBits, StepIsAdapters, PTL DEF SysSpec, Spec

-----------------------------------------------------------------------------
(* An edge, seen from either side.                                         *)

\* Where an edge takes the adapter, and what is owed before the drain.
AdapterMoves(owed) ==
  \/ state_reg = "IDLE" /\ state_reg' = "IDLE" /\ owed = obliged
  \/ /\ state_reg = "IDLE" /\ state_reg' = "SETUP"
     /\ owed = obliged \cup {vec_reg'}
  \/ /\ state_reg = "SETUP" /\ state_reg' = "REQ" /\ vec_reg' = vec_reg
     /\ owed = obliged
  \/ /\ state_reg = "REQ" /\ state_reg' = "REQ" /\ vec_reg' = vec_reg
     /\ ~p_sent /\ ~p_fail /\ owed = obliged
  \/ /\ state_reg = "REQ" /\ state_reg' = "SETUP" /\ vec_reg' = vec_reg
     /\ p_fail /\ owed = obliged
  \/ /\ state_reg = "REQ" /\ state_reg' = "IDLE" /\ p_fail
     /\ owed = obliged \ ({vec_reg} \ pba)
  \/ /\ state_reg = "REQ" /\ state_reg' = "IDLE" /\ p_sent
     /\ owed = obliged

LEMMA ClockMoves ==
  ASSUME Clock
  PROVE  \E owed : DevEdge(owed) /\ AdapterMoves(owed)
<1>1. CASE \E irq \in Indices :
             /\ DropOutOfRange(irq) \/ DropDisabled(irq, enable) \/ Idle(irq)
             /\ DevEdge(obliged)
  BY <1>1 DEF DropOutOfRange, DropDisabled, Idle, Accept, TakeIndex,
              AdapterMoves
<1>2. CASE \E irq \in Indices :
             Forward(irq, enable, fn_mask) /\ DevEdge(obliged \cup {irq})
  BY <1>2 DEF Forward, Accept, TakeIndex, AdapterMoves
<1>3. CASE /\ \/ Idle(NoIrq) \/ Present \/ Wait(p_sent, p_fail)
              \/ Retry(p_fail) \/ Complete(p_sent, p_fail)
           /\ DevEdge(obliged)
  BY <1>3 DEF Idle, Present, Wait, Retry, Complete, EndPresentation,
              AdapterMoves
<1>4. CASE GiveUp(p_fail) /\ DevEdge(obliged \ ({vec_reg} \ pba))
  BY <1>4 DEF GiveUp, EndPresentation, AdapterMoves
<1> QED  BY <1>1, <1>2, <1>3, <1>4 DEF Clock

\* The drain forgets nothing: a vector still obliged was, and keeps its bit.
Kept(deferred, owed) ==
  /\ dev_pc' # "send"
  /\ \A v \in obliged' : v \in owed /\ (v \in deferred => v \in pba')

LEMMA DrainKeeps ==
  ASSUME NEW open, NEW deferred, NEW owed, Drain(open, deferred, owed)
  PROVE  Kept(deferred, owed)
BY DEF Drain, StartDrain, EndPass, Kept

-----------------------------------------------------------------------------
LEMMA ClockKeeps ==
  ASSUME SysInv, PortFollowsState', "drain" \notin LateWrites, Clock
  PROVE  InStep' /\ Covered'
<1> PICK owed : DevEdge(owed) /\ AdapterMoves(owed)  BY ClockMoves
<1>1. seen' = IF int_vector_reg' THEN seen \/ SawRise ELSE FALSE
  BY DEF Clock
<1> USE <1>1 DEF SysInv, PortFollowsState, InStep, Covered, NoInterruptLost,
                 AdapterMoves, Kept, SawRise, Busy
<1>2. CASE DevNoRequest(owed)
  <2>1. Kept(pba, owed)  BY <1>2, DrainKeeps DEF DevNoRequest
  <2>2. InStep'  BY <1>2, <2>1 DEF DevNoRequest
  <2>3. Covered'  BY <1>2, <2>1 DEF DevNoRequest
  <2> QED  BY <2>2, <2>3
<1>3. CASE DevFail(owed)
  <2>1. Kept(pba, owed)  BY <1>3, DrainKeeps DEF DevFail
  <2> QED  BY <1>3, <2>1 DEF DevFail
<1>4. CASE DevDefer(owed)
  <2>1. Kept(pba \cup {vec_reg}, owed)
    BY <1>4, DrainKeeps DEF DevDefer, cfg_msix_mint_vector
  <2> QED  BY <1>4, <2>1 DEF DevDefer
<1>5. CASE DevSend(owed)
  BY <1>5 DEF DevSend, cfg_msix_mint_vector
<1>6. CASE DevBlind(owed)
  <2>1. dev_pc = "send"
    BY <1>6, LateWritesAssumption DEF DevBlind
  <2> QED  BY <1>6, <2>1 DEF DevBlind, devVars
<1> QED  BY <1>2, <1>3, <1>4, <1>5, <1>6 DEF DevEdge

LEMMA SendDoneKeeps ==
  ASSUME SysInv, SendDone
  PROVE  InStep' /\ Covered'
<1>1. Kept(pba \ {dev_vec}, obliged)  BY DrainKeeps DEF SendDone
<1> QED
  BY <1>1 DEF SendDone, SysInv, InStep, Covered, NoInterruptLost, Kept, Busy,
              vars, regs

\* SysInv is inductive if the drain's write does not outlast an edge.
LEMMA StepSysInv ==
  ASSUME "drain" \notin LateWrites, SysInv, PortFollowsState',
         [SysNext]_sysVars
  PROVE  SysInv'
<1> USE DEF SysInv
<1>1. CASE UNCHANGED sysVars
  BY <1>1 DEF sysVars, devVars, vars, regs, InStep, Covered, NoInterruptLost,
              Busy
<1>2. CASE Clock  BY <1>2, ClockKeeps
<1>3. CASE SendDone  BY <1>3, SendDoneKeeps
<1>4. CASE DrainDone
  BY <1>4 DEF DrainDone, vars, regs, InStep, Covered, NoInterruptLost, Busy
<1>5. CASE HostWrite \/ TestForcesFail
  BY <1>5 DEF HostWrite, TestForcesFail, devVars, vars, regs, InStep, Covered,
              NoInterruptLost, Busy
<1> QED  BY <1>1, <1>2, <1>3, <1>4, <1>5 DEF SysNext

LEMMA InitSysInv == SysInit => SysInv
BY DEF SysInit, Init, SysInv, InStep, Covered, NoInterruptLost,
       PortFollowsState, Busy

LEMMA SystemInvariant ==
  ASSUME "drain" \notin LateWrites
  PROVE  SysSpec => []SysInv
<1>1. Spec => []PortFollowsState
  <2>1. IInv => PortFollowsState  BY DEF IInv
  <2> QED  BY <2>1, Inductive, PTL
<1>2. SysInv /\ PortFollowsState' /\ [SysNext]_sysVars => SysInv'
  BY StepSysInv
<1> QED  BY <1>1, <1>2, InitSysInv, SystemRunsAdapter, PTL DEF SysSpec

(***************************************************************************)
(* D-6, "the CPM5 core queues it in its own PBA": an index the adapter     *)
(* took is in progress or deferred until its message is issued, whatever   *)
(* the host masks meanwhile, unless the drain's write outlasts an edge.    *)
(***************************************************************************)
THEOREM NothingLost ==
  ASSUME "drain" \notin LateWrites
  PROVE  SysSpec => []NoInterruptLost
<1>1. SysInv => NoInterruptLost  BY DEF SysInv, Covered
<1> QED  BY <1>1, SystemInvariant, PTL

(***************************************************************************)
(* The adapter leaves ST_REQ only on an answer to the presentation it is   *)
(* making, whose rise the core saw (cpm5_msix_internal.py:200).            *)
(***************************************************************************)
THEOREM AnswersBelong ==
  ASSUME "drain" \notin LateWrites
  PROVE  SysSpec => AnswersMatch
<1> DEFINE Matched == state_reg = "REQ" /\ state_reg' # "REQ" => seen
<1>1. SysInv /\ [SysNext]_sysVars => [Matched]_sysVars
  <2> SUFFICES ASSUME SysInv, SysNext PROVE Matched
    OBVIOUS
  <2>1. CASE Clock
    BY <2>1, ClockMoves DEF AdapterMoves, SysInv, InStep
  <2>2. CASE SendDone \/ DrainDone \/ HostWrite \/ TestForcesFail
    BY <2>2 DEF SendDone, DrainDone, HostWrite, TestForcesFail, vars, regs
  <2> QED  BY <2>1, <2>2 DEF SysNext
<1> QED  BY <1>1, SystemInvariant, PTL DEF SysSpec, AnswersMatch

-----------------------------------------------------------------------------
\* The drain's choice is one of the vectors it may choose.
LEMMA LowestIsMember ==
  ASSUME NEW S, S \subseteq Nat, S # {}
  PROVE  Lowest(S) \in S
<1> DEFINE R == OpToRel(<, Nat)
<1>1. PICK v \in S : \A w \in S : <<w, v>> \notin R
  BY NatLessThanWellFounded, WFMin
<1>2. \A w \in S : v <= w
  <2> SUFFICES ASSUME NEW w \in S, ~(v <= w) PROVE FALSE
    OBVIOUS
  <2>1. <<w, v>> \in R  BY DEF OpToRel
  <2> QED  BY <1>1, <2>1
<1> QED  BY <1>2 DEF Lowest

\* The types of the device's and the host's variables.
DeviceTypes ==
  /\ dev_pc \in {"edge", "send", "drain"}
  /\ dev_vec \in Vectors
  /\ pba \subseteq Vectors /\ vec_mask \subseteq Vectors
  /\ obliged \subseteq Indices

DeviceBits ==
  /\ last_int \in BOOLEAN /\ p_sent \in BOOLEAN /\ p_fail \in BOOLEAN
  /\ force_fail \in BOOLEAN /\ enable \in BOOLEAN /\ fn_mask \in BOOLEAN
  /\ seen \in BOOLEAN

LEMMA DrainTypes ==
  ASSUME DeviceTypes, NEW open, NEW deferred \in SUBSET Vectors,
         NEW owed \in SUBSET Indices, Drain(open, deferred, owed)
  PROVE  /\ dev_pc' \in {"edge", "send", "drain"}
         /\ dev_vec' \in Vectors
         /\ pba' \subseteq Vectors /\ obliged' \subseteq Indices
<1> DEFINE ready == deferred \ vec_mask
<1>1. CASE open /\ ready # {}
  <2>1. ready \subseteq Nat
    <3>1. \A v \in Vectors : v \in Nat
      BY TableSizeAssumption DEF Vectors
    <3> QED  BY <3>1
  <2>2. Lowest(ready) \in ready
    BY <1>1, <2>1, LowestIsMember
  <2> QED  BY <1>1, <2>2 DEF Drain, StartDrain
<1>2. CASE ~(open /\ ready # {})
  BY <1>2 DEF Drain, EndPass, DeviceTypes
<1> QED  BY <1>1, <1>2

\* A vector the device does not refuse is one of its table.
LEMMA ServedInTable ==
  ASSUME TypeOK, cfg_msix_mint_vector < TableSize
  PROVE  cfg_msix_mint_vector \in Vectors
BY IndicesAssumption, TableSizeAssumption
   DEF TypeOK, RegsOK, cfg_msix_mint_vector, Vectors

LEMMA ClockTypes ==
  ASSUME TypeOK, DeviceTypes, Clock
  PROVE  DeviceTypes'
<1>1. PICK owed \in SUBSET Indices : DevEdge(owed)
  BY DEF Clock, DeviceTypes
<1>2. UNCHANGED vec_mask  BY DEF Clock, hostVars
<1>3. CASE DevNoRequest(owed)
  BY <1>2, <1>3, DrainTypes DEF DevNoRequest, DeviceTypes
<1>4. CASE DevFail(owed)
  BY <1>2, <1>4, DrainTypes DEF DevFail, DeviceTypes
<1>5. CASE DevDefer(owed)
  <2>1. pba \cup {cfg_msix_mint_vector} \in SUBSET Vectors
    BY <1>5, ServedInTable DEF DevDefer, DeviceTypes
  <2>2. Drain(Open, pba \cup {cfg_msix_mint_vector}, owed)
    BY <1>5 DEF DevDefer
  <2> QED  BY <1>2, <2>1, <2>2, DrainTypes DEF DeviceTypes
<1>6. CASE DevSend(owed)
  BY <1>2, <1>6, ServedInTable DEF DevSend, DeviceTypes
<1>7. CASE DevBlind(owed)
  BY <1>2, <1>7 DEF DevBlind, devVars, DeviceTypes
<1> QED  BY <1>1, <1>3, <1>4, <1>5, <1>6, <1>7 DEF DevEdge

LEMMA StepDeviceTypes ==
  TypeOK /\ DeviceTypes /\ [SysNext]_sysVars => DeviceTypes'
<1> SUFFICES ASSUME TypeOK, DeviceTypes, [SysNext]_sysVars
             PROVE  DeviceTypes'
  OBVIOUS
<1>1. CASE UNCHANGED sysVars
  BY <1>1 DEF sysVars, devVars, hostVars, DeviceTypes
<1>2. CASE SendDone
  <2>1. pba \ {dev_vec} \in SUBSET Vectors /\ obliged \in SUBSET Indices
    BY DEF DeviceTypes
  <2>2. Drain(TRUE, pba \ {dev_vec}, obliged) /\ UNCHANGED vec_mask
    BY <1>2 DEF SendDone, hostVars
  <2> QED  BY <2>1, <2>2, DrainTypes DEF DeviceTypes
<1>3. CASE DrainDone \/ TestForcesFail
  BY <1>3 DEF DrainDone, TestForcesFail, devVars, hostVars, DeviceTypes
<1>4. CASE HostWrite
  BY <1>4 DEF HostWrite, devVars, DeviceTypes
<1> QED  BY <1>1, <1>2, <1>3, <1>4, ClockTypes DEF SysNext

LEMMA StepDeviceBits ==
  BitsOK /\ DeviceBits /\ [SysNext]_sysVars => DeviceBits'
<1> SUFFICES ASSUME BitsOK, DeviceBits, [SysNext]_sysVars PROVE DeviceBits'
  OBVIOUS
<1> USE DEF DeviceBits, BitsOK, hostVars, devVars
<1>1. CASE UNCHANGED sysVars  BY <1>1 DEF sysVars
<1>2. CASE Clock
  <2>1. ASSUME NEW owed, DevEdge(owed)
        PROVE  /\ p_sent' \in BOOLEAN /\ p_fail' \in BOOLEAN
               /\ last_int' \in BOOLEAN /\ force_fail' \in BOOLEAN
    BY <2>1 DEF DevEdge, DevNoRequest, DevFail, DevDefer, DevSend, DevBlind
  <2>2. \E owed : DevEdge(owed)  BY <1>2 DEF Clock
  <2>3. seen' \in BOOLEAN /\ UNCHANGED hostVars
    BY <1>2 DEF Clock, SawRise
  <2> QED  BY <2>1, <2>2, <2>3
<1>3. CASE SendDone  BY <1>3 DEF SendDone
<1>4. CASE DrainDone \/ HostWrite \/ TestForcesFail
  BY <1>4 DEF DrainDone, HostWrite, TestForcesFail
<1> QED  BY <1>1, <1>2, <1>3, <1>4 DEF SysNext

(***************************************************************************)
(* The device serves and defers only vectors of its table, the comparison  *)
(* at cpm5_msix_internal.py:219, and every variable of the system keeps    *)
(* its type, wherever the writes end.                                      *)
(***************************************************************************)
THEOREM SystemTypeCorrect == SysSpec => []SysTypeOK
<1>1. SysInit => DeviceTypes /\ DeviceBits
  <2>1. SysInit => DeviceTypes
    BY TableSizeAssumption DEF SysInit, DeviceTypes, Vectors
  <2>2. SysInit => DeviceBits  BY DEF SysInit, DeviceBits
  <2> QED  BY <2>1, <2>2
<1>2. TypeOK /\ DeviceTypes /\ DeviceBits /\ [SysNext]_sysVars
        => DeviceTypes' /\ DeviceBits'
  BY StepDeviceTypes, StepDeviceBits DEF TypeOK
<1>3. TypeOK /\ DeviceTypes /\ DeviceBits => SysTypeOK
  BY DEF DeviceTypes, DeviceBits, SysTypeOK
<1> QED
  BY <1>1, <1>2, <1>3, SystemRunsAdapter, TypeCorrect, PTL DEF SysSpec

=============================================================================
