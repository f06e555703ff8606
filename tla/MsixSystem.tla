----------------------------- MODULE MsixSystem -----------------------------
(***************************************************************************)
(* The MSI-X adapter wired to the MSI-X Internal CPM5 of the simulation,   *)
(* sim/model/cpm5_msix_internal.py, and to the host that masks and unmasks *)
(* vectors.  The device is one coroutine: per clock edge it clears its     *)
(* answer pins, serves a rise of int_vector, then drains one deferred      *)
(* vector, and both of the last two await a memory write.  An await that   *)
(* does not finish before the next edge leaves the coroutine blind to it   *)
(* while the adapter goes on; LateWrites says which of the two may do so.  *)
(***************************************************************************)
EXTENDS MsixAdapt

CONSTANTS
  TableSize,  (* msix_count, the vectors the function advertises            *)
  LateWrites  (* which awaited writes may outlast an edge: "send", "drain"  *)

ASSUME TableSizeAssumption == TableSize \in Nat \ {0}
ASSUME LateWritesAssumption == LateWrites \subseteq {"send", "drain"}

VARIABLES
  dev_pc,      (* where the coroutine waits: "edge", "send" or "drain"      *)
  dev_vec,     (* the vector it is serving                                  *)
  last_int,    (* int_vector at the edge it last looked                     *)
  p_sent,      (* drives cfg_msix_sent                                      *)
  p_fail,      (* drives cfg_msix_fail                                      *)
  pba,         (* _pba_pending: deferred vectors                            *)
  force_fail,  (* force_fail_once, the test's hook                          *)
  enable,      (* MSI-X enable of the function                              *)
  fn_mask,     (* its function mask                                         *)
  vec_mask,    (* vectors masked in the table                               *)
  obliged,     (* history: vectors taken since their last message was sent  *)
  seen         (* history: the device has seen this presentation            *)

devVars == <<dev_pc, dev_vec, last_int, p_sent, p_fail, pba>>
hostVars == <<enable, fn_mask, vec_mask>>
sysVars == <<vars, devVars, hostVars, force_fail, obliged, seen>>

Vectors == 0 .. TableSize - 1

-----------------------------------------------------------------------------
\* The drain takes v and awaits its write; left stay deferred.
StartDrain(v, left, owed) ==
  /\ dev_pc' = "drain" /\ dev_vec' = v
  /\ pba' = left
  /\ obliged' = owed \ {v}

EndPass(left, owed) ==
  /\ dev_pc' = "edge" /\ UNCHANGED dev_vec
  /\ pba' = left
  /\ obliged' = owed

Lowest(S) == CHOOSE v \in S : \A w \in S : v <= w

\* Mutants of Drain: the PBA bit is never cleared; a masked vector is
\* forgotten instead of skipped.
DrainKeepsBit(open, deferred, owed) ==
  LET ready == deferred \ vec_mask
  IN  IF open /\ ready # {} THEN StartDrain(Lowest(ready), deferred, owed)
                           ELSE EndPass(deferred, owed)

DrainForgetsMasked(open, deferred, owed) ==
  LET ready == deferred \ vec_mask
  IN  IF open /\ ready # {}
      THEN StartDrain(Lowest(ready), ready \ {Lowest(ready)}, owed)
      ELSE EndPass(deferred, owed)

(***************************************************************************)
(* The end of a coroutine pass: the lowest deferred vector that is not     *)
(* masked is taken off the PBA and written out, if the function was open   *)
(* when the pass began; otherwise the coroutine goes back to the clock.    *)
(* owed is the set of obliged vectors before the drain.                    *)
(***************************************************************************)
Drain(open, deferred, owed) ==
  LET ready == deferred \ vec_mask
  IN  IF open /\ ready # {}
      THEN StartDrain(Lowest(ready), deferred \ {Lowest(ready)}, owed)
      ELSE EndPass(deferred, owed)

Open == enable /\ ~fn_mask

\* Mutant of DevNoRequest: the answer pins are not cleared.
DevNoRequestKeepsPins(owed) ==
  /\ dev_pc = "edge" /\ ~(int_vector_reg /\ ~last_int)
  /\ last_int' = int_vector_reg
  /\ Drain(Open, pba, owed)
  /\ UNCHANGED <<p_sent, p_fail, force_fail>>

\* A pass with no rise of int_vector to serve.
DevNoRequest(owed) ==
  /\ dev_pc = "edge" /\ ~(int_vector_reg /\ ~last_int)
  /\ p_sent' = FALSE /\ p_fail' = FALSE
  /\ last_int' = int_vector_reg
  /\ Drain(Open, pba, owed)
  /\ UNCHANGED force_fail

\* A rise refused: the test asked for it, or the vector is not in the table.
DevFail(owed) ==
  /\ dev_pc = "edge" /\ int_vector_reg /\ ~last_int
  /\ force_fail \/ cfg_msix_mint_vector >= TableSize
  /\ force_fail' = FALSE
  /\ p_sent' = FALSE /\ p_fail' = TRUE
  /\ last_int' = TRUE
  /\ Drain(Open, pba, owed)

\* Mutant of DevDefer: the vector's range is not looked at.
DevDeferAnyVector(owed) ==
  /\ dev_pc = "edge" /\ int_vector_reg /\ ~last_int
  /\ ~force_fail
  /\ ~Open \/ cfg_msix_mint_vector \in vec_mask
  /\ p_sent' = TRUE /\ p_fail' = FALSE
  /\ last_int' = TRUE
  /\ Drain(Open, pba \cup {cfg_msix_mint_vector}, owed)
  /\ UNCHANGED force_fail

\* A rise for a vector that may not be sent now: remembered in the PBA.
DevDefer(owed) ==
  /\ dev_pc = "edge" /\ int_vector_reg /\ ~last_int
  /\ ~force_fail /\ cfg_msix_mint_vector < TableSize
  /\ ~Open \/ cfg_msix_mint_vector \in vec_mask
  /\ p_sent' = TRUE /\ p_fail' = FALSE
  /\ last_int' = TRUE
  /\ Drain(Open, pba \cup {cfg_msix_mint_vector}, owed)
  /\ UNCHANGED force_fail

\* A rise for an open vector: the message is issued and awaited, unanswered.
DevSend(owed) ==
  /\ dev_pc = "edge" /\ int_vector_reg /\ ~last_int
  /\ ~force_fail /\ cfg_msix_mint_vector < TableSize
  /\ Open /\ cfg_msix_mint_vector \notin vec_mask
  /\ dev_pc' = "send" /\ dev_vec' = cfg_msix_mint_vector
  /\ obliged' = owed \ {cfg_msix_mint_vector}
  /\ p_sent' = FALSE /\ p_fail' = FALSE
  /\ UNCHANGED <<last_int, pba, force_fail>>

\* The coroutine is still in an await: it misses this edge.
DevBlind(owed) ==
  /\ dev_pc \in LateWrites
  /\ obliged' = owed
  /\ UNCHANGED <<devVars, force_fail>>

DevEdge(owed) ==
  \/ DevNoRequest(owed)
  \/ DevFail(owed)
  \/ DevDefer(owed)
  \/ DevSend(owed)
  \/ DevBlind(owed)

(***************************************************************************)
(* One edge of user_clk, on which both sides act on the values before it.  *)
(* Taking an index obliges the system to send its message; giving a        *)
(* request up ends that unless an earlier one of the vector is deferred.   *)
(***************************************************************************)
SawRise == dev_pc = "edge" /\ int_vector_reg /\ ~last_int

Clock ==
  /\ \/ \E irq \in Indices :
          /\ \/ DropOutOfRange(irq) \/ DropDisabled(irq, enable)
             \/ Idle(irq)
          /\ DevEdge(obliged)
     \/ \E irq \in Indices :
          /\ Forward(irq, enable, fn_mask)
          /\ DevEdge(obliged \cup {irq})
     \/ /\ Idle(NoIrq) \/ Present \/ Wait(p_sent, p_fail)
             \/ Retry(p_fail) \/ Complete(p_sent, p_fail)
        /\ DevEdge(obliged)
     \/ /\ GiveUp(p_fail)
        /\ DevEdge(obliged \ ({vec_reg} \ pba))
  /\ seen' = IF int_vector_reg' THEN seen \/ SawRise ELSE FALSE
  /\ UNCHANGED hostVars

\* Mutant of SendDone: the request is not acknowledged.
SendDoneUnanswered ==
  /\ dev_pc = "send"
  /\ last_int' = TRUE
  /\ Drain(TRUE, pba \ {dev_vec}, obliged)
  /\ UNCHANGED <<vars, p_sent, p_fail, hostVars, force_fail, seen>>

\* The awaited message is out: clear the PBA bit, answer, and go on to the
\* drain with the enable and function mask read before the await.
SendDone ==
  /\ dev_pc = "send"
  /\ p_sent' = TRUE /\ p_fail' = FALSE
  /\ last_int' = TRUE
  /\ Drain(TRUE, pba \ {dev_vec}, obliged)
  /\ UNCHANGED <<vars, hostVars, force_fail, seen>>

\* The drained message is out; the answer pins keep what they had.
DrainDone ==
  /\ dev_pc = "drain"
  /\ dev_pc' = "edge"
  /\ UNCHANGED <<vars, dev_vec, last_int, p_sent, p_fail, pba, hostVars,
                 force_fail, obliged, seen>>

\* The host rewrites its masks and the enable bit between two edges.
HostWrite ==
  /\ \/ enable' = ~enable /\ UNCHANGED <<fn_mask, vec_mask>>
     \/ fn_mask' = ~fn_mask /\ UNCHANGED <<enable, vec_mask>>
     \/ \E v \in Vectors :
          /\ vec_mask' = IF v \in vec_mask THEN vec_mask \ {v}
                                           ELSE vec_mask \cup {v}
          /\ UNCHANGED <<enable, fn_mask>>
  /\ UNCHANGED <<vars, devVars, force_fail, obliged, seen>>

TestForcesFail ==
  /\ ~force_fail /\ force_fail' = TRUE
  /\ UNCHANGED <<vars, devVars, hostVars, obliged, seen>>

SysInit ==
  /\ Init
  /\ dev_pc = "edge" /\ dev_vec = 0 /\ last_int = FALSE
  /\ p_sent = FALSE /\ p_fail = FALSE /\ pba = {}
  /\ force_fail = FALSE
  /\ enable = FALSE /\ fn_mask = FALSE /\ vec_mask = Vectors
  /\ obliged = {} /\ seen = FALSE

SysNext ==
  \/ Clock
  \/ SendDone
  \/ DrainDone
  \/ HostWrite
  \/ TestForcesFail

\* The clock runs and an awaited memory write completes.
SysFairness ==
  /\ WF_sysVars(Clock)
  /\ WF_sysVars(SendDone)
  /\ WF_sysVars(DrainDone)

SysSpec == SysInit /\ [][SysNext]_sysVars /\ SysFairness

-----------------------------------------------------------------------------
SysTypeOK ==
  /\ TypeOK
  /\ dev_pc \in {"edge", "send", "drain"}
  /\ dev_vec \in Vectors
  /\ {last_int, p_sent, p_fail, force_fail, enable, fn_mask, seen}
       \subseteq BOOLEAN
  /\ pba \subseteq Vectors /\ vec_mask \subseteq Vectors
  /\ obliged \subseteq Indices

(***************************************************************************)
(* "The CPM5 core queues it in its own PBA and delivers it on unmask": an  *)
(* index the adapter took is, until its message goes out, the request in   *)
(* progress or a bit of the PBA.                                           *)
(***************************************************************************)
NoInterruptLost == \A v \in obliged : (Busy /\ vec_reg = v) \/ v \in pba

(***************************************************************************)
(* The adapter leaves ST_REQ only on an answer to the presentation it is   *)
(* making: the core saw int_vector rise for it.                            *)
(***************************************************************************)
AnswersMatch ==
  [][state_reg = "REQ" /\ state_reg' # "REQ" => seen]_sysVars

(***************************************************************************)
(* Once the host leaves the function enabled and everything unmasked,      *)
(* every deferred vector is delivered.                                     *)
(***************************************************************************)
HostStaysOpen == enable /\ ~fn_mask /\ vec_mask = {}

DeferredDelivered ==
  <>[]HostStaysOpen => \A v \in Vectors : (v \in pba ~> v \notin pba)

\* No request hangs the adapter: the core answers every presentation.
RequestsEnd == Busy ~> ~Busy

=============================================================================
