---------------------------- MODULE MsixDelivery ----------------------------
(***************************************************************************)
(* What the MSI-X adapter promises, without its port timing: at most one   *)
(* request is being delivered; it ends sent, or abandoned after one more   *)
(* failure than RetryLimit; an index outside the vector table never        *)
(* becomes a request; and every end is entered once in the books.          *)
(***************************************************************************)
EXTENDS Integers

CONSTANTS Indices, VectorCount, RetryLimit, StsMax, NoIrq

VARIABLES
  request,  (* the vector being delivered, or NoIrq *)
  tries,    (* its failures so far                  *)
  books     (* outcome counters                     *)

vars == <<request, tries, books>>

Outcomes == {"sent", "fail", "disabled", "oor", "retry"}

\* The books after one more entry under each outcome of O; they saturate.
Entered(O) ==
  [c \in Outcomes |-> IF c \in O /\ books[c] < StsMax THEN books[c] + 1
                                                      ELSE books[c]]

Init == request = NoIrq /\ tries = 0 /\ books = [c \in Outcomes |-> 0]

\* An index that never becomes a request leaves only its entry.
Discard ==
  /\ request = NoIrq
  /\ \E why \in {"oor", "disabled"} : books' = Entered({why})
  /\ UNCHANGED <<request, tries>>

Take(v) ==
  /\ request = NoIrq
  /\ v < VectorCount
  /\ request' = v
  /\ UNCHANGED <<tries, books>>

Refused ==
  /\ request # NoIrq /\ tries < RetryLimit
  /\ tries' = tries + 1
  /\ books' = Entered({"fail"})
  /\ UNCHANGED request

Abandon ==
  /\ request # NoIrq /\ tries = RetryLimit
  /\ books' = Entered({"fail", "retry"})
  /\ request' = NoIrq /\ tries' = 0

Deliver ==
  /\ request # NoIrq
  /\ books' = Entered({"sent"})
  /\ request' = NoIrq /\ tries' = 0

Restart == request' = NoIrq /\ tries' = 0 /\ books' = [c \in Outcomes |-> 0]

Next ==
  \/ Discard
  \/ \E v \in Indices : Take(v)
  \/ Refused
  \/ Abandon
  \/ Deliver
  \/ Restart

Spec == Init /\ [][Next]_vars

=============================================================================
