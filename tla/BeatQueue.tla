----------------------------- MODULE BeatQueue -----------------------------
(***************************************************************************)
(* What a buffer between two ready/valid interfaces promises: a first-in   *)
(* first-out queue of at most Capacity beats whose output always shows the *)
(* oldest beat in it.  Beats join the queue by the handshake on the input  *)
(* and leave it by the handshake on the output; a reset, which may come on *)
(* any edge, empties it.                                                   *)
(***************************************************************************)
EXTENDS Naturals, Sequences

CONSTANTS Beats, Capacity

VARIABLES
  queue,  (* the beats accepted and not yet taken, oldest first            *)
  out     (* the beat the output offers, if it is valid: at most one       *)

Oldest(beats) == IF beats = <<>> THEN <<>> ELSE <<Head(beats)>>

Init == queue = <<>> /\ out = <<>>

\* The queue becomes kept with one more beat behind it.
Joined(kept) ==
  /\ Len(queue') = Len(kept) + 1
  /\ queue' = Append(kept, queue'[Len(queue')])
  /\ queue'[Len(queue')] \in Beats

Put == Len(queue) < Capacity /\ Joined(queue)

Take == queue # <<>> /\ queue' = Tail(queue)

\* A beat goes in on the edge on which the oldest one leaves.
Pass == queue # <<>> /\ Joined(Tail(queue))

Flush == queue' = <<>>

Next == (Put \/ Take \/ Pass \/ Flush) /\ out' = Oldest(queue')

Spec == Init /\ [][Next]_<<queue, out>>

=============================================================================
