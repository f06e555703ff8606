----------------------------- MODULE TlpStream -----------------------------
(***************************************************************************)
(* What a width converter on a TLP interface promises, whatever it does    *)
(* with beats and halves: the dwords it took come out in their order, with *)
(* their framing, each once; and what it shows stays until it is taken.    *)
(***************************************************************************)
EXTENDS Naturals, Sequences

VARIABLES
  stream,  (* the dwords taken in and not handed over yet, oldest first *)
  shown    (* the dwords on the output now, <<>> when it is not valid   *)

\* s is a beginning of t.
Starts(s, t) == Len(s) <= Len(t) /\ s = SubSeq(t, 1, Len(s))

Init == stream = <<>> /\ shown = <<>>

\* What is on show stays there, or is taken and leaves the stream; new dwords
\* only join the end of the stream.
Stays == Starts(stream, stream') /\ (shown # <<>> => shown' = shown)

Taken == Starts(SubSeq(stream, Len(shown) + 1, Len(stream)), stream')

Step == (Stays \/ Taken) /\ Starts(shown', stream')

Flush == stream' = <<>> /\ shown' = <<>>

Next == Flush \/ Step

Spec == Init /\ [][Next]_<<stream, shown>>

=============================================================================
