----------------------------- MODULE MCRqEngine -----------------------------
(* Beats of two units and writes of one to four: one beat, one that is     *)
(* split, two segments, and two with the last one split.                   *)
EXTENDS RqEngine

MCWrUnits == 1 .. 4

\* No safety property reads the alternation of the edges.
MCView == <<engVars, envVars>>

=============================================================================
