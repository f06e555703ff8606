----------------------------- MODULE MCCsrProbe -----------------------------
(***************************************************************************)
(* Two runs of the probe on one card, with waits of two sleeps: the second *)
(* run meets the status, the RAM and the descriptors the first one left.   *)
(***************************************************************************)
EXTENDS CsrProbe

=============================================================================
