---------------------------- MODULE MCMsixSystem ----------------------------
(***************************************************************************)
(* An adapter built for three vectors beside a function that advertises    *)
(* two, and one index beyond both, so that every way out of the adapter    *)
(* and of the device is taken.                                             *)
(***************************************************************************)
EXTENDS MsixSystem

MCIndices == 0 .. 3

=============================================================================
