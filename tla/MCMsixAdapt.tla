---------------------------- MODULE MCMsixAdapt ----------------------------
(***************************************************************************)
(* A small adapter: one index beyond the vector table, two retries, and    *)
(* counters that stop at 4, which five requests can reach.                 *)
(***************************************************************************)
EXTENDS MsixAdapt

MCIndices == 0 .. 2

=============================================================================
