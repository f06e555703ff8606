----------------------------- MODULE MCWatchdog -----------------------------
(***************************************************************************)
(* A limit that is no multiple of the sampling interval, and two loops,    *)
(* which a guard and a start, two guards, or two starts can own.           *)
(***************************************************************************)
EXTENDS Watchdog

=============================================================================
