------------------------------ MODULE MCRtlLock ------------------------------
(***************************************************************************)
(* Two directories whose names, "a/b" and "a_b", give one lock file.       *)
(***************************************************************************)
EXTENDS RtlLock

CONSTANTS r1, r2, r3

MCRunners == {r1, r2, r3}
MCPaths == {"a/b", "a_b"}
MCTreeOf == [n \in MCPaths |-> n]
MCKeys == {"nia_rtl_lock.a_b"}
MCLockPath == [n \in MCPaths |-> "nia_rtl_lock.a_b"]

=============================================================================
