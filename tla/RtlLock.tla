------------------------------- MODULE RtlLock -------------------------------
(***************************************************************************)
(* The lock around an in-place change of the RTL, rtl_lock() of            *)
(* sim/model/nia_rtl_lock.py: runners, each a process, poll flock() on a   *)
(* file whose name is made from the protected directory, change the files  *)
(* and put them back, and release.  What flock() does is the kernel's: one *)
(* open file owns the lock, and closing it, or the death of its process,   *)
(* lets it go.  What a runner does inside is its own; it is taken to put   *)
(* back what it found unless it dies.                                      *)
(***************************************************************************)
EXTENDS Integers

CONSTANTS
  Runners,   (* the processes                                              *)
  Paths,     (* what is passed as protected_dir                            *)
  Trees,     (* the directories these denote                               *)
  TreeOf,    (* path to directory                                          *)
  Keys,      (* the lock files                                             *)
  lock_path, (* path to lock file: several paths may share one             *)
  Timeout,   (* the timeout argument, in one-second sleeps                 *)
  Nobody     (* no runner                                                  *)

\* A directory has one name: runners take it from nia_rtl_root, resolved.
ASSUME PathsAssumption ==
  /\ TreeOf \in [Paths -> Trees] /\ lock_path \in [Paths -> Keys]
  /\ \A m, n \in Paths : TreeOf[m] = TreeOf[n] => lock_path[m] = lock_path[n]
ASSUME TimeoutAssumption == Timeout \in Nat
ASSUME NobodyAssumption == Nobody \notin Runners

VARIABLES
  pc,     (* where each runner is in rtl_lock                              *)
  path,   (* its protected_dir                                             *)
  timed,  (* whether it passed a timeout                                   *)
  slept,  (* time since its t0                                             *)
  owner,  (* of each lock file: whose open file holds it                   *)
  tree,   (* of each directory: whose change it carries                    *)
  saved   (* what a runner found and will put back                         *)

lockVars == <<pc, path, timed, slept, owner, tree, saved>>

Places == {"out", "try", "asleep", "won", "inside", "changed", "leave",
           "close", "dead"}

\* Between the two ends of the with statement.
Within == {"inside", "changed"}

Waiting(p) == pc[p] \in {"try", "asleep"}

LockInit ==
  /\ pc = [p \in Runners |-> "out"]
  /\ path \in [Runners -> Paths]
  /\ timed = [p \in Runners |-> FALSE]
  /\ slept = [p \in Runners |-> 0]
  /\ owner = [k \in Keys |-> Nobody]
  /\ tree = [t \in Trees |-> Nobody]
  /\ saved = [p \in Runners |-> Nobody]

-----------------------------------------------------------------------------
\* The lock file and the directory of p's call.
KeyOf(p) == lock_path[path[p]]
DirOf(p) == TreeOf[path[p]]

Step(p, here, there) == pc[p] = here /\ pc' = [pc EXCEPT ![p] = there]

\* The file is opened and t0 taken.
Call(p, n, t) ==
  /\ Step(p, "out", "try")
  /\ path' = [path EXCEPT ![p] = n]
  /\ timed' = [timed EXCEPT ![p] = t]
  /\ slept' = [slept EXCEPT ![p] = 0]
  /\ UNCHANGED <<owner, tree, saved>>

\* After the loop t0 and the timeout are not looked at again.
EndWait(p) ==
  /\ timed' = [timed EXCEPT ![p] = FALSE]
  /\ slept' = [slept EXCEPT ![p] = 0]

\* Mutant of Acquire: LOCK_SH, which does not exclude.
AcquireShared(p) ==
  /\ Step(p, "try", "won")
  /\ owner' = [owner EXCEPT ![KeyOf(p)] = p]
  /\ EndWait(p)
  /\ UNCHANGED <<path, tree, saved>>

\* flock(LOCK_EX | LOCK_NB) succeeds.
Acquire(p) ==
  /\ Step(p, "try", "won")
  /\ owner[KeyOf(p)] = Nobody
  /\ owner' = [owner EXCEPT ![KeyOf(p)] = p]
  /\ EndWait(p)
  /\ UNCHANGED <<path, tree, saved>>

Expired(p) == timed[p] /\ slept[p] > Timeout

\* It fails, and there is time left.
Blocked(p) ==
  /\ Step(p, "try", "asleep")
  /\ owner[KeyOf(p)] # Nobody
  /\ ~Expired(p)
  /\ UNCHANGED <<path, timed, slept, owner, tree, saved>>

\* It fails, and there is none: TimeoutError, through the finally.
TimedOut(p) ==
  /\ Step(p, "try", "leave")
  /\ owner[KeyOf(p)] # Nobody
  /\ Expired(p)
  /\ EndWait(p)
  /\ UNCHANGED <<path, owner, tree, saved>>

\* Mutant of Wake: every turn of the loop measures from its own start.
WakeRestarts(p) ==
  /\ Step(p, "asleep", "try")
  /\ slept' = [slept EXCEPT ![p] = 1]
  /\ UNCHANGED <<path, timed, owner, tree, saved>>

\* After time.sleep(1); what matters of the time is whether it is past the
\* timeout.
Wake(p) ==
  /\ Step(p, "asleep", "try")
  /\ slept' = [slept EXCEPT ![p] = IF @ > Timeout THEN @ ELSE @ + 1]
  /\ UNCHANGED <<path, timed, owner, tree, saved>>

\* The line that names the holder is written; the body begins.
Enter(p) ==
  /\ Step(p, "won", "inside")
  /\ UNCHANGED <<path, timed, slept, owner, tree, saved>>

\* The body changes files of the directory,
Change(p) ==
  /\ Step(p, "inside", "changed")
  /\ saved' = [saved EXCEPT ![p] = tree[DirOf(p)]]
  /\ tree' = [tree EXCEPT ![DirOf(p)] = p]
  /\ UNCHANGED <<path, timed, slept, owner>>

\* and puts back what it found.
Restore(p) ==
  /\ Step(p, "changed", "inside")
  /\ tree' = [tree EXCEPT ![DirOf(p)] = saved[p]]
  /\ saved' = [saved EXCEPT ![p] = Nobody]
  /\ UNCHANGED <<path, timed, slept, owner>>

\* The body ends, or an exception ends the wait, the write of the line or
\* the body.
Leave(p) ==
  /\ pc[p] \in {"try", "asleep", "won", "inside"}
  /\ pc' = [pc EXCEPT ![p] = "leave"]
  /\ EndWait(p)
  /\ UNCHANGED <<path, owner, tree, saved>>

\* Mutant of Freed: the lock is taken away whoever has it.
FreedByAnyone(p) == [owner EXCEPT ![KeyOf(p)] = Nobody]

\* flock(LOCK_UN) and close() let go of what p's own open file holds.
Freed(p) == [owner EXCEPT ![KeyOf(p)] = IF @ = p THEN Nobody ELSE @]

\* The finally: flock(LOCK_UN), which may fail,
Unlock(p, works) ==
  /\ Step(p, "leave", "close")
  /\ owner' = IF works THEN Freed(p) ELSE owner
  /\ UNCHANGED <<path, timed, slept, tree, saved>>

\* and close() in any case.
Close(p) ==
  /\ Step(p, "close", "out")
  /\ owner' = Freed(p)
  /\ UNCHANGED <<path, timed, slept, tree, saved>>

\* The process is killed, or wallclock_guard ends it with os._exit: no
\* finally runs, and the directory stays as it is.
Die(p) ==
  /\ pc[p] \notin {"out", "dead"}
  /\ pc' = [pc EXCEPT ![p] = "dead"]
  /\ owner' = Freed(p)
  /\ EndWait(p)
  /\ saved' = [saved EXCEPT ![p] = Nobody]
  /\ UNCHANGED <<path, tree>>

-----------------------------------------------------------------------------
\* One flock() of the polling loop and what follows it.
Attempt(p) == Acquire(p) \/ Blocked(p) \/ TimedOut(p)

LockNext ==
  \E p \in Runners :
    \/ \E n \in Paths, t \in BOOLEAN : Call(p, n, t)
    \/ Attempt(p) \/ Wake(p) \/ Enter(p)
    \/ Change(p) \/ Restore(p) \/ Leave(p)
    \/ \E works \in BOOLEAN : Unlock(p, works)
    \/ Close(p) \/ Die(p)

LockSpec == LockInit /\ [][LockNext]_lockVars

\* A runner that polls goes on polling, and a finally runs to its end; how
\* long a body takes is its own affair.
LockFairness ==
  \A p \in Runners :
    /\ WF_lockVars(Attempt(p)) /\ WF_lockVars(Wake(p))
    /\ WF_lockVars(\E works \in BOOLEAN : Unlock(p, works))
    /\ WF_lockVars(Close(p))

LockFairSpec == LockSpec /\ LockFairness

-----------------------------------------------------------------------------
LockTypeOK ==
  /\ pc \in [Runners -> Places]
  /\ path \in [Runners -> Paths]
  /\ timed \in [Runners -> BOOLEAN]
  /\ slept \in [Runners -> 0 .. Timeout + 1]
  /\ owner \in [Keys -> Runners \cup {Nobody}]
  /\ tree \in [Trees -> Runners \cup {Nobody}]
  /\ saved \in [Runners -> Runners \cup {Nobody}]

\* Who is past flock() owns the lock of the directory it names.
OwnerInside ==
  \A p \in Runners : pc[p] \in Within \cup {"won"} => owner[KeyOf(p)] = p

\* A directory carries a change only of a runner that is at it, or died; a
\* runner that is at it will put back nothing, or a change of the dead.
ChangesOwned ==
  /\ \A t \in Trees : tree[t] # Nobody =>
       \/ pc[tree[t]] = "dead"
       \/ pc[tree[t]] = "changed" /\ DirOf(tree[t]) = t
  /\ \A p \in Runners : pc[p] = "changed" =>
       saved[p] = Nobody \/ pc[saved[p]] = "dead"

LockIInv == LockTypeOK /\ OwnerInside /\ ChangesOwned

(***************************************************************************)
(* nia_rtl_lock.py:4, "One runner at a time": two runners are never inside *)
(* for one directory, whoever times out, is interrupted or is killed.      *)
(***************************************************************************)
Exclusion ==
  \A p, q \in Runners :
    pc[p] \in Within /\ pc[q] \in Within /\ DirOf(p) = DirOf(q) => p = q

(***************************************************************************)
(* nia_rtl_lock.py:5, "two runners cannot interleave a mutation with a     *)
(* restore": inside, a runner finds the directory as it was, with its own  *)
(* change, or with that of a runner that died before it could restore.     *)
(***************************************************************************)
NoForeignChange ==
  \A p \in Runners : pc[p] \in Within =>
    \/ tree[DirOf(p)] \in {Nobody, p}
    \/ pc[tree[DirOf(p)]] = "dead"

(***************************************************************************)
(* nia_rtl_lock.py:48, the timeout: a runner that passed one does not wait *)
(* for ever, even on a holder that never ends.                             *)
(***************************************************************************)
TimedWaitEnds ==
  \A p \in Runners : timed[p] /\ Waiting(p) ~> ~Waiting(p)

=============================================================================
