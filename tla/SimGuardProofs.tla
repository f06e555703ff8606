--------------------------- MODULE SimGuardProofs ---------------------------
(***************************************************************************)
(* Proofs about what guards a simulation from outside: Watchdog and        *)
(* RtlLock.                                                                *)
(*                                                                         *)
(* Watchdog: the bounds on a loop's quiet time, for any sampling interval, *)
(* any limit, any number of loops and of changes of the token.  The        *)
(* inductive invariant is its IInv: how quiet and the time to the next     *)
(* sample account for the time since the last change.                      *)
(*                                                                         *)
(* RtlLock: mutual exclusion, and what a runner finds in its directory,    *)
(* for any number of runners, any directories and any sharing of lock      *)
(* files.  The inductive invariant is its LockIInv.                        *)
(***************************************************************************)
EXTENDS Watchdog, RtlLock, TLAPS

-----------------------------------------------------------------------------
(* The watchdog.                                                           *)

\* The constants in the form the steps need.
LEMMA Constants ==
  /\ Check \in Nat /\ Check > 0 /\ Stall \in Nat /\ Stall > 0
  /\ MaxLoops \in Nat /\ MaxChanges \in Nat /\ Loops = 1 .. MaxLoops
BY CheckAssumption, StallAssumption, LoopsAssumption, ChangesAssumption
   DEF Loops

LEMMA InitIInv == Init => IInv
<1> SUFFICES ASSUME Init PROVE IInv
  OBVIOUS
<1>1. TypeOK  BY Constants DEF Init, TypeOK
<1>2. \A l \in Loops : state[l] # "on"  BY DEF Init
<1>3. QuietIsReal  BY <1>2 DEF QuietIsReal
<1> QED  BY <1>1, <1>3 DEF IInv

\* The types of what QuietReal speaks of.
LEMMA LoopTypes ==
  ASSUME TypeOK, NEW l \in Loops
  PROVE  /\ last[l] \in Nat /\ quiet[l] \in Nat /\ calm[l] \in Nat
         /\ due[l] \in 0 .. Check /\ tok \in Nat /\ Check \in Nat
         /\ Check > 0 /\ Stall \in Nat /\ Stall > 0
BY Constants DEF TypeOK

\* Launch gives a new loop the token of now and no quiet time.
LEMMA LaunchStep ==
  ASSUME IInv, Launch, UNCHANGED <<tokenVars, fired, test, wallVars>>,
         task' \in 0 .. MaxLoops, wd' \in 0 .. MaxLoops
  PROVE  IInv'
<1>1. launched + 1 \in 1 .. MaxLoops /\ launched + 1 \in Loops
  BY Constants DEF IInv, TypeOK, Launch
<1>2. TypeOK'
  <2>1. state' \in [Loops -> {"new", "on", "fired", "killed"}]
    BY <1>1 DEF IInv, TypeOK, Launch
  <2>2. /\ last' \in [Loops -> Nat] /\ quiet' \in [Loops -> Nat]
        /\ due' \in [Loops -> 0 .. Check] /\ calm' \in [Loops -> Nat]
    <3>1. Check \in 0 .. Check /\ 0 \in Nat  BY Constants
    <3> QED  BY <1>1, <3>1 DEF IInv, TypeOK, Launch
  <2>3. launched' \in 0 .. MaxLoops  BY <1>1 DEF Launch
  <2> QED  BY <2>1, <2>2, <2>3 DEF IInv, TypeOK, tokenVars
<1>3. ASSUME NEW l \in Loops, state'[l] = "on" PROVE QuietReal(l)'
  <2>1. CASE l = launched + 1
    <3>1. last'[l] = tok /\ quiet'[l] = 0 /\ due'[l] = Check /\ calm'[l] = 0
      BY <1>1, <2>1 DEF IInv, TypeOK, Launch
    <3> QED
      BY <3>1, <1>3, LoopTypes DEF IInv, QuietReal, Watched, tokenVars
  <2>2. CASE l # launched + 1
    <3>1. /\ last'[l] = last[l] /\ quiet'[l] = quiet[l] /\ due'[l] = due[l]
          /\ calm'[l] = calm[l] /\ state[l] = "on"
      BY <1>1, <1>3, <2>2 DEF IInv, TypeOK, Launch
    <3> QED
      BY <3>1 DEF IInv, QuietIsReal, QuietReal, Watched, tokenVars
  <2> QED  BY <2>1, <2>2
<1> QED  BY <1>2, <1>3 DEF IInv, QuietIsReal

\* Killing a loop says nothing of the others.
LEMMA KillStep ==
  ASSUME IInv, NEW k \in Loops, Kill(k),
         UNCHANGED <<tokenVars, launched, fired, test, wallVars>>,
         task' \in 0 .. MaxLoops, wd' \in 0 .. MaxLoops
  PROVE  IInv'
<1>1. TypeOK'
  <2>1. state' \in [Loops -> {"new", "on", "fired", "killed"}]
    BY DEF IInv, TypeOK, Kill
  <2>2. /\ last' \in [Loops -> Nat] /\ quiet' \in [Loops -> Nat]
        /\ due' \in [Loops -> 0 .. Check] /\ calm' \in [Loops -> Nat]
    <3>1. 0 \in 0 .. Check /\ 0 \in Nat  BY Constants
    <3> QED  BY <3>1 DEF IInv, TypeOK, Kill
  <2> QED  BY <2>1, <2>2 DEF IInv, TypeOK, tokenVars
<1>2. ASSUME NEW l \in Loops, state'[l] = "on" PROVE QuietReal(l)'
  <2>1. l # k  BY <1>2 DEF IInv, TypeOK, Kill
  <2>2. /\ last'[l] = last[l] /\ quiet'[l] = quiet[l] /\ due'[l] = due[l]
        /\ calm'[l] = calm[l] /\ state[l] = "on"
    BY <1>2, <2>1 DEF IInv, TypeOK, Kill
  <2> QED  BY <2>2 DEF IInv, QuietIsReal, QuietReal, Watched, tokenVars
<1> QED  BY <1>1, <1>2 DEF IInv, QuietIsReal

\* A change of the token: for a loop that counts beats it is a token the loop
\* has not seen.
LEMMA ProgressStep ==
  ASSUME IInv, NEW v \in 0 .. MaxChanges, Progress(v)
  PROVE  IInv'
<1>1. TypeOK'
  <2>1. tok' \in Nat /\ changes' \in Nat
    BY Constants DEF IInv, TypeOK, Progress
  <2>2. calm' \in [Loops -> Nat]  BY DEF Progress
  <2> QED  BY <2>1, <2>2 DEF IInv, TypeOK, Progress, guardVars
<1>2. ASSUME NEW l \in Loops, state'[l] = "on" PROVE QuietReal(l)'
  <2>1. /\ last'[l] = last[l] /\ quiet'[l] = quiet[l] /\ due'[l] = due[l]
        /\ calm'[l] = 0 /\ state[l] = "on" /\ mode' = mode /\ tok' = v
        /\ mode = "beats" => v = tok + 1
    BY <1>2 DEF Progress
  <2>2. QuietReal(l)  BY <2>1 DEF IInv, QuietIsReal
  <2>3. v \in Nat  BY Constants
  <2> QED  BY <2>1, <2>2, <2>3, LoopTypes DEF IInv, QuietReal, Watched
<1> QED  BY <1>1, <1>2 DEF IInv, QuietIsReal

\* A sample ends an interval; of the loop that takes it only the next matters,
\* and for the others nothing happens.
LEMMA SampleOthers ==
  ASSUME IInv, NEW k \in Loops, Sample(k), NEW l \in Loops, l # k,
         state'[l] = "on"
  PROVE  QuietReal(l)'
<1>1. /\ last'[l] = last[l] /\ quiet'[l] = quiet[l] /\ due'[l] = due[l]
      /\ calm'[l] = calm[l] /\ state'[l] = state[l]
  BY DEF IInv, TypeOK, Sample, Moved, StillQuiet, Fire
<1>2. UNCHANGED <<mode, tok>>  BY DEF Sample, tokenVars
<1>3. QuietReal(l)  BY <1>1 DEF IInv, QuietIsReal
<1> QED  BY <1>1, <1>2, <1>3 DEF QuietReal, Watched

LEMMA SampleStep ==
  ASSUME IInv, NEW k \in Loops, Sample(k)
  PROVE  IInv'
<1>1. state[k] = "on" /\ due[k] = 0 /\ QuietReal(k)
  BY DEF Sample, Due, IInv, QuietIsReal
<1>2. UNCHANGED <<tokenVars, calm, launched, task, guardVars, wallVars>>
  BY DEF Sample
<1>3. CASE Moved(k) /\ tok # last[k]
  <2>1. TypeOK'
    <3>1. tok \in Nat /\ Check \in 0 .. Check
      BY LoopTypes DEF IInv
    <3>2. /\ last' \in [Loops -> Nat] /\ quiet' \in [Loops -> Nat]
          /\ due' \in [Loops -> 0 .. Check]
      BY <1>3, <3>1 DEF IInv, TypeOK, Moved
    <3> QED  BY <1>2, <1>3, <3>2 DEF IInv, TypeOK, Moved, tokenVars, guardVars
  <2>2. /\ last'[k] = tok /\ quiet'[k] = 0 /\ due'[k] = Check
        /\ calm'[k] = calm[k]
    BY <1>2, <1>3 DEF IInv, TypeOK, Moved
  <2>3. QuietReal(k)'
    BY <1>1, <1>2, <1>3, <2>2, LoopTypes
       DEF IInv, QuietReal, Watched, tokenVars
  <2> QED  BY <2>1, <2>3, SampleOthers DEF IInv, QuietIsReal
<1>4. CASE tok = last[k] /\ StillQuiet(k)
  <2>1. TypeOK'
    <3>1. quiet[k] + Check \in Nat /\ Check \in 0 .. Check
      BY LoopTypes DEF IInv
    <3>2. quiet' \in [Loops -> Nat] /\ due' \in [Loops -> 0 .. Check]
      BY <1>4, <3>1 DEF IInv, TypeOK, StillQuiet
    <3> QED
      BY <1>2, <1>4, <3>2 DEF IInv, TypeOK, StillQuiet, tokenVars, guardVars
  <2>2. /\ last'[k] = last[k] /\ quiet'[k] = quiet[k] + Check
        /\ due'[k] = Check /\ calm'[k] = calm[k]
        /\ ~(quiet[k] + Check >= Stall)
    BY <1>2, <1>4 DEF IInv, TypeOK, StillQuiet, Enough
  <2>3. QuietReal(k)'
    BY <1>1, <1>2, <1>4, <2>2, LoopTypes
       DEF IInv, QuietReal, Watched, tokenVars
  <2> QED  BY <2>1, <2>3, SampleOthers DEF IInv, QuietIsReal
<1>5. CASE Fire(k)
  <2>1. TypeOK'
    <3>1. state' \in [Loops -> {"new", "on", "fired", "killed"}]
      BY <1>5 DEF IInv, TypeOK, Fire
    <3>2. quiet' \in [Loops -> Nat]  BY <1>5, LoopTypes DEF IInv, TypeOK, Fire
    <3>3. test' \in {"running", "failed", "exited"}
      BY <1>5 DEF IInv, TypeOK, Fire
    <3> QED
      BY <1>2, <1>5, <3>1, <3>2, <3>3
         DEF IInv, TypeOK, Fire, tokenVars, guardVars
  <2>2. state'[k] # "on"  BY <1>5 DEF IInv, TypeOK, Fire
  <2> QED  BY <2>1, <2>2, SampleOthers DEF IInv, QuietIsReal
<1> QED  BY <1>3, <1>4, <1>5 DEF Sample

\* Time passes for the loop and for the token alike.
LEMMA TickStep ==
  ASSUME IInv, Tick
  PROVE  IInv'
<1>1. ASSUME NEW l \in Loops, state[l] = "on" PROVE due[l] \in 1 .. Check
  <2>1. due[l] # 0  BY <1>1 DEF Tick, Due
  <2> QED  BY <2>1, LoopTypes DEF IInv
<1>2. TypeOK'
  <2>1. due' \in [Loops -> 0 .. Check]
    <3>1. ASSUME NEW l \in Loops
          PROVE  (IF state[l] = "on" THEN due[l] - 1 ELSE due[l])
                   \in 0 .. Check
      BY <1>1, LoopTypes DEF IInv
    <3> QED  BY <3>1 DEF Tick
  <2>2. calm' \in [Loops -> Nat]
    <3>1. ASSUME NEW l \in Loops
          PROVE  (IF state[l] = "on" THEN calm[l] + 1 ELSE calm[l]) \in Nat
      BY LoopTypes DEF IInv
    <3> QED  BY <3>1 DEF Tick
  <2>3. UNCHANGED <<mode, tok, changes, state, last, quiet, launched, task, wd,
                    test>>
    BY DEF Tick, tokenVars, guardVars
  <2> QED  BY <2>1, <2>2, <2>3 DEF IInv, TypeOK
<1>3. ASSUME NEW l \in Loops, state'[l] = "on" PROVE QuietReal(l)'
  <2>1. /\ last'[l] = last[l] /\ quiet'[l] = quiet[l] /\ state[l] = "on"
        /\ due'[l] = due[l] - 1 /\ calm'[l] = calm[l] + 1
        /\ UNCHANGED <<mode, tok>>
    BY <1>3 DEF Tick, tokenVars
  <2>2. QuietReal(l)  BY <2>1 DEF IInv, QuietIsReal
  <2>3. due[l] \in 1 .. Check  BY <1>1, <2>1
  <2> QED  BY <2>1, <2>2, <2>3, LoopTypes DEF IInv, QuietReal, Watched
<1> QED  BY <1>2, <1>3 DEF IInv, QuietIsReal

\* A step that leaves the token and the loops alone.
LEMMA OtherStep ==
  ASSUME IInv, UNCHANGED <<tokenVars, loopVars>>,
         task' \in 0 .. MaxLoops, wd' \in 0 .. MaxLoops,
         launched' \in 0 .. MaxLoops,
         test' \in {"running", "failed", "exited"}
  PROVE  IInv'
<1>1. TypeOK'  BY DEF IInv, TypeOK, tokenVars, loopVars
<1>2. ASSUME NEW l \in Loops, state'[l] = "on" PROVE QuietReal(l)'
  <2>1. QuietReal(l)  BY <1>2 DEF IInv, QuietIsReal, loopVars
  <2> QED  BY <2>1 DEF QuietReal, Watched, tokenVars, loopVars
<1> QED  BY <1>1, <1>2 DEF IInv, QuietIsReal

\* IInv is inductive.
LEMMA NextIInv == IInv /\ [Next]_vars => IInv'
<1> SUFFICES ASSUME IInv, [Next]_vars PROVE IInv'
  OBVIOUS
<1>1. CASE UNCHANGED vars
  BY <1>1, OtherStep DEF vars, guardVars, wallVars, IInv, TypeOK
<1>2. ASSUME NEW v \in 0 .. MaxChanges, Progress(v) PROVE IInv'
  BY <1>2, ProgressStep
<1>3. CASE start
  <2>1. task' \in 0 .. MaxLoops
    BY <1>3, Constants DEF start, Launch, IInv, TypeOK
  <2>2. wd' \in 0 .. MaxLoops  BY <1>3 DEF start, guardVars, IInv, TypeOK
  <2> QED  BY <1>3, <2>1, <2>2, LaunchStep DEF start
<1>4. CASE guard
  <2>1. wd' \in 0 .. MaxLoops
    BY <1>4, Constants DEF guard, Launch, IInv, TypeOK
  <2>2. task' \in 0 .. MaxLoops  BY <1>4 DEF guard, IInv, TypeOK
  <2> QED  BY <1>4, <2>1, <2>2, LaunchStep DEF guard
<1>5. CASE stop
  <2>1. task \in Loops  BY <1>5, Constants DEF stop, IInv, TypeOK
  <2>2. task' \in 0 .. MaxLoops /\ wd' \in 0 .. MaxLoops
    BY <1>5, Constants DEF stop, guardVars, IInv, TypeOK
  <2> QED  BY <1>5, <2>1, <2>2, KillStep DEF stop
<1>6. CASE EndGuard
  <2>1. wd \in Loops  BY <1>6, Constants DEF EndGuard, IInv, TypeOK
  <2>2. task' \in 0 .. MaxLoops /\ wd' \in 0 .. MaxLoops
    BY <1>6, Constants DEF EndGuard, IInv, TypeOK
  <2> QED  BY <1>6, <2>1, <2>2, KillStep DEF EndGuard
<1>7. ASSUME NEW how \in {"finished", "failed"}, EndBody(how) PROVE IInv'
  BY <1>7, OtherStep DEF EndBody, wallVars, IInv, TypeOK
<1>13. ASSUME NEW how \in {"finished", "failed"}, EndOrphan(how) PROVE IInv'
  BY <1>13, OtherStep DEF EndOrphan, wallVars, IInv, TypeOK
<1>8. ASSUME NEW l \in Loops, Sample(l) PROVE IInv'
  BY <1>8, SampleStep
<1>9. CASE Tick  BY <1>9, TickStep
<1>10. CASE Hang
  BY <1>10, OtherStep DEF Hang, guardVars, IInv, TypeOK
<1>11. CASE WallTick
  BY <1>11, OtherStep DEF WallTick, guardVars, IInv, TypeOK
<1>12. CASE WallFire
  BY <1>12, OtherStep DEF WallFire, guardVars, wallVars, IInv, TypeOK
<1> QED  BY <1>1, <1>2, <1>3, <1>4, <1>5, <1>6, <1>7, <1>8, <1>9, <1>10, <1>11,
            <1>12, <1>13 DEF Next

\* The quiet time of every loop is real.
THEOREM Invariant == Spec => []IInv
<1>1. Init => IInv  BY InitIInv
<1>2. IInv /\ [Next]_vars => IInv'  BY NextIInv
<1> QED  BY <1>1, <1>2, PTL DEF Spec

\* nia_sim_watchdog.py:158, this is a stall: no loop lets the token stand
\* still for two intervals longer than stall_ns.
THEOREM StallIsCaught == Spec => []StallCaught
<1>1. IInv => StallCaught
  <2> SUFFICES ASSUME IInv, NEW l \in Loops, state[l] = "on"
               PROVE  calm[l] < Stall + 2 * Check
    BY DEF StallCaught
  <2>1. QuietReal(l)  BY DEF IInv, QuietIsReal
  <2> QED  BY <2>1, LoopTypes DEF IInv, QuietReal, Watched
<1> QED  BY <1>1, Invariant, PTL

\* Only a sample sets a loop to fired.
LEMMA OnlySamplesFire ==
  ASSUME IInv, Next, NEW l \in Loops, Fires(l)
  PROVE  Sample(l) /\ Fire(l)
<1> USE DEF Fires, IInv, TypeOK
<1>1. ASSUME NEW v \in 0 .. MaxChanges, Progress(v) PROVE FALSE
  BY <1>1 DEF Progress
<1>2. CASE start \/ guard  BY <1>2 DEF start, guard, Launch
<1>3. CASE stop \/ EndGuard  BY <1>3 DEF stop, EndGuard, Kill
<1>4. ASSUME NEW how \in {"finished", "failed"}, EndBody(how) PROVE FALSE
  BY <1>4 DEF EndBody, loopVars
<1>8. ASSUME NEW how \in {"finished", "failed"}, EndOrphan(how) PROVE FALSE
  BY <1>8 DEF EndOrphan, loopVars
<1>5. ASSUME NEW k \in Loops, Sample(k) PROVE Sample(l) /\ Fire(l)
  <2>1. k = l /\ Fire(k)
    BY <1>5 DEF Sample, Moved, StillQuiet, Fire
  <2> QED  BY <1>5, <2>1
<1>6. CASE Tick  BY <1>6 DEF Tick
<1>7. CASE Hang \/ WallTick \/ WallFire
  BY <1>7 DEF Hang, WallTick, WallFire, loopVars
<1> QED  BY <1>1, <1>2, <1>3, <1>4, <1>5, <1>6, <1>7, <1>8 DEF Next

\* nia_sim_watchdog.py:209, no progress: a loop that counts beats fires only
\* when none was counted for stall_ns.
THEOREM NoFalseStall == Spec => NoFalseAlarm
<1>1. ASSUME IInv, [Next]_vars
      PROVE  [\A l \in Loops :
                Fires(l) /\ mode = "beats" => calm[l] >= Stall]_vars
  <2>1. ASSUME Next, NEW l \in Loops, Fires(l), mode = "beats"
        PROVE  calm[l] >= Stall
    <3>1. Sample(l) /\ Fire(l)  BY <1>1, <2>1, OnlySamplesFire
    <3>2. /\ state[l] = "on" /\ due[l] = 0 /\ quiet[l] + Check >= Stall
          /\ tok = last[l]
      BY <3>1, <2>1, <1>1
         DEF Sample, Due, Moved, Fire, Fires, Enough, IInv, TypeOK
    <3>3. QuietReal(l)  BY <3>2, <1>1 DEF IInv, QuietIsReal
    <3> QED
      BY <1>1, <2>1, <3>2, <3>3, LoopTypes DEF IInv, QuietReal, Watched
  <2> QED  BY <1>1, <2>1
<1> QED  BY <1>1, Invariant, PTL DEF Spec, NoFalseAlarm

-----------------------------------------------------------------------------
(* The RTL lock.                                                           *)

\* Two names of one directory open one lock file, whatever they are.
LEMMA OneKey ==
  ASSUME LockTypeOK, NEW p \in Runners, NEW q \in Runners, DirOf(p) = DirOf(q)
  PROVE  KeyOf(p) = KeyOf(q)
BY PathsAssumption DEF LockTypeOK, DirOf, KeyOf

\* Nobody is no runner, and a directory and a lock file have one name each.
LEMMA Ranges ==
  ASSUME LockTypeOK, NEW p \in Runners
  PROVE  /\ KeyOf(p) \in Keys /\ DirOf(p) \in Trees
         /\ Nobody \notin Runners
         /\ Timeout \in Nat
BY PathsAssumption, TimeoutAssumption, NobodyAssumption
   DEF LockTypeOK, KeyOf, DirOf

LEMMA LockInitIInv == LockInit => LockIInv
BY TimeoutAssumption, NobodyAssumption
   DEF LockInit, LockIInv, LockTypeOK, OwnerInside, ChangesOwned, Places,
       Within

\* The types survive every step of a runner.
LEMMA TypeStep ==
  ASSUME LockTypeOK, NEW p \in Runners,
         \/ \E n \in Paths, t \in BOOLEAN : Call(p, n, t)
         \/ Attempt(p) \/ Wake(p) \/ Enter(p) \/ Change(p) \/ Restore(p)
         \/ Leave(p) \/ (\E works \in BOOLEAN : Unlock(p, works)) \/ Close(p)
         \/ Die(p)
  PROVE  LockTypeOK'
<1> USE Ranges DEF LockTypeOK, Step, Places, EndWait, Freed
<1>1. ASSUME NEW n \in Paths, NEW t \in BOOLEAN, Call(p, n, t)
      PROVE  LockTypeOK'
  BY <1>1 DEF Call
<1>2. CASE Acquire(p)  BY <1>2 DEF Acquire
<1>3. CASE Blocked(p)  BY <1>3 DEF Blocked
<1>4. CASE TimedOut(p)  BY <1>4 DEF TimedOut
<1>5. CASE Wake(p)  BY <1>5 DEF Wake
<1>6. CASE Enter(p)  BY <1>6 DEF Enter
<1>7. CASE Change(p)  BY <1>7 DEF Change
<1>8. CASE Restore(p)  BY <1>8 DEF Restore
<1>9. CASE Leave(p)  BY <1>9 DEF Leave
<1>10. ASSUME NEW works \in BOOLEAN, Unlock(p, works) PROVE LockTypeOK'
  BY <1>10 DEF Unlock
<1>11. CASE Close(p)  BY <1>11 DEF Close
<1>12. CASE Die(p)  BY <1>12 DEF Die
<1> QED  BY <1>1, <1>2, <1>3, <1>4, <1>5, <1>6, <1>7, <1>8, <1>9, <1>10, <1>11,
            <1>12 DEF Attempt

\* A lock changes hands only from Nobody to who takes it, and from its owner
\* to Nobody, who is then past the body.
LEMMA OwnerStep ==
  ASSUME LockIInv, LockTypeOK', NEW p \in Runners,
         \/ \E n \in Paths, t \in BOOLEAN : Call(p, n, t)
         \/ Attempt(p) \/ Wake(p) \/ Enter(p) \/ Change(p) \/ Restore(p)
         \/ Leave(p) \/ (\E works \in BOOLEAN : Unlock(p, works)) \/ Close(p)
         \/ Die(p)
  PROVE  OwnerInside'
<1> USE Ranges DEF LockIInv, LockTypeOK, OwnerInside, Step, Within, EndWait,
                   Freed, KeyOf
<1>1. ASSUME NEW n \in Paths, NEW t \in BOOLEAN, Call(p, n, t)
      PROVE OwnerInside'
  BY <1>1 DEF Call
<1>2. CASE Acquire(p)  BY <1>2 DEF Acquire
<1>3. CASE Blocked(p)  BY <1>3 DEF Blocked
<1>4. CASE TimedOut(p)  BY <1>4 DEF TimedOut
<1>5. CASE Wake(p)  BY <1>5 DEF Wake
<1>6. CASE Enter(p)  BY <1>6 DEF Enter
<1>7. CASE Change(p)  BY <1>7 DEF Change
<1>8. CASE Restore(p)  BY <1>8 DEF Restore
<1>9. CASE Leave(p)  BY <1>9 DEF Leave
<1>10. ASSUME NEW works \in BOOLEAN, Unlock(p, works) PROVE OwnerInside'
  BY <1>10 DEF Unlock
<1>11. CASE Close(p)  BY <1>11 DEF Close
<1>12. CASE Die(p)  BY <1>12 DEF Die
<1> QED  BY <1>1, <1>2, <1>3, <1>4, <1>5, <1>6, <1>7, <1>8, <1>9, <1>10, <1>11,
            <1>12 DEF Attempt

\* A directory a runner is about to change carries no change but of the dead:
\* who else is at it would own the same lock.
LEMMA FoundAtChange ==
  ASSUME LockIInv, NEW p \in Runners, pc[p] = "inside"
  PROVE  tree[DirOf(p)] # Nobody => pc[tree[DirOf(p)]] = "dead"
<1> SUFFICES ASSUME tree[DirOf(p)] # Nobody, pc[tree[DirOf(p)]] # "dead"
             PROVE  FALSE
  OBVIOUS
<1> DEFINE q == tree[DirOf(p)]
<1>1. q \in Runners  BY Ranges DEF LockIInv, LockTypeOK
<1>2. pc[q] = "changed" /\ DirOf(q) = DirOf(p)
  BY Ranges DEF LockIInv, ChangesOwned
<1>3. KeyOf(q) = KeyOf(p)  BY <1>1, <1>2, OneKey DEF LockIInv
<1>4. owner[KeyOf(p)] = p /\ owner[KeyOf(q)] = q
  BY <1>1, <1>2 DEF LockIInv, OwnerInside, Within
<1> QED  BY <1>2, <1>3, <1>4

LEMMA ChangesStep ==
  ASSUME LockIInv, LockTypeOK', NEW p \in Runners,
         \/ \E n \in Paths, t \in BOOLEAN : Call(p, n, t)
         \/ Attempt(p) \/ Wake(p) \/ Enter(p) \/ Change(p) \/ Restore(p)
         \/ Leave(p) \/ (\E works \in BOOLEAN : Unlock(p, works)) \/ Close(p)
         \/ Die(p)
  PROVE  ChangesOwned'
<1> USE Ranges DEF LockIInv, LockTypeOK, ChangesOwned, Step, EndWait, DirOf
<1>1. ASSUME NEW n \in Paths, NEW t \in BOOLEAN, Call(p, n, t)
      PROVE ChangesOwned'
  BY <1>1 DEF Call
<1>2. CASE Acquire(p)  BY <1>2 DEF Acquire
<1>3. CASE Blocked(p)  BY <1>3 DEF Blocked
<1>4. CASE TimedOut(p)  BY <1>4 DEF TimedOut
<1>5. CASE Wake(p)  BY <1>5 DEF Wake
<1>6. CASE Enter(p)  BY <1>6 DEF Enter
<1>7. CASE Change(p)
  BY <1>7, FoundAtChange DEF Change
<1>8. CASE Restore(p)  BY <1>8 DEF Restore
<1>9. CASE Leave(p)  BY <1>9 DEF Leave
<1>10. ASSUME NEW works \in BOOLEAN, Unlock(p, works) PROVE ChangesOwned'
  BY <1>10 DEF Unlock
<1>11. CASE Close(p)  BY <1>11 DEF Close
<1>12. CASE Die(p)  BY <1>12 DEF Die
<1> QED  BY <1>1, <1>2, <1>3, <1>4, <1>5, <1>6, <1>7, <1>8, <1>9, <1>10, <1>11,
            <1>12 DEF Attempt

\* LockIInv is inductive.
LEMMA LockNextIInv == LockIInv /\ [LockNext]_lockVars => LockIInv'
<1>1. ASSUME LockIInv, UNCHANGED lockVars PROVE LockIInv'
  BY <1>1 DEF lockVars, LockIInv, LockTypeOK, OwnerInside, ChangesOwned,
              KeyOf, DirOf
<1>2. ASSUME LockIInv, LockNext PROVE LockIInv'
  <2>1. PICK p \in Runners :
          \/ \E n \in Paths, t \in BOOLEAN : Call(p, n, t)
          \/ Attempt(p) \/ Wake(p) \/ Enter(p) \/ Change(p) \/ Restore(p)
          \/ Leave(p) \/ (\E works \in BOOLEAN : Unlock(p, works)) \/ Close(p)
          \/ Die(p)
    BY <1>2 DEF LockNext
  <2>2. LockTypeOK'  BY <1>2, <2>1, TypeStep DEF LockIInv
  <2>3. OwnerInside'  BY <1>2, <2>1, <2>2, OwnerStep
  <2>4. ChangesOwned'  BY <1>2, <2>1, <2>2, ChangesStep
  <2> QED  BY <2>2, <2>3, <2>4 DEF LockIInv
<1> QED  BY <1>1, <1>2

\* The types, who owns a lock, and whose change a directory carries.
THEOREM LockInvariant == LockSpec => []LockIInv
<1>1. LockInit => LockIInv  BY LockInitIInv
<1>2. LockIInv /\ [LockNext]_lockVars => LockIInv'  BY LockNextIInv
<1> QED  BY <1>1, <1>2, PTL DEF LockSpec

\* nia_rtl_lock.py:4, one runner at a time: no two runners are inside for one
\* directory.
THEOREM MutualExclusion == LockSpec => []Exclusion
<1>1. LockIInv => Exclusion
  <2> SUFFICES ASSUME LockIInv, NEW p \in Runners, NEW q \in Runners,
                      pc[p] \in Within, pc[q] \in Within, DirOf(p) = DirOf(q)
               PROVE  p = q
    BY DEF Exclusion
  <2>1. KeyOf(p) = KeyOf(q)  BY OneKey DEF LockIInv
  <2>2. owner[KeyOf(p)] = p /\ owner[KeyOf(q)] = q
    BY DEF LockIInv, OwnerInside
  <2> QED  BY <2>1, <2>2
<1> QED  BY <1>1, LockInvariant, PTL

\* nia_rtl_lock.py:5, no mutation interleaved with a restore: inside, a runner
\* finds the directory as it was, or its own change, or that of a runner that
\* died.
THEOREM OwnChangeOnly == LockSpec => []NoForeignChange
<1>1. LockIInv => NoForeignChange
  <2> SUFFICES ASSUME LockIInv, NEW p \in Runners, pc[p] \in Within,
                      tree[DirOf(p)] # Nobody, pc[tree[DirOf(p)]] # "dead"
               PROVE  tree[DirOf(p)] = p
    BY DEF NoForeignChange
  <2> DEFINE q == tree[DirOf(p)]
  <2>1. q \in Runners  BY Ranges DEF LockIInv, LockTypeOK
  <2>2. pc[q] = "changed" /\ DirOf(q) = DirOf(p)
    BY Ranges DEF LockIInv, ChangesOwned
  <2>3. KeyOf(q) = KeyOf(p)  BY <2>1, <2>2, OneKey DEF LockIInv
  <2>4. owner[KeyOf(p)] = p /\ owner[KeyOf(q)] = q
    BY <2>1, <2>2 DEF LockIInv, OwnerInside, Within
  <2> QED  BY <2>3, <2>4
<1> QED  BY <1>1, LockInvariant, PTL

=============================================================================
