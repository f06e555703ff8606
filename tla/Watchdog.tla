------------------------------ MODULE Watchdog ------------------------------
(***************************************************************************)
(* The simulation watchdog, sim/model/nia_sim_watchdog.py: NiaWatchdog     *)
(* samples a progress token every check_ns of simulated time and raises    *)
(* NiaSimStall once the token stood still for stall_ns; wallclock_guard    *)
(* ends the process after so much real time.  One watchdog object, the     *)
(* test that uses it, and the simulator's two clocks.                      *)
(*                                                                         *)
(* Simulated time passes in Tick, which waits for the samples that are     *)
(* due; everything else happens between two ticks, in any order.  A loop   *)
(* is one running _loop(), started by guard() or by start().               *)
(***************************************************************************)
EXTENDS Integers

CONSTANTS
  Check,      (* check_ns, in ticks                                        *)
  Stall,      (* stall_ns, in ticks                                        *)
  WallSecs,   (* the wall-clock limit, in steps of real time               *)
  MaxLoops,   (* bound: loops one object starts                            *)
  MaxChanges  (* bound: changes of the token                               *)

ASSUME CheckAssumption == Check \in Nat \ {0}
ASSUME StallAssumption == Stall \in Nat \ {0}
ASSUME WallAssumption == WallSecs \in Nat
ASSUME LoopsAssumption == MaxLoops \in Nat
ASSUME ChangesAssumption == MaxChanges \in Nat

Loops == 1 .. MaxLoops

VARIABLES
  mode,      (* the token: "beats" counted, or "fn", a function of the user *)
  tok,       (* its value now                                              *)
  changes,   (* how often it changed                                       *)
  state,     (* of each loop: "new", "on", "fired" or "killed"             *)
  last,      (* the loop's last token                                      *)
  quiet,     (* quiet_ns                                                   *)
  due,       (* simulated time to the loop's next sample                   *)
  launched,  (* loops started so far                                       *)
  task,      (* _task: the loop stop() kills, 0 for None                   *)
  wd,        (* guard()'s loop, 0 outside guard()                          *)
  body,      (* guard()'s coroutine: "running", "finished", "failed"       *)
  fired,     (* the object's flag                                          *)
  orphans,   (* coroutines that guard() left running                       *)
  verdict,   (* how the last guard() ended                                 *)
  test,      (* the cocotb test: "running", "failed" or "exited"           *)
  hung,      (* simulated time has stopped                                 *)
  armed,     (* wallclock_guard has started its timer                      *)
  wall,      (* real time since                                            *)
  calm       (* history: ticks since the token changed or the loop started *)

tokenVars == <<mode, tok, changes>>
loopVars == <<state, last, quiet, due, calm>>
guardVars == <<wd, body, orphans, verdict>>
wallVars == <<hung, armed, wall>>
vars == <<tokenVars, loopVars, launched, task, guardVars, fired, test,
          wallVars>>

Init ==
  /\ mode \in {"beats", "fn"} /\ tok = 0 /\ changes = 0
  /\ state = [l \in Loops |-> "new"]
  /\ last = [l \in Loops |-> 0]
  /\ quiet = [l \in Loops |-> 0]
  /\ due = [l \in Loops |-> 0]
  /\ calm = [l \in Loops |-> 0]
  /\ launched = 0 /\ task = 0
  /\ wd = 0 /\ body = "none" /\ orphans = 0 /\ verdict = "none"
  /\ fired = FALSE /\ test = "running"
  /\ hung = FALSE /\ armed \in BOOLEAN /\ wall = 0

-----------------------------------------------------------------------------
Simulating == test = "running" /\ ~hung

\* The token takes another value.  beat() counts up; a function of the user
\* may return to a value it had, and any error it raises is one value more.
Progress(v) ==
  /\ Simulating /\ changes < MaxChanges
  /\ v # tok
  /\ mode = "beats" => v = tok + 1
  /\ tok' = v
  /\ changes' = changes + 1
  /\ calm' = [l \in Loops |-> 0]
  /\ UNCHANGED <<mode, state, last, quiet, due, launched, task, guardVars,
                 fired, test, wallVars>>

\* A new _loop() takes the token and waits for its first sample.
Launch ==
  LET l == launched + 1
  IN  /\ Simulating /\ launched < MaxLoops
      /\ launched' = l
      /\ state' = [state EXCEPT ![l] = "on"]
      /\ last' = [last EXCEPT ![l] = tok]
      /\ quiet' = [quiet EXCEPT ![l] = 0]
      /\ due' = [due EXCEPT ![l] = Check]
      /\ calm' = [calm EXCEPT ![l] = 0]

\* start(): a second call forgets the task of the first.
start ==
  /\ Launch
  /\ task' = launched + 1
  /\ UNCHANGED <<tokenVars, guardVars, fired, test, wallVars>>

\* Task.kill(): a loop that runs is gone, and its locals with it.
Kill(l) ==
  /\ state' = [state EXCEPT ![l] = IF @ = "on" THEN "killed" ELSE @]
  /\ last' = [last EXCEPT ![l] = 0]
  /\ quiet' = [quiet EXCEPT ![l] = 0]
  /\ due' = [due EXCEPT ![l] = 0]
  /\ calm' = [calm EXCEPT ![l] = 0]

stop ==
  /\ Simulating /\ task # 0
  /\ Kill(task)
  /\ task' = 0
  /\ UNCHANGED <<tokenVars, launched, guardVars,
                 fired, test, wallVars>>

\* guard(): the coroutine and a loop of its own.
guard ==
  /\ wd = 0
  /\ Launch
  /\ wd' = launched + 1
  /\ body' = "running"
  /\ UNCHANGED <<tokenVars, task, orphans, fired, verdict, test, wallVars>>

EndBody(how) ==
  /\ Simulating /\ wd # 0 /\ body = "running"
  /\ body' = how
  /\ UNCHANGED <<tokenVars, loopVars, launched, task, wd, orphans, verdict,
                 fired, test, wallVars>>

\* First() returns, or raises what the one that ended raised; the loop is
\* killed.  The flag turns the return into a stall, whichever loop or
\* earlier guard() set it.  A stall leaves guard() before the coroutine is
\* killed: one that still runs goes on without anybody waiting for it.
EndGuard ==
  /\ Simulating /\ wd # 0
  /\ \/ /\ state[wd] = "fired" /\ verdict' = "stall"
        /\ orphans' = IF body = "running" THEN orphans + 1 ELSE orphans
     \/ /\ body = "failed" /\ verdict' = "raised"
        /\ UNCHANGED orphans
     \/ /\ body = "finished"
        /\ verdict' = IF fired THEN "stall" ELSE "returned"
        /\ UNCHANGED orphans
  /\ Kill(wd)
  /\ wd' = 0 /\ body' = "none"
  /\ UNCHANGED <<tokenVars, launched, task, fired, test, wallVars>>

\* Such a coroutine ends; what it raises fails the test.
EndOrphan(how) ==
  /\ Simulating /\ orphans > 0
  /\ orphans' = orphans - 1
  /\ test' = IF how = "failed" THEN "failed" ELSE test
  /\ UNCHANGED <<tokenVars, loopVars, launched, task, wd, body, verdict, fired,
                 wallVars>>

-----------------------------------------------------------------------------
\* Mutant of Enough: more than the limit.
EnoughLate(q) == q > Stall + 2 * Check

\* Mutant of Enough: the interval is counted before it has passed.
EnoughEarly(q) == q + Check >= Stall

\* The quiet time that makes a stall.
Enough(q) == q >= Stall

Due(l) == Simulating /\ state[l] = "on" /\ due[l] = 0

\* A sample that finds another token starts the quiet time again.
Moved(l) ==
  /\ last' = [last EXCEPT ![l] = tok]
  /\ quiet' = [quiet EXCEPT ![l] = 0]
  /\ due' = [due EXCEPT ![l] = Check]
  /\ UNCHANGED <<state, fired, test>>

\* A sample that finds the same one adds to it.
StillQuiet(l) ==
  /\ quiet' = [quiet EXCEPT ![l] = @ + Check]
  /\ ~Enough(quiet[l] + Check)
  /\ due' = [due EXCEPT ![l] = Check]
  /\ UNCHANGED <<state, last, fired, test>>

\* Enough of it: the flag, the report, and NiaSimStall, which fails the test
\* unless guard() waits for this loop.
Fire(l) ==
  /\ quiet' = [quiet EXCEPT ![l] = @ + Check]
  /\ Enough(quiet[l] + Check)
  /\ state' = [state EXCEPT ![l] = "fired"]
  /\ fired' = TRUE
  /\ test' = IF l = wd THEN test ELSE "failed"
  /\ UNCHANGED <<last, due>>

\* One turn of _loop().
Sample(l) ==
  /\ Due(l)
  /\ \/ tok # last[l] /\ Moved(l)
     \/ tok = last[l] /\ (StillQuiet(l) \/ Fire(l))
  /\ UNCHANGED <<tokenVars, calm, launched, task, guardVars, wallVars>>

Tick ==
  /\ Simulating /\ \A l \in Loops : ~Due(l)
  /\ due' = [l \in Loops |-> IF state[l] = "on" THEN due[l] - 1 ELSE due[l]]
  /\ calm' = [l \in Loops |-> IF state[l] = "on" THEN calm[l] + 1 ELSE calm[l]]
  /\ UNCHANGED <<tokenVars, state, last, quiet, launched, task, guardVars,
                 fired, test, wallVars>>

\* A loop of zero-delay events: simulated time does not advance again.
Hang ==
  /\ Simulating
  /\ hung' = TRUE
  /\ UNCHANGED <<tokenVars, loopVars, launched, task, guardVars, fired, test,
                 armed, wall>>

WallTick ==
  /\ test = "running" /\ armed /\ wall < WallSecs
  /\ wall' = wall + 1
  /\ UNCHANGED <<tokenVars, loopVars, launched, task, guardVars, fired, test,
                 hung, armed>>

\* Mutant of WallFire: the report reads the simulator, which is stuck.
WallFireReadsDut ==
  /\ test = "running" /\ armed /\ wall = WallSecs /\ ~hung
  /\ test' = "exited"
  /\ UNCHANGED <<tokenVars, loopVars, launched, task, guardVars, fired,
                 wallVars>>

\* _fire, on a thread of its own: os._exit, whatever the test is at.
WallFire ==
  /\ test = "running" /\ armed /\ wall = WallSecs
  /\ test' = "exited"
  /\ UNCHANGED <<tokenVars, loopVars, launched, task, guardVars, fired,
                 wallVars>>

-----------------------------------------------------------------------------
Next ==
  \/ \E v \in 0 .. MaxChanges : Progress(v)
  \/ start \/ stop \/ guard
  \/ \E how \in {"finished", "failed"} : EndBody(how) \/ EndOrphan(how)
  \/ EndGuard
  \/ \E l \in Loops : Sample(l)
  \/ Tick \/ Hang \/ WallTick \/ WallFire

Spec == Init /\ [][Next]_vars

\* The simulator runs what is ready and, unless it hangs, moves its time;
\* real time passes.  The test owes nothing.
Fairness ==
  /\ WF_vars(EndGuard)
  /\ WF_vars(\E l \in Loops : Sample(l))
  /\ WF_vars(Tick)
  /\ WF_vars(WallTick)
  /\ WF_vars(WallFire)

FairSpec == Spec /\ Fairness

-----------------------------------------------------------------------------
TypeOK ==
  /\ mode \in {"beats", "fn"} /\ tok \in Nat /\ changes \in Nat
  /\ state \in [Loops -> {"new", "on", "fired", "killed"}]
  /\ last \in [Loops -> Nat] /\ quiet \in [Loops -> Nat]
  /\ due \in [Loops -> 0 .. Check] /\ calm \in [Loops -> Nat]
  /\ launched \in 0 .. MaxLoops /\ task \in 0 .. MaxLoops /\ wd \in 0 .. MaxLoops
  /\ test \in {"running", "failed", "exited"}

(***************************************************************************)
(* How a loop's quiet time follows the token: the time since the last      *)
(* sample that saw a change is quiet plus what has passed since the last   *)
(* sample, and the token has stood still for all of it, as far as beats    *)
(* can tell, and for at most one interval more.                            *)
(***************************************************************************)
Watched(l) == quiet[l] + (Check - due[l])

QuietReal(l) ==
  /\ quiet[l] < Stall
  /\ mode = "beats" => last[l] <= tok
  /\ mode = "beats" /\ last[l] = tok => calm[l] >= Watched(l)
  /\ last[l] = tok => calm[l] <= Watched(l) + Check
  /\ last[l] # tok => calm[l] <= Check - due[l]

QuietIsReal == \A l \in Loops : state[l] = "on" => QuietReal(l)

IInv == TypeOK /\ QuietIsReal

(***************************************************************************)
(* nia_sim_watchdog.py:209, "no progress for ... ns of simulated time": a  *)
(* loop that counts beats fires only when none was counted for stall_ns,   *)
(* however beats, samples and other loops interleave.                      *)
(***************************************************************************)
Fires(l) == state[l] # "fired" /\ state'[l] = "fired"

NoFalseAlarm ==
  [][\A l \in Loops : Fires(l) /\ mode = "beats" => calm[l] >= Stall]_vars

(***************************************************************************)
(* nia_sim_watchdog.py:158, "THIS IS A STALL": no loop lets the token      *)
(* stand still for two sampling intervals longer than stall_ns.            *)
(***************************************************************************)
StallCaught ==
  \A l \in Loops : state[l] = "on" => calm[l] < Stall + 2 * Check

(***************************************************************************)
(* nia_sim_watchdog.py:5, "so a stalled run terminates": a guard ends once *)
(* its test stops making progress, by the watchdog in simulated time or,   *)
(* when that stands still, by the wall-clock guard if there is one.        *)
(***************************************************************************)
GuardEnds == wd # 0 ~> wd = 0 \/ test # "running" \/ (hung /\ ~armed)

=============================================================================
