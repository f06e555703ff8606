------------------------------ MODULE CsrProbe ------------------------------
(***************************************************************************)
(* The driver-less probe, example/TU03/hw/csr_probe.py: it turns on memory *)
(* decode in the PCI COMMAND register, walks the BAR, and with             *)
(* --dma-selftest has the card read a locked page into its RAM and write   *)
(* it back.  The probe is run again and again on one card, which keeps its *)
(* status registers, its RAM and its outstanding descriptors in between.   *)
(*                                                                         *)
(* A step of the probe is what it does between two accesses that the card  *)
(* or another run can see.  The card's DMA engines and its status          *)
(* registers are outside src/ and follow what the probe says of them: a    *)
(* completion latches the descriptor's tag and a valid bit, and any read   *)
(* of the register clears the valid bit, one racing the arrival included.  *)
(***************************************************************************)
EXTENDS Integers, Sequences

CONSTANTS
  MaxRuns,   (* bound: runs of the probe                                   *)
  Timeout    (* the 2.0 s of wait_status, in sleeps                        *)

ASSUME MaxRunsAssumption == MaxRuns \in Nat \ {0}
ASSUME TimeoutAssumption == Timeout \in Nat \ {0}

Channels == {"read", "write"}
Bits == {"MEM", "MASTER"}
Uncaught == -1   \* exit of a run that an exception ended

VARIABLES
  pc,        (* where main() is; "off" between two runs                    *)
  chan,      (* the descriptor dma_selftest is at                          *)
  selftest,  (* --dma-selftest                                             *)
  cmd_orig,  (* COMMAND as enable_decode read it                           *)
  c0,        (* CHECK B's first reading: "count" or "ones"                 *)
  nfail,     (* failed checks                                              *)
  elapsed,   (* since wait_status was entered                              *)
  exit,      (* exit code of the last run, or Uncaught                     *)
  command,   (* COMMAND, its MEM and MASTER bits                           *)
  alive,     (* the card answers; otherwise reads give all ones            *)
  status,    (* the status register of each engine                         *)
  jobs,      (* the runs whose descriptors each engine still has to do     *)
  ram,       (* the card's RAM: the test pattern or something else         *)
  page,      (* the locked hugepage, "none" when it is not held            *)
  dst,       (* its destination half: "zero", "pattern" or "other"         *)
  run,       (* history: number of the current run                         *)
  firmware,  (* history: COMMAND as the boot left it                       *)
  raised,    (* history: a run since the boot ended in an exception        *)
  fresh,     (* history: this run found the card as programmed             *)
  told,      (* history: what wait_status said of each descriptor          *)
  done,      (* history: this run's descriptors that completed             *)
  loaded,    (* history: this run's pattern reached the card               *)
  returned,  (* history: and came back                                     *)
  result     (* what dma_selftest returned                                 *)

probeVars == <<pc, chan, selftest, cmd_orig, c0, nfail, elapsed, exit>>
cardVars == <<status, jobs, ram>>
pageVars == <<page, dst>>
bootVars == <<run, firmware, raised, fresh>>
doneVars == <<done, loaded, returned>>
vars == <<probeVars, command, alive, cardVars, pageVars, bootVars, told,
          doneVars, result>>

-----------------------------------------------------------------------------
\* The card as programmed: no tag of the probe's, nothing outstanding.
Blank == [valid |-> FALSE, tag |-> "none", err |-> FALSE]
Programmed ==
  /\ \A ch \in Channels : status[ch].tag # ch /\ jobs[ch] = <<>>
  /\ ram # "pattern"

\* A read of an absent device returns ones, the valid bit among them.
AllOnes == [valid |-> TRUE, tag |-> "ones", err |-> TRUE]
Answering == alive /\ "MEM" \in command
Seen(ch) == IF Answering THEN status[ch] ELSE AllOnes

\* Any read of the status register consumes its valid bit.
Consumed(ch) ==
  status' = IF Answering THEN [status EXCEPT ![ch].valid = FALSE] ELSE status

Boot(cmd) ==
  /\ command = cmd /\ firmware = cmd
  /\ alive = TRUE
  /\ status = [ch \in Channels |-> Blank]
  /\ jobs = [ch \in Channels |-> <<>>]
  /\ ram = "other"
  /\ raised = FALSE

Init ==
  /\ \E cmd \in SUBSET Bits : Boot(cmd)
  /\ pc = "off" /\ chan = "read" /\ selftest = FALSE
  /\ cmd_orig = {} /\ c0 = "count" /\ nfail = 0 /\ elapsed = 0 /\ exit = 0
  /\ page = "none" /\ dst = "zero"
  /\ run = 0 /\ fresh = TRUE
  /\ told = [ch \in Channels |-> "nothing"]
  /\ done = {} /\ loaded = FALSE /\ returned = FALSE
  /\ result = "none"

-----------------------------------------------------------------------------
(* The card.                                                               *)

\* The oldest descriptor of engine ch completes, in error when ~ok.  A read
\* from, or a write to, a page the run no longer holds moves foreign data.
\* The data is in place when the status is: a status read pushes it.
Land(ch, ok, valid) ==
  LET r == Head(jobs[ch])
      mine == r = run
      held == mine /\ page # "none"
  IN
  /\ alive /\ "MASTER" \in command /\ jobs[ch] # <<>>
  /\ jobs' = [jobs EXCEPT ![ch] = Tail(@)]
  /\ status' = [status EXCEPT ![ch] =
                  [valid |-> valid, tag |-> ch, err |-> ~ok]]
  /\ done' = IF mine THEN done \cup {ch} ELSE done
  /\ ram' = IF ch # "read" \/ ~ok THEN ram
            ELSE IF held THEN "pattern" ELSE "other"
  /\ loaded' = (loaded \/ (ch = "read" /\ ok /\ held))
  /\ dst' = IF ch = "write" /\ ok /\ held THEN ram ELSE dst
  /\ returned' = (returned \/ (ch = "write" /\ ok /\ held /\ loaded))

Complete(ch, ok) ==
  /\ Land(ch, ok, TRUE)
  /\ UNCHANGED <<probeVars, command, alive, page, bootVars, told, result>>

\* The link drops: what the card had in hand is lost.
Die ==
  /\ alive /\ alive' = FALSE
  /\ jobs' = [ch \in Channels |-> <<>>]
  /\ UNCHANGED <<probeVars, command, status, ram, pageVars, bootVars, told,
                 doneVars, result>>

\* Between two runs the card is programmed anew and the host rebooted.
Reprogram ==
  /\ pc = "off" /\ 0 < run /\ run < MaxRuns
  /\ alive' = TRUE
  /\ command' = firmware
  /\ status' = [ch \in Channels |-> Blank]
  /\ jobs' = [ch \in Channels |-> <<>>]
  /\ ram' = "other"
  /\ raised' = FALSE
  /\ UNCHANGED <<probeVars, pageVars, run, firmware, fresh, told, doneVars,
                 result>>

-----------------------------------------------------------------------------
(* The probe.                                                              *)

GoTo(here, there) == pc = here /\ pc' = there

\* The run returns code: its page, if it held one, went with dma_selftest.
Return(code) == pc' = "off" /\ exit' = code

\* A write to COMMAND: it lands while the card is there.
pci_command(value) == command' = IF alive THEN value ELSE command

Begin(dma) ==
  /\ pc = "off" /\ run < MaxRuns
  /\ run' = run + 1
  /\ selftest' = dma
  /\ fresh' = Programmed
  /\ nfail' = 0 /\ elapsed' = 0 /\ chan' = "read"
  /\ told' = [ch \in Channels |-> "nothing"]
  /\ done' = {} /\ loaded' = FALSE /\ returned' = FALSE
  /\ result' = "none" /\ dst' = "zero"
  /\ UNCHANGED <<c0, alive, cardVars, page, firmware, raised>>

\* No endpoint, no BAR, a BAR too small.
NoDevice(dma) ==
  /\ Begin(dma)
  /\ Return(2)
  /\ UNCHANGED <<cmd_orig, command>>

\* Mutant of Want: the wrong bit of COMMAND.
WantIo(dma) == command \cup {"IO"} \cup (IF dma THEN {"MASTER"} ELSE {})

\* Memory decode, and bus mastering for the self-test.
Want(dma) == command \cup {"MEM"} \cup (IF dma THEN {"MASTER"} ELSE {})

\* enable_decode, not allowed to write COMMAND.
EnableDenied(dma) ==
  /\ Begin(dma)
  /\ Want(dma) # command
  /\ Return(2)
  /\ UNCHANGED <<cmd_orig, command>>

\* enable_decode.  A MEM bit that does not stay set is reported, and the
\* run goes on.
enable_decode(dma, sticks) ==
  /\ Begin(dma)
  /\ cmd_orig' = command
  /\ pci_command(IF sticks \/ "MEM" \in command THEN Want(dma)
                 ELSE Want(dma) \ {"MEM"})
  /\ pc' = "open"
  /\ UNCHANGED exit

\* Mutant of OpenDenied: COMMAND is left as enable_decode set it.
OpenDeniedLeaves ==
  /\ pc = "open"
  /\ Return(2)
  /\ UNCHANGED <<chan, selftest, cmd_orig, c0, nfail, elapsed, command,
                 alive, cardVars, pageVars, bootVars, told, doneVars, result>>

\* The resource file may not be opened: COMMAND is put back first.
OpenDenied ==
  /\ pc = "open"
  /\ pci_command(cmd_orig)
  /\ Return(2)
  /\ UNCHANGED <<chan, selftest, cmd_orig, c0, nfail, elapsed, alive,
                 cardVars, pageVars, bootVars, told, doneVars, result>>

\* The BAR is mapped.  CHECK A reads every register of REGS, the read
\* engine's status among them; only ones from all of them fail it.
CheckA ==
  /\ GoTo("open", "B0")
  /\ Consumed("read")
  /\ nfail' = IF Answering THEN nfail ELSE nfail + 1
  /\ UNCHANGED <<chan, selftest, cmd_orig, c0, elapsed, exit, command, alive,
                 jobs, ram, pageVars, bootVars, told, doneVars, result>>

\* CHECK B, the first reading of the cycle counter.
FirstCount ==
  /\ GoTo("B0", "B1")
  /\ c0' = IF Answering THEN "count" ELSE "ones"
  /\ UNCHANGED <<chan, selftest, cmd_orig, nfail, elapsed, exit, command,
                 alive, cardVars, pageVars, bootVars, told, doneVars, result>>

\* CHECK B, the second, 200 ms later: frozen unless the fabric is clocked.
\* A card gone in between passes, its ones being a different number.
CheckB(clocked) ==
  /\ GoTo("B1", "C")
  /\ nfail' = IF (Answering /\ clocked) \/ (Answering # (c0 = "count"))
              THEN nfail ELSE nfail + 1
  /\ UNCHANGED <<chan, selftest, cmd_orig, c0, elapsed, exit, command, alive,
                 cardVars, pageVars, bootVars, told, doneVars, result>>

\* CHECK C: three patterns through one register, which gets its value back;
\* the first mismatch fails the check.
CheckC(landed) ==
  /\ GoTo("C", IF selftest THEN "page" ELSE "restore")
  /\ nfail' = IF Answering /\ landed THEN nfail ELSE nfail + 1
  /\ UNCHANGED <<chan, selftest, cmd_orig, c0, elapsed, exit, command, alive,
                 cardVars, pageVars, bootVars, told, doneVars, result>>

\* hugepage_phys has no page that can be locked and addressed: CHECK D is
\* skipped, which counts neither way.
SkipSelftest ==
  /\ GoTo("page", "restore")
  /\ UNCHANGED <<chan, selftest, cmd_orig, c0, nfail, elapsed, exit, command,
                 alive, cardVars, pageVars, bootVars, told, doneVars, result>>

\* hugepage_phys, and the two halves filled: the pattern is a constant.
LockPage ==
  /\ GoTo("page", "desc")
  /\ page' = "locked" /\ dst' = "zero"
  /\ chan' = "read"
  /\ UNCHANGED <<selftest, cmd_orig, c0, nfail, elapsed, exit, command,
                 alive, cardVars, bootVars, told, doneVars, result>>

\* Address, RAM address and length, then the tag, which starts the engine.
Program ==
  /\ GoTo("desc", "poll")
  /\ elapsed' = 0
  /\ jobs' = IF Answering THEN [jobs EXCEPT ![chan] = Append(@, run)] ELSE jobs
  /\ UNCHANGED <<chan, selftest, cmd_orig, c0, nfail, exit, command, alive,
                 status, ram, pageVars, bootVars, told, doneVars, result>>

\* wait_status returns: to the write descriptor, then to the comparison.
EndWait(saying) ==
  /\ told' = [told EXCEPT ![chan] = saying]
  /\ pc' = IF chan = "read" THEN "desc" ELSE "compare"
  /\ chan' = "write"

\* Mutant of Accepted: the valid bit alone counts.
ValidOnly(s) == s.valid

\* Mutant of Accepted: any status without an error counts.
NoErrorIsDone(s) == s.valid \/ ~s.err

\* The two ways wait_status takes a status for this descriptor's completion.
Accepted(s) == s.valid \/ s.tag = chan

\* One look at the status register.  A completion that arrives in the clock
\* of the read is latched without its valid bit.
Poll(race, ok) ==
  LET s == Seen(chan)
  IN
  /\ pc = "poll"
  /\ IF race /\ Answering
     THEN Land(chan, ok, FALSE)
     ELSE /\ Consumed(chan)
          /\ UNCHANGED <<jobs, ram, dst, doneVars>>
  /\ IF Accepted(s)
     THEN EndWait("completed")
     ELSE pc' = "sleep" /\ UNCHANGED <<told, chan>>
  /\ UNCHANGED <<selftest, cmd_orig, c0, nfail, elapsed, exit, command,
                 alive, page, bootVars, result>>

\* A sleep of 10 ms, or of longer when the host is busy.
Sleep(e) ==
  /\ pc = "sleep" /\ elapsed < Timeout
  /\ elapsed < e /\ e <= Timeout
  /\ elapsed' = e
  /\ pc' = IF e < Timeout THEN "poll" ELSE "sleep"
  /\ UNCHANGED <<chan, selftest, cmd_orig, c0, nfail, exit, command, alive,
                 cardVars, pageVars, bootVars, told, doneVars, result>>

\* The time is up: a last read for the message, and the test goes on.
GiveUp ==
  /\ pc = "sleep" /\ elapsed = Timeout
  /\ Consumed(chan)
  /\ EndWait("gave up")
  /\ UNCHANGED <<selftest, cmd_orig, c0, nfail, elapsed, exit, command,
                 alive, jobs, ram, pageVars, bootVars, doneVars, result>>

\* Mutant of Same: the source half is compared.
SameSource == TRUE

\* The destination half holds the pattern.
Same == dst = "pattern"

\* The comparison, and the return of dma_selftest that lets the page go.
Compare ==
  /\ GoTo("compare", "restore")
  /\ result' = IF Same THEN "pass" ELSE "fail"
  /\ nfail' = IF Same THEN nfail ELSE nfail + 1
  /\ page' = "none"
  /\ UNCHANGED <<chan, selftest, cmd_orig, c0, elapsed, exit, command, alive,
                 cardVars, dst, bootVars, told, doneVars>>

\* COMMAND back as found, and the verdict.
Finish ==
  /\ pc = "restore"
  /\ pci_command(cmd_orig)
  /\ Return(IF nfail = 0 THEN 0 ELSE 1)
  /\ UNCHANGED <<chan, selftest, cmd_orig, c0, nfail, elapsed, alive,
                 cardVars, pageVars, bootVars, told, doneVars, result>>

\* An exception main() does not catch, or Ctrl-C: nothing is put back, and
\* the kernel takes the page.
Raise ==
  /\ pc # "off"
  /\ Return(Uncaught)
  /\ raised' = TRUE
  /\ page' = "none"
  /\ UNCHANGED <<chan, selftest, cmd_orig, c0, nfail, elapsed, command,
                 alive, cardVars, dst, run, firmware, fresh, told, doneVars,
                 result>>

-----------------------------------------------------------------------------
Start ==
  \E dma \in BOOLEAN :
    \/ NoDevice(dma)
    \/ EnableDenied(dma)
    \/ \E sticks \in BOOLEAN : enable_decode(dma, sticks)

Probe ==
  \/ OpenDenied \/ CheckA \/ FirstCount
  \/ \E clocked \in BOOLEAN : CheckB(clocked)
  \/ \E landed \in BOOLEAN : CheckC(landed)
  \/ SkipSelftest \/ LockPage \/ Program
  \/ \E race, ok \in BOOLEAN : Poll(race, ok)
  \/ \E e \in 0 .. Timeout : Sleep(e)
  \/ GiveUp \/ Compare \/ Finish

Card ==
  \/ \E ch \in Channels, ok \in BOOLEAN : Complete(ch, ok)
  \/ Die
  \/ Reprogram

Next == Start \/ Probe \/ Raise \/ Card

Spec == Init /\ [][Next]_vars

-----------------------------------------------------------------------------
TypeOK ==
  /\ pc \in {"off", "open", "B0", "B1", "C", "page", "desc", "poll", "sleep",
             "compare", "restore"}
  /\ chan \in Channels
  /\ {command, cmd_orig, firmware} \subseteq SUBSET Bits
  /\ nfail \in 0 .. 4 /\ elapsed \in 0 .. Timeout /\ run \in 0 .. MaxRuns
  /\ status \in [Channels -> [valid : BOOLEAN, tag : {"none", "read", "write"},
                              err : BOOLEAN]]
  /\ \A ch \in Channels : jobs[ch] \in Seq(1 .. MaxRuns)
  /\ dst \in {"zero", "pattern", "other"} /\ page \in {"none", "locked"}

(***************************************************************************)
(* csr_probe.py:118, "went host -> card -> host BYTE-EXACT": a self-test   *)
(* that passes moved this run's pattern to the card and back.              *)
(***************************************************************************)
PassIsRoundTrip == result = "pass" => loaded /\ returned

(***************************************************************************)
(* The same for a run that finds the card as it was programmed, whatever   *)
(* is lost, late, in error or gone in the middle: neither RAM nor status   *)
(* can then hold an earlier run's success.                                 *)
(***************************************************************************)
FreshPassIsRoundTrip == fresh => PassIsRoundTrip

(***************************************************************************)
(* csr_probe.py:68, "refusing to DMA into a page that may migrate": once   *)
(* dma_selftest lets its page go, no engine still has it to read or write, *)
(* if the run began on a card as programmed and both waits said completed. *)
(* A wait that gives up lets the page go all the same, under a descriptor  *)
(* that may still be outstanding: the code promises nothing there.         *)
(***************************************************************************)
DmaEndsWithPage ==
  /\ fresh /\ alive /\ page = "none"
  /\ \A ch \in Channels : told[ch] = "completed"
  => \A ch \in Channels : jobs[ch] = <<>>

(***************************************************************************)
(* csr_probe.py:202, "restored on exit": as long as no run ended in an     *)
(* exception, a run leaves COMMAND as the boot did, on every return.  The  *)
(* message is wrong for an exception or Ctrl-C: nothing is put back then.  *)
(***************************************************************************)
CommandAsFound == pc = "off" /\ alive /\ ~raised => command = firmware

(***************************************************************************)
(* csr_probe.py:138, the valid bit consumed by an earlier read: a poll     *)
(* that comes after the completion never misses it, so a wait gives up     *)
(* only on a descriptor that was still outstanding at its last poll.       *)
(***************************************************************************)
PollSeesCompletion ==
  [][pc = "poll" /\ pc' = "sleep" /\ Answering => chan \notin done]_vars

=============================================================================
