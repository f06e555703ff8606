# nia-pcie: verification project

TLA+ models of the PCIe adaptation layer in this repository: SystemVerilog that
sits between the AMD CPM5 hard block (or its Gen4 sibling) and the `verilog-pcie`
library, the simulation models it is tested against, and the tooling around
both.  A step of an RTL module is one rising edge of `clk`; a register is a
variable, a branch of an `always_ff` or of the FSM's `case` is an action, a
`wire` or an `always @*` result is an operator, and an input pin is a parameter
of the action, chosen by `\E`.

## 1. Inventory

| Component | State | Operations | Hard behaviour | What makes it correct |
|---|---|---|---|---|
| **MSI-X adapter** `rtl/irq/pcie_versal_msix_adapt.sv` | FSM, vector, retry count, port registers, 5 saturating counters, sticky mask flag | accept, drop (disabled, out of range), present, wait, retry, give up, complete, reset | answers in any order and at any time, enable toggled at any time, no timeout | every accepted index ends once; retry bound; vector steady; returns to ready (rules D-1 to D-9 of its test) |
| **MSI-X Internal core model** `sim/model/cpm5_msix_internal.py` | PBA, previous `int_vector`, answer pins, force-fail hook | per edge: clear pins, serve a rise, drain one deferred vector; two awaited writes | blind to the clock while it awaits; masks rewritten by the host meanwhile | no accepted interrupt lost; answers belong to a presentation; deferred vectors are delivered after unmask |
| **CQ gearbox** `rtl/gen5x8/pcie_versal_if_cqcc_gearbox.sv` 133-541 | output and skid registers, ready register, phase, open | split of a beat, store, advance a half, skip an empty beat, reset | registered ready, straddled packets, stall between halves, more marks than slots | the packets that come in go out, once, in order; the bus never wedges |
| **CC gearbox** same file 543-761 | hold register, open | map, hold, merge, pass alone, reset | a beat is taken before the core has seen it; pointer weights change; starts off the core's grid | as above, and a beat is held only while a packet is open behind it |
| **Gearbox bypass** same file 782-802 | none | connects both sides | - | identity |
| **Requester request engine** `pcie_versal_if_rq.sv` | frame, port, split, shift and output registers, credit flags | arbitrate, check credit, split a frame, build a header, return a sequence number | fixed priority, stale credits, frame that does not fit one beat | every sequence number returns once; no beat lost at a split |
| **Requester completion engine** `pcie_versal_if_rc.sv` | compaction registers, FIFO, realignment registers | compact segments, buffer, realign, strip headers, map errors | segments that wait for the next beat, full FIFO | stream in = stream out, capacity |
| **Core interface shim** `pcie_versal_if.sv` | MSI-X request in flight, sticky poison | handshake with the core, poison status, parameter guards | a failed message is acknowledged like a sent one | each TLP acknowledged once |
| **Gen4x8 adapter** `rtl/gen4x8/pcie_versal_adapt.sv` | sticky poison | wiring, poison status | sampling without valid | - |
| **MSI adapter** `rtl/irq/pcie_versal_msi_adapt.sv` | none | combinational | - | - |
| **Request sink, device model** `sim/model/cpm5_pcie_device.py` | partial frame | decode RQ beats, poison injection | - | decodes what the request engine sends |
| **Watchdog** `sim/model/nia_sim_watchdog.py` | token, loops with their last token and quiet time, one fired flag, real-time timer | beat, start, stop, guard, sample, fire, wall-clock exit | loops that outlive their handle, progress between samples, simulated time that stands still | no false alarm, no stall missed, every guard ends |
| **RTL lock** `sim/model/nia_rtl_lock.py` | lock files and their owners, the protected directories | poll, give up, enter, leave, unlock, close | a timeout, an exception or a kill at any point; two directories with one lock file | exclusion; what a runner finds; waits that end |
| **Tooling** `bin/nia-pcie`, `lib/check_tcl_sources.py` | logs and images on disk | check, sim, image | results of an earlier run | an image is reported only if this run made it |
| **CSR probe** `example/TU03/hw/csr_probe.py` | COMMAND, the card's status registers, RAM and outstanding descriptors, a locked page | enable decode, checks A to C, DMA self-test with polling and timeouts, restore | status consumed by any read, constant tag and pattern, late or lost completions, a link that drops | a pass is a round trip; after two completed waits no DMA is left on the page; COMMAND restored on every return |
| **Other board scripts** `example/TU03/hw/*` | none of their own | tool invocation | - | - |
| **Example designs, wrappers** `example/rtl`, `example/TU03/*/fpga`, `sim/tb` | none of their own | wiring | - | - |
| **verilog-pcie** | submodule, not in the tree | - | - | external |

How they meet.  User event queues hand interrupt indices to the MSI-X adapter
over ready/valid; the adapter drives the core's `cfg_msix_*` pins, in simulation
the core model, which reads the enable and mask state that the host writes.  The
core's CQ bus (1024 bits) feeds the CQ gearbox, which feeds the 512-bit shim;
the shim's completions go through the CC gearbox back to the core.  Requests of
the DMA engine pass the request engine, completions the completion engine.
Everything is one clock domain, so the interleavings that matter are those of
input values at each edge, and, in the simulation models, of coroutines that
await across edges.  Three programs stand beside the RTL: the watchdog lives in
the simulator's process and sees the test only through its token and its two
clocks; the lock is shared by the processes of several test runners; the probe
runs on the host of a real card and meets it through registers and a page of
memory.

The list of hazards, each at its line and with the properties that cover it or
the reason none does yet, is in `PROJECT.json`.

## 2. Modules

| Module | Models | Kind |
|---|---|---|
| `MsixDelivery` | what the MSI-X adapter promises | abstract specification |
| `MsixAdapt` | `pcie_versal_msix_adapt.sv`, every branch | component |
| `MsixSystem` | the adapter, `cpm5_msix_internal.py`, and the host | composition |
| `MsixSystemProofs` | theorems about the adapter and the system | proofs |
| `BeatQueue` | a bounded first-in first-out queue of beats | abstract specification |
| `TlpStream` | what a width converter on a TLP interface promises | abstract specification |
| `TlpBeats` | dwords and packet marks of a beat, shared by both halves of the gearbox | operators |
| `TlpBeatsProofs` | lemmas about lists and about the marks of a beat | proofs |
| `CqSkid` | CQ input registers | component |
| `CqGearbox` | CQ half of the gearbox, on top of `CqSkid` | component |
| `CqGearboxProofs` | theorems about the buffer and the CQ half | proofs |
| `CcGearbox` | CC half of the gearbox | component |
| `CcGearboxProofs` | theorems about it | proofs |
| `RqEngine` | `pcie_versal_if_rq.sv`, with its two ports and the request sink of `cpm5_pcie_device.py` | component and its neighbours |
| `RqEngineProofs` | theorems about it | proofs |
| `RcEngine` | `pcie_versal_if_rc.sv` in the straddled formats | component |
| `RcEngineProofs` | theorems about it | proofs |
| `CsrProbe` | `csr_probe.py`, run again and again on one card | component and its neighbour |
| `CsrProbeProofs` | theorems about it | proofs |
| `Watchdog` | `nia_sim_watchdog.py` | component |
| `RtlLock` | `nia_rtl_lock.py`, any number of runners | component |
| `SimGuardProofs` | theorems about `Watchdog` and `RtlLock` | proofs |
| `MC*` | small instances for TLC | model checking |

Each mapped definition's source lines are in `PROJECT.json`.  Definitions
called *Mutant of X* stand for plausible bugs in X; nothing in a specification
uses them.  Each says which bug of X a property is there to catch.

**MsixAdapt.**  `Idle`, `DropOutOfRange`, `DropDisabled`, `Forward`, `Present`,
`Wait`, `Retry`, `GiveUp`, `Complete` are the branches of the FSM; `Reset` is
the final `if (rst)`, which overrides them.  The five status counters are one
record `sts`, saturating at `StsMax`.  Two history variables, `accepted` and
`shown`, count accept beats and presentations.

**MsixSystem** adds the coroutine's program counter `dev_pc`: it waits for the
clock edge, for the write of a message it is sending, or for the write of one
it drains.  A pass ends in `Drain`, whichever of the four outcomes it had,
because the code's loop body falls through to it.  The host flips enable,
function mask and vector masks between any two edges; the test's
`force_fail_once` hook may be set at any time.  `obliged` is a history: vectors
accepted whose message has not been issued.

**CqGearbox** scales a beat: a dword of the model is the distance between two
positions a start pointer can name, so a half holds two or four of them.  What
the code branches on (how many starts and ends fall in a half, in which slot
order, whether a packet is open where the beat begins) is kept.  Payload, byte
enables, TPH and PASID fields move with the start's slot, so the slot number
stands for them.  A start in the middle of a half with no packet open leaves a
gap before it that a 512-bit beat cannot express: the gearbox forwards the half
and raises `status_error_cq_leading_gap` (lines 379-384 and 770-772).  What the
shim makes of it is not in this tree, so the model has it read nothing of such a
half (`Unreadable`), and `ImplementsStream` excuses that half, and no other,
while the flag is up.  The core may offer such beats in the model; the test of
the gearbox asserts the flag low over the beats that it sends
(`test_pcie_versal_if_cqcc_gearbox.py:174`).  The combinational block is tabulated in `SplitOf`, a constant
function, so that TLC computes each row once.  `owed` is the ledger of dwords
accepted and not yet handed over, with their framing *as the core meant it*
(computed by counting starts and ends), while `split.tokens` is what the shim
reads off the output pins (computed by the code's walk).

**CqSkid** has a history, `accepted`, that knows nothing of where the registers
put a beat: `Handshakes` appends the beat on offer when `s_axis_cq_tready` meets
`tvalid`, and drops the oldest when the output register is valid and taken.
`BeatQueue` is this queue with an output, and demands that the output shows the
oldest beat from the edge on which it is the oldest.  A beat that is accepted and
not stored, stored over another, shown twice or changed breaks it; only `rst`
empties the history.

**TlpBeats** has what both halves and their neighbours need: packets that take
turns (`Alternate`), the neighbours' way of telling whether a dword belongs to
one, by counting (`InPacket`), and the gearbox's, by looking back for the last
mark (`OpenBefore`, `Carries`).

**CcGearbox** takes the width of the shim's beat (`Half`) and the grid on which
the core can mark a start (`SopDw`) as parameters; the shim may mark any dword.
The runs have four dwords on a grid of two.  The shim's own bus is part of the model
(`s_axis_cc` keeps its beat until it is taken), because the
combinational ready depends on the beat on offer.

**RqEngine** counts in units of one descriptor (four dwords).  The module's own
parameter guards leave one geometry, a single segment as wide as the beat, so
its loops over segments run once.  The branches of the combinational block are
actions: `SplitHead` and `SplitTail` (a last segment that reaches into the
beat's top unit needs two beats, and stays in the FIFO for the second),
`WholeSegment`, `NothingGranted`, and `OutputHeld` when the core stalls; each is
one part of `Edge`, with the core's and the ports' part of the same clock edge.
`Reset` keeps what `rst` does not clear: the split flag and the shift register
load on that edge as on any other.  The core is `Cpm5Rq1024Sink`: it reads a
beat by tuser or by tkeep, whichever `RQ_STRADDLE_ENC` says, and its asserts
about framing are `FramingLegal`.  It may return any of the sequence numbers it
holds, at most `TX_SEQ_NUM_COUNT` per edge.  The ports do not reuse a number
that has not come back.  `owed` is again a ledger, one per port, of units pushed
and not yet read by the core.  `edge` alternates, so that every clock edge
changes some variable; weak fairness would otherwise overlook the edges on
which nothing else does.

**RcEngine** keeps two parts of a segment, dwords 0 to 2 and dword 3, since
that is where the code cuts: a completion's first three dwords become a header
beside the data, and every segment that goes out joins the last dword of one
segment to the first three of the next.  `Moved` is what one segment makes with
the one behind it, `Realigned` what the first combinational block makes of a
beat; `Scan` (a fold whose step is `Placed`) and `Slots` are the compaction's
blocks, `Compact` and `Realign` the registers behind each.  What is not valid
is not kept, so the lists hold the valid segments in order; the FIFO reads its
input so, too.  One clock edge is `Edge`: the FIFO's ready is chosen, the core
offers a beat or none, and `Account` settles the ledger `owed`, which counts
units the way the core meant them (`BusUnits`), against what is read off the
slots (`Units`).  The parameter guards of the file leave one or two segments to
a slot, so the carry never holds more than one.  (`pcie_versal_if.sv:284` would
also pass an `RC_FIFO_SEG_COUNT` of 2, which the guard at
`pcie_versal_if_rc.sv:205` refuses.)

**CsrProbe.**  The steps of `main()` are the actions of `Probe`, cut where the
card or another run could see a difference; `Raise` is an exception or Ctrl-C at
any of them.  The card is external and does what the probe's comments say of it:
`Complete` latches a tag and a valid bit, `Consumed` is what any read does to
the valid bit, and in `Poll` a completion may race the read and lose its bit.
`Die` drops the link: reads give ones from then on.  A card keeps its status,
RAM and outstanding descriptors from one run to the next until `Reprogram`.

**Watchdog** is one object with the loops its `guard()` and `start()` create.
Simulated time is `Tick`, which waits for samples that are due, as the
simulator's scheduler does; everything else happens between two ticks in any
order, the token's changes included.  `Hang` stops simulated time for good,
`WallTick` goes on.  The token counts beats or is a function of the user that
may return to an old value; `NoFalseAlarm` is stated for the first kind only,
because a value that comes back between two samples is, by the code's own
definition, no progress.  `calm` is a history: how long the token has really
stood still.  A `guard()` that reports a stall raises before it kills the
coroutine it ran: `orphans` counts those left running, and `EndOrphan` is the end
of one, which may still fail the test.

**RtlLock** has one program counter per runner, from `Call` to `Close`; `Leave`
is an exception or the end of the body, `Die` a kill or the watchdog's
`os._exit`, at any point.  `flock()` is the kernel's: `Freed` lets go of what the
runner's own open file holds and nothing else.  `tree` says whose change a
directory carries; a body puts back what it found.

## 3. Runs

| Run | Instance | Distinct states | Shows |
|---|---|---|---|
| `msix_adapt` | 3 indices, 2 vectors, 2 retries, counters saturate at 4, 5 requests between resets | 7,952 | rules D-1 to D-5 and D-9, return to ready, refinement of `MsixDelivery` |
| `msix_system` | 4 indices, 3 vectors in the adapter but 2 in the core, 1 retry, 3 requests | 204,928 | nothing accepted is lost, answers belong to presentations, deferred vectors drain, requests end |
| `msix_late_drain` | the same, and the drain write may outlast an edge | violation | the finding below |
| `cq_gearbox` | four builds: straddled Versal pointer (89 beats, every legal one), the same pointer on halves of four dwords (beats with many marks or no end), a finer pointer (32 beats with 0, 3 or 4 starts), not straddled (10 beats) | 24,918 | stream in = stream out up to what the gearbox reports, the oldest accepted beat on show, overflow only off the quarter grid, no wedge |
| `cc_gearbox` | every legal straddled beat on the grid, lone starts off the grid, every unstraddled beat | 660 | stream in = stream out up to the reported misalignment, a beat is held only while a packet is open behind it |
| `rq` | beats of 2 units, writes of 1 to 4, 2 sequence numbers per port and 2 returned per edge, FIFOs of 2 segments, both framings | 43,392 | legal framing, each port's TLPs arrive whole and in order, each sequence number comes back once |
| `rq_live` | the same with 1 sequence number per port | 3,232 | a read with credit comes back whatever the writes do; writes go when no read can |
| `rc` | 8 segments in 4 slots, 4 in 4, and 2 not compacted | 82,200 | stream in = stream out up to the FIFO; a completion that arrived whole waits for no other beat |
| `csr_probe` | two runs on one card, waits of two sleeps | 379,928 | a pass on a card as programmed is a round trip, two completed waits leave no DMA on the page, every return restores COMMAND, no completion is missed |
| `csr_second_run` | the same | violation | the second finding below |
| `watchdog` | interval 2, limit 3, two loops, three changes of the token, real-time limit 1 | 813,034 | no false alarm, no stall missed, guards end |
| `rtl_lock` | three runners, directories `a/b` and `a_b` on one lock file, timeout 1 | 57,408 | exclusion, what a runner finds, timed waits end |

**Why the bounds are enough.**  `msix_adapt`: one index outside the table, one
more failure than the retries allow, and a counter that five requests can push
past its top, so both sides of every comparison occur; `MaxIrqs` bounds only
the history `accepted` between two resets, and behaviours go on afterwards in
every other respect.  `msix_system`: two vectors in the core are enough for one
to be deferred while the other is served, the third of the adapter is the one
the core refuses.  `cq_gearbox`: two starts per half and a start at each
quarter are the most the Versal pointer can say, but in a half of two dwords a
third mark has no place whatever the code does: the wide build has four dwords
to a half, starts on every second, and the beats with the most starts and ends.
The fine build exists because the overflow path cannot be reached without it,
and it keeps the beats that matter to it (none, three or four starts).  The input buffer holds two beats, so
`owed` never exceeds two beats.  `cc_gearbox`: at most one beat is held and one
is on offer, and both range over all legal beats; a start off the grid comes
alone because two that are rounded down onto each other leave nothing to
compare.  Starts and ends per 512-bit beat are at most two, as the bus has two
slots.  `rq`: with two units in a beat, writes of one
to four units are one beat, one split beat, two segments, and two with the last
one split, so a split both starts and continues a TLP; longer writes repeat the
middle.  Two numbers per port let two TLPs of a port and the other port's be
under way together, with a segment of the open TLP missing from the FIFO.
`rq_live` needs only one number: what matters there is which port goes first.
`rc`: the build of two segments gets every legal beat; of the wider beats, eight
shapes each that put no end, one end or an end in every segment, early and late,
with and without data behind, so that carries are begun, joined, cut by a start
and closed by an end, and a scan fills one beat of slots or two.  Packets of any
length follow from putting beats together.  `csr_probe`: the first run leaves
whatever it leaves, the second meets it; a third would meet nothing else,
because tags and pattern are constants.  Two sleeps let a wait see the
completion before its first poll, between two, after the last, and never; a busy
host may skip a poll.  `watchdog`: a limit that is no multiple of the interval,
so that the rounding up shows; two loops are enough for one that cannot be
stopped beside one that can, or beside a guard.  `MaxChanges` bounds the
changes, each of which may fall anywhere between two samples.  `rtl_lock`: a
holder, a waiter with a timeout and one without; the two directories share a
lock file because the code builds its name by replacing `/` with `_`.

**Views.**  Both gearbox runs use a `VIEW` that hides what a data register
holds while its valid flag is low, and `rq` one that hides `edge`, which no
safety property reads.  Such a register is read in two ways only: it
is copied with its low flag, and, with the output register empty and
`cq_in_ready_reg` low (after a reset), its leftover decides between `SkidToReg`
and `SkidHold`, which there leave the same flags.  States that differ only in
hidden gearbox data therefore have the same futures as far as every property can see.

**Assumed of the neighbours.**  The core's and the shim's traffic is legal:
packets do not overlap, an end follows its start, a straddled bus marks starts
in order, an unstraddled `tkeep` is full except on the last beat.  The core and
the shim restart with the gearbox on `rst`.

**Fairness.**
- `MsixAdapt!Fairness`: weak fairness of the branches `Idle` and `Present` says
  that the clock runs and that no reset is held for ever; weak fairness of
  `Answered` is the one assumption on the core: a request it is shown is
  answered.  The code has no timeout, so `ReadyAgain` is false without it.
- `SysFairness`: the clock runs and an awaited memory write completes.  That the
  core answers is *not* assumed there: `RequestsEnd` shows the coroutine does.
- `CqSpec`: weak fairness of `Offer(TRUE)`, an edge with the shim ready.  The
  shim stalls as it likes but not for ever; nothing is assumed of the core.
- `RqEngine!Fairness`: again and again there is an edge without reset on which the
  core takes the beat and returns what it holds, and a port that owes the rest
  of a write pushes it if the FIFO has room.  Nothing is assumed of credit; each
  liveness property names the credit it needs.

- `Watchdog!Fairness`: the simulator runs what is ready (`EndGuard`, `Sample`)
  and moves its time unless it hangs; real time passes and the timer's thread
  runs.  The test owes nothing: it may never end and never beat.
- `RtlLock!LockFairness`: a runner that polls goes on polling, and a `finally`
  reaches its end.  How long a body takes is not assumed, so `TimedWaitEnds`
  holds beside a holder that stays for ever.

`CHECK_DEADLOCK FALSE` is said where the system really stops: `MsixSystem` once
`MaxIrqs` indices have been presented and the bound on the history stops further
accepts, `CsrProbe` after `MaxRuns` runs on a dead or idle card, `Watchdog` when
the test failed or its process ended, or time stands still and no timer is
armed, `RtlLock` when every runner is dead.

**Finding** (`csr_second_run`).  The self-test prints that its data went host to
card to host byte-exact, and takes the tag in the status for the evidence.
Tags and pattern are constants, so in a second run on a card that was not
reprogrammed the tag left by the first run ends each wait at once, and the RAM
still holds the first run's pattern.  If the read descriptor then fails or is
late while the write-back works, the comparison passes.  `csr_probe` shows the
other half: on a card as programmed, `FreshPassIsRoundTrip` holds whatever is
late, lost or in error.

**Finding** (`msix_late_drain`).  A test of the adapter states that the core
holds a masked message in its PBA and delivers it later, so that nothing is
lost.  In the model `DevSend` and `Drain` both await a memory write.  After a
send, the pins are written when the await returns; after a drain they are left
as they were before it.  If the drain's write outlasts an edge, `cfg_msix_sent`
of the previous answer is still high when the adapter presents its next
request, the adapter takes it as the answer, and the coroutine never sees the
rise: that vector is neither sent nor in the PBA.  The run `msix_system` shows
that the drain is the only place where this happens: with a send that outlasts
edges and a drain that does not, `NoInterruptLost` holds.

**What two properties of the probe leave out.**  `DmaEndsWithPage` is about runs
whose two waits said completed.  A wait that gives up (`csr_probe.py:142`) lets
the test go on and the page go while its descriptor may still be outstanding, so
the page does not outlive its DMA there; no property covers that path.
`CommandAsFound` is about runs that return.  The tool prints "restored on exit"
(line 202) when it changes COMMAND, and puts it back on each return by hand;
an exception or Ctrl-C in between (`Raise`) puts nothing back and contradicts the
message.  Without its conjunct `~raised` the property fails after two steps:
`enable_decode`, then `Raise`.

## 4. Proofs

| Theorem | States, for every value of the constants |
|---|---|
| `MsixSystemProofs!TypeCorrect` | registers in range, `retry_reg <= RetryLimit` |
| `MsixSystemProofs!EveryAcceptAccounted` | `Conservation` |
| `MsixSystemProofs!RetriesBounded` | `FailuresExplained` |
| `MsixSystemProofs!VectorHeld` | `VectorStable`, an action property |
| `MsixSystemProofs!ImplementsDelivery` | `Implements`: the adapter refines `MsixDelivery` |
| `MsixSystemProofs!SystemRunsAdapter` | `SysSpec => Spec`: the adapter in the system is the adapter |
| `MsixSystemProofs!SystemTypeCorrect` | `SysTypeOK` |
| `MsixSystemProofs!NothingLost` | `NoInterruptLost`, if no drain outlasts an edge |
| `MsixSystemProofs!AnswersBelong` | `AnswersMatch`, if no drain outlasts an edge |
| `CqGearboxProofs!SkidNeverOverrun` | `SkidTypeOK /\ SkidInv` |
| `CqGearboxProofs!SkidIsQueue` | `ImplementsFifo`: the output register shows the oldest beat accepted and not yet passed on, at most two are waiting |
| `CqGearboxProofs!GearboxRunsBuffer` | `CqSpec => SkidSpec`: the gearbox uses the buffer within its promises |
| `CqGearboxProofs!GearboxBufferIsQueue` | `ImplementsFifo` and `SkidInv` for the whole CQ half |
| `CqGearboxProofs!TlastMarksEop` | `LastMarksEop`, for every width of a half |
| `CqGearboxProofs!QuarterGridNeverOverflows` | `QuarterGridFits`: starts a quarter apart never fill a third slot |
| `CqGearboxProofs!CqTypesHold` | `CqTypeOK`, the bound on `owed` included |
| `CqGearboxProofs!CqIsAStream` | `ImplementsStream`: the CQ half refines `TlpStream` |
| `CcGearboxProofs!CcTypesHold` | `CcTypeOK`, the bound on `owed` included |
| `CcGearboxProofs!HoldsOnlyMidPacket` | `HoldsMidPacketOnly` |
| `CcGearboxProofs!CcIsAStream` | `ImplementsStream`: the CC half refines `TlpStream` |
| `RqEngineProofs!TypesKept` | `TypeOK` |
| `RqEngineProofs!FramingNeverBroken` | `FramingLegal`: no beat breaks the core's framing |
| `RqEngineProofs!PortsAreStreams` | `ImplementsStreams`: the engine refines one `TlpStream` per port |
| `RqEngineProofs!NumbersComeBackOnce` | `EverySeqOnce` |
| `RcEngineProofs!KeepsItsAccount` | `OwedIsKept`: what is owed to the FIFO is what the registers keep, unit by unit and in order |
| `RcEngineProofs!FinishedLeaveHolds` | `FinishedLeave` |
| `RcEngineProofs!RcIsAStream` | `ImplementsStream`: the engine refines `TlpStream` |
| `SimGuardProofs!MutualExclusion` | `Exclusion`: two runners are never inside for one directory |
| `SimGuardProofs!OwnChangeOnly` | `NoForeignChange`: inside, no change but one's own or a dead runner's |
| `SimGuardProofs!NoFalseStall` | `NoFalseAlarm`, an action property |
| `SimGuardProofs!StallIsCaught` | `StallCaught`: the token never rests two intervals longer than the limit |
| `CsrProbeProofs!ProbeTypes` | `TypeOK` |
| `CsrProbeProofs!PassOnFreshCard` | `FreshPassIsRoundTrip` |
| `CsrProbeProofs!CommandRestored` | `CommandAsFound`, for runs that return |
| `CsrProbeProofs!NoCompletionMissed` | `PollSeesCompletion`, an action property |
| `CsrProbeProofs!PageOutlivesDma` | `DmaEndsWithPage`, for runs whose two waits said completed |

*Assumptions.*  For the adapter, those named in `MsixAdapt`: indices are
naturals, `NoIrq` is not one of them, at least one vector, one retry and one
count, as the elaboration checks of the module demand.  For the buffer, none.  For the
two halves of the gearbox, `TrafficAssumption` in each module, which TLC checks
of the beats the runs use: a neighbour's packets take turns, marks lie on dwords
the beat has, and an unstraddled beat has at least one dword (in the CC half all
of them, unless it ends its packet).  The CC half also assumes
`WidthAssumption`: the core's grid divides a beat.
For the request engine, those named in `RqEngine`: a beat of more than one unit, as the
width guard of the module demands, writes that have a payload, and at least one
sequence number, and a FIFO depth that is a number.  For the completion engine,
`BuildsAssumption`, the parameter guards of `pcie_versal_if_rc.sv:195-231` as
far as the model has parameters: one or two segments to a slot, any width; and
`BeatsAssumption` of the core's beats: no segment is idle inside a TLP, one starts
only outside, and the first segment of a beat is not idle: the engine's walk over
`tuser` begins inside a TLP (`pcie_versal_if_rc.sv:732`) and would read idle
segments before the first start as valid.  For the lock, `PathsAssumption`: one directory is named in one
way, as the callers' resolved `nia_rtl_root()` gives it; which directories share
a lock file is left open.  For the watchdog, an interval and a limit that are not
zero.  For the probe, `MaxRunsAssumption` and `TimeoutAssumption`: at least one
run, and a wait of at least one sleep.  For the system, the adapter's
and those named in `MsixSystem`; `NothingLost` and `AnswersBelong` assume
besides, in their statements, `"drain" \notin LateWrites`: exactly what the run
`msix_late_drain` shows they need.

*The invariant of the adapter.*  `Conservation` and `FailuresExplained` are not
inductive: from `state_reg = "REQ"` with `mint_valid_reg` low, or with `shown`
out of step with `retry_reg`, one edge breaks them.  `IInv` adds what every
state really satisfies: `PortFollowsState` (each port register is a function of
the FSM state, and a busy adapter holds a vector of the table) and
`ShownOncePerFailure` (`shown` is `retry_reg`, plus one while int_vector is
high).  `FailuresExplained` contains a product with `RetryLimit`; `Retry` moves
a failure from the request in progress to the counter and `GiveUp` closes
`RetryLimit + 1` of them at once, which is the reason for `past` in its
statement.  Each action is one step of the proof, and the refinement is proved
from `IInv'` and `IInv` action by action: `Idle`, `Present` and `Wait` stutter,
`Forward` maps to `Take`, `Retry` to `Refused`, `GiveUp` to `Abandon`, the two
drops to `Discard`.

*The system.*  `SystemRunsAdapter` shows that each step of the system is a step
of the adapter or leaves it alone, which lifts every theorem about the adapter.
What is new in the system is that the coroutine keeps up.  `InStep`: an answer on
the pins, or a send awaited, is for the presentation the adapter is making, and
the coroutine has seen it; a presentation it has not seen yet is still a rise to
it.  `Covered`: what is obliged is in progress or deferred, and a request that is
answered as sent is not obliged any more or is in the PBA.  Together with the
adapter's `PortFollowsState` they are inductive when the drain does not outlast
an edge; when it does, the pins keep an answer while the adapter moves on and the
second conjunct of `InStep` is the one that goes.

*The buffer.*  `SkidInv` is inductive with the types.  Under it, what the two
registers hold (`Held`) is a sequence of at most two beats; `EdgeMovesBeats` does
the case split over which register is full.  `LedgerIsHeld` says that these are
the beats the handshakes have accepted and not yet passed on: `LedgerMoves` is an
edge seen by the handshakes, `EdgeMovesBeats` the same edge seen by the registers,
and `LedgerHolds` puts the two together.  `HeldShows` then has the oldest of them
in the output register, and `SkidIsQueue` maps each edge: one on which a beat is
accepted and the oldest is taken is `Pass`, and so on.

*The gearbox around the buffer.*  `GearboxRunsBuffer` needs only that the
gearbox's ready is a bit.  `TlastMarksEop` needs two facts of the state:
`BusBeatsHeld`, that a valid register holds what the bus sent this build, and
`PhaseInBeat`, that the high half is next only while the beat whose low half has
gone is still in the output register and has a dword in its high half; one line
of the source, `cq_reg_ready`, keeps the second.  `KeptHalves` and `EndOfKept`
then turn both sides of the property into the comparison of tkeep with the half.

*Marks.*  The gearbox walks: a packet is open before a dword if the last mark
below it is a start.  Its neighbours count: more packets have started than
ended.  `WalkCounts` proves the two equal on every beat whose packets take turns,
for any width and number of marks; `AlternateClimbs` and `FirstSoMany` give the
order of the marks that it needs.  A beat's dwords are a list in order, defined
by counting how many come before each; `EnumerationIsInOrder` shows that it is
the only increasing enumeration of the set, so two halves are joined by showing
that the joined list climbs (`InOrderJoined`), and no induction is needed.

*Slots.*  `QuarterGridFits`: a start that is not on a half's first dword is on its
middle one (`GridStart`), so a third start has no place.  Of three ends in a half
the last two close packets that both started inside it (`MarksClimb`), on two
dwords that are not its first: there is only one.

*The CQ stream.*  `StreamInv` adds to `PlainInv` (types, what the registers hold
was sent, the phase) that the packet flag of each register is the one the beat
before it left (`OpenAgrees`), and that `owed` is what the output register still
has to hand over followed by the dwords of the skid register (`OwedIsHeld`).  Two
facts about one beat carry it: `HalvesJoin`, the dwords the shim reads off the two
halves are those the core meant, and `OpenNextIsAfter`, the flag the walk ends
with is the one the core's count ends with.  `KeptInReg` says what a handshake
leaves of the register, `LedgerStep` what it leaves of the ledger,
`EdgeKeepsStream` puts them together over the cases of the buffer, and `OnShow`
shows that the half on the output begins what is owed.  Beats with an overflow
and halves with a leading gap are excused, as in the property;
`QuarterGridNeverOverflows` says that the Versal pointer has no overflow.

*The CC stream.*  `Inv` says that the gearbox and the shim agree on whether a
packet is open (`BusAgrees`) and that the hold register stands for a beat of the
shim, which is owed before the one on offer (`OwedIsHeld`).  `HoldsMidPacketOnly`
follows, because `HeldAs` has the packet open behind the held beat.  `ReadsBoth`
shows that the core reads a merged beat as the two beats one after the other:
marks of the upper one are raised by `Half` (`JoinedLow`, `JoinedHigh`), what is
open below the middle stays open above it, and a full lower beat leaves no gap;
`ReadsOne` does it for a beat that goes out alone.  `MapOnGrid` is where the
pointer weights change: a start on the core's grid keeps its dword, and one that
is not is reported, as the property excuses.

*The request engine.*  `FramingLegal` speaks of one beat; it is kept only
because three other facts are.  `FifosOK`: a segment that does not end its TLP is
full.  `ShiftHeld`: while a TLP is open, the unit shifted out of its last beat is
there, so the next beat has no hole in lane 0.  `FrameOneAhead`: the engine's
`frame_reg` is what the core's frame will be once it has taken the output
register.  From these `SinkCatchesUp` shows that whenever the register can load,
the two frames agree; `StrobesAreARun` that the strobes of the new beat have no
gap; and `LoadedBeat`, which the three actions that load a beat share, that the
facts hold again.  `TypesKept` rests on the same invariant: the segments in the
FIFOs carry legal numbers, so the flagged numbers in the beat and in the core do.

*The request engine's streams.*  `LInv` says what is owed to the core for a port:
the units on show, the one shifted out of the last beat, and the units of the
segments that wait, in this order (`Ledger`).  The last part would be a fold over
the FIFO; `Queued` says instead that there are offsets at which each segment's
units lie (`QueuedMore`, `QueuedHead`).  Three more conjuncts make it inductive:
`Chains`, the waiting segments make whole TLPs up to the one under way on either
side; `SplitHeld`, a split segment is still at the head of its FIFO for its
second beat; `SinkOnPort`, the TLP the core has open is the engine's.
`BeatContinues` reads a new beat as the shifted unit followed by the segment's
units, less the one it shifts out; with it each action of the engine satisfies
`MovesOn`, that units move on and none is lost (`EngineMoves`).  What the ports
push comes behind (`OnePushed`), and `EdgeIsStep` maps the edge to a step or a
stutter of `TlpStream`.

*Sequence numbers.*  `EverySeqOnce` says nothing of which unit carries which
number.  `SInv` does: units up to the end of a TLP have one number and no unit
behind it has the same (`Numbered`), a beat that starts a TLP carries the number
of its first unit (`BeatNamed`), and the core's open TLP has a number of the port
it is open for (`SinkNamed`).  Then a handshake that ends a TLP takes exactly its
number off the port's list (`CoreTakes`), a push adds one that nobody waits for or
that of the TLP under way (`PortKeepsNumbers`), the flag makes numbers of the two
ports differ (`ReturnedAfter`), and the rest is set algebra (`Balance`).

*The completion engine.*  Its lists are joined by `FlattenSeq` and scanned by a
recursive function, of any length.  The proofs get by without the induction
rules of the library: `NatSetInduction` and `SeqSetInduction` state induction
for a *set* (of naturals, of lists) that is closed under the successor or under
`Append`.  With them `FlattenSeq` is shown to be typed, to append and to join
(`FlattenTyped`, `FlattenAppend`, `FlattenConcat`), and so is `AllUnits`.

Its invariant has three parts.  `TypeOK` says besides the types that the carry is
shorter than a slot.  `Framed`: the segments held follow each other, the core's
bus is open if the last of them is, and a stage that is not valid is empty.
`OwedIsKept` is the account: `owed` is the units of the slots on their way out,
of the slots behind them, of the carry, of the realigned segments and of the beat
held, oldest first (`Kept`).  The beat held counts without the part of a segment
that went over to the one before it, unless that one is still there
(`HeldUnits`).  No smaller invariant is inductive: a unit crosses all five on its
way.

Each stage then keeps what it is given.  `MovedUnits`: what a segment makes is
what it carries and what the next one brings.  `AllMoved` and `AllMovedButLast`
add this up over a beat, with or without one behind it, so that `TakesBeat` and
`TakesNothing` account for both branches of `Realign`.  `PlacedKeeps` is one step
of the scan in each of its cases (a slot opened, filled, cut by a start), and
`ScanKeeps` all of them.  `BuildFacts` shows that the slots of `CP_NB` beats are
enough for every segment a scan may meet, so `SlotsAll` can say that none is
cut off, for any width: that is the guard `CP_NSL >= CP_NE`.  `OfferIs` splits
the output into what is on offer and what stays.  `CompactKeeps` and
`NoCompactKeeps` move the front of the chain, `BeatTaken` and `BeatMissed` its
back, and `EdgeMoves` puts an edge together (`KeptMoves` has the brackets of the
joins).  What is on offer is the beginning of what is owed (`InvOfferFirst`),
which maps each edge to a step or a stutter of `TlpStream` (`EdgeIsStep`).
`FinishedLeave` follows from the invariant alone: when the engine is quiet, only
the carry and the beat held have units, and `CarryPlain` and `CarriesPlain` show
that neither has an end.

*The lock.*  `Exclusion` follows from `OwnerInside` (who is past `flock()` owns
the file of its directory), which is inductive because every exit, a kill
included, frees only what the runner itself holds.  `NoForeignChange` also needs
`ChangesOwned`: a change belongs to a runner that is at it or died.  The step
that needs both is `Change`: whoever's living change it could meet would own the
same lock file (`FoundAtChange`).

*The watchdog.*  Neither property is inductive, because neither mentions
`quiet`.  `QuietReal` ties the three clocks together: `quiet` plus the time since
the last sample is at most the time the token has stood still if the last token
is the present one (no false alarm), and at least that time less one interval
(no stall missed); with another token, the change is younger than the last
sample.  Each step that can disturb it has a lemma.

*The probe.*  `Carried` follows the pattern: on a card as programmed it is in
RAM only if this run brought it there, and in the page only if it came back.
`Kept` says where the value that the boot left in COMMAND is: in the register
between two runs, in `cmd_orig` during one.  `Latched`: a status register shows
completions of its own engine only, and keeps that of this run until the run
ends; reads consume the valid bit and not the tag, which is why no wait misses
one.  `Outstanding`: on a card as programmed an engine has at most this run's
descriptor, and until that is done its status does not show the tag and no wait
took it for completed.

*Types of the probe.*  `Counted` ties the number of failed checks to the step the
probe is at, `Commands` says COMMAND and its copies hold its two bits only, and
`Held` what the card, the page and the descriptors can hold.

*Only model-checked.*  Liveness (`ReadyAgain`, `RequestsEnd`,
`DeferredDelivered`, `InputReopens`, `ReadsComeBack`, `WritesGoWhenReadsRest`,
`GuardEnds`, `TimedWaitEnds`): the prover handles neither fairness nor
`ENABLED`.  The two violations are TLC's.  Every safety property of a passing run
is proved.
No module of the project uses a `RECURSIVE` operator.

## 5. Not modelled

- `discontinue`, parity, byte enables, TPH and PASID contents of CQ and CC
  beats: moved with their dword or slot and branched on by nothing.
- `tlast` of merged CC beats: a wire from the input.
- The gearbox bypass and the MSI adapter: no state.
- BAR reads of the MSI-X table and PBA in the core model: read-only views.
- Descriptor fields, byte enables and the case on the TLP type in the request
  engine: the descriptor is one unit.  The credit thresholds: `credit_reg` takes
  any value at any edge.
- Reset of the request engine alone: ports, FIFOs and core restart with it.
- Reset of the adapter while the core model owes an answer: the core model has
  no reset; the test clears its stub by hand.
- The unstraddled and the 64-bit branch of the completion engine, the decoding
  of `tuser` and of descriptor fields, and error mapping: a segment arrives with
  its start and end known, and its header is a name.  The FIFO behind is the
  library's.
- The text of the watchdog's report and its probes; an error of the user's token
  function is one more value of the token.
- The line in the lock file that names its holder: read by people only.
- What the probe prints, its look at the IOMMU, and a host that changes COMMAND
  meanwhile.
- Everything with status `not_modelled` in `PROJECT.json`; what is planned is
  below, the rest is wiring, tool invocation, or external.

## 6. Plan

Order: the most intricate state first, each module with its run, then proofs.

1. *Done*: the MSI-X adapter and its composition with the core model; both
   halves of the gearbox.
2. *Done*: the request engine with its ports and the core's receiver.
3. *Done*: the completion engine, realignment and compaction in one module
   against `TlpStream`, since the two stages share one ready.
4. *Done*: `RtlLock`, `Watchdog` and `CsrProbe`, with proofs.
5. *Done*: proofs of the streams of both halves of the gearbox, of the request
   engine and of the completion engine, and of the return of the sequence numbers.
6. The unstraddled branch of the completion engine.
7. `MsixTlp` and poison from `pcie_versal_if.sv` and `pcie_versal_adapt.sv`:
   one acknowledgement per TLP; what failure means.
8. `ImageGate` from `bin/nia-pcie`: that an image is reported only if this run
   made it, over every leftover of an earlier one.
