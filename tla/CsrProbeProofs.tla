---------------------------- MODULE CsrProbeProofs ----------------------------
(***************************************************************************)
(* Proofs about CsrProbe, for any number of runs and any length of the     *)
(* waits: a pass on a card as programmed is a round trip, COMMAND is left  *)
(* as it was found, no wait misses its descriptor's completion, and a page *)
(* is let go with nothing outstanding once both waits said completed.      *)
(***************************************************************************)
EXTENDS CsrProbe, SequenceTheorems, TLAPS

\* In a run on a card as programmed the pattern is in RAM only if this run
\* brought it there, and in the page's destination only if it came back.
Carried ==
  fresh =>
    /\ ram = "pattern" => loaded = TRUE
    /\ dst = "pattern" => loaded = TRUE /\ returned = TRUE
    /\ result = "pass" => loaded = TRUE /\ returned = TRUE

LEMMA InitCarried == Init => Carried
BY DEF Init, Boot, Carried

\* A descriptor's end: what it moves is the run's own, or foreign.
LEMMA LandCarried ==
  ASSUME Carried, NEW ch \in Channels, NEW ok \in BOOLEAN,
         NEW valid \in BOOLEAN, Land(ch, ok, valid), UNCHANGED <<fresh, result>>
  PROVE  Carried'
<1> SUFFICES ASSUME fresh PROVE Carried'
  BY DEF Carried
<1> DEFINE held == Head(jobs[ch]) = run /\ page # "none"
<1>1. CASE ch = "read" /\ ok /\ held
  BY <1>1 DEF Land, Carried
<1>2. CASE ch = "write" /\ ok /\ held
  BY <1>2 DEF Land, Carried
<1>3. CASE ~(ok /\ held)
  BY <1>3 DEF Land, Carried
<1> QED  BY <1>1, <1>2, <1>3 DEF Channels

LEMMA StepCarried == Carried /\ [Next]_vars => Carried'
<1> SUFFICES ASSUME Carried, [Next]_vars PROVE Carried'
  OBVIOUS
<1> USE DEF cardVars, pageVars, bootVars, doneVars
<1>1. CASE UNCHANGED vars  BY <1>1 DEF vars, Carried
<1>2. ASSUME NEW dma \in BOOLEAN, Begin(dma) PROVE Carried'
  BY <1>2 DEF Begin, Programmed, Carried
<1>3. CASE Start
  BY <1>2, <1>3 DEF Start, NoDevice, EnableDenied, enable_decode
<1>4. ASSUME NEW ch \in Channels, NEW ok \in BOOLEAN, Complete(ch, ok)
      PROVE Carried'
  BY <1>4, LandCarried DEF Complete
<1>5. ASSUME NEW race \in BOOLEAN, NEW ok \in BOOLEAN, Poll(race, ok)
      PROVE Carried'
  <2>1. CASE race /\ Answering
    <3>1. Land(chan, ok, FALSE) /\ UNCHANGED <<fresh, result>>
      BY <1>5, <2>1 DEF Poll
    <3>2. CASE chan \in Channels  BY <3>1, <3>2, LandCarried
    <3>3. CASE chan \notin Channels
      BY <3>1, <3>3 DEF Land, Carried, Channels
    <3> QED  BY <3>2, <3>3
  <2>2. CASE ~(race /\ Answering)
    BY <1>5, <2>2 DEF Poll, Carried
  <2> QED  BY <2>1, <2>2
<1>6. CASE Compare
  BY <1>6 DEF Compare, Same, Carried
<1>7. CASE OpenDenied \/ CheckA \/ FirstCount \/ SkipSelftest \/ Program
           \/ GiveUp \/ Finish \/ Raise \/ Die
  BY <1>7 DEF OpenDenied, CheckA, FirstCount, SkipSelftest, Program, GiveUp,
              Finish, Raise, Die, Carried
<1>8. CASE LockPage \/ Reprogram
  BY <1>8 DEF LockPage, Reprogram, Carried
<1>9. CASE \/ \E clocked \in BOOLEAN : CheckB(clocked)
           \/ \E landed \in BOOLEAN : CheckC(landed)
           \/ \E e \in 0 .. Timeout : Sleep(e)
  BY <1>9 DEF CheckB, CheckC, Sleep, Carried
<1> QED
  BY <1>1, <1>3, <1>4, <1>5, <1>6, <1>7, <1>8, <1>9 DEF Next, Probe, Card

\* csr_probe.py:118, host -> card -> host: on a card as programmed a self-test
\* passes only if this run's pattern went to the card and came back.
THEOREM PassOnFreshCard == Spec => []FreshPassIsRoundTrip
<1>1. Carried => FreshPassIsRoundTrip
  BY DEF Carried, FreshPassIsRoundTrip, PassIsRoundTrip
<1> QED  BY <1>1, InitCarried, StepCarried, PTL DEF Spec

-----------------------------------------------------------------------------
\* During a run cmd_orig is what the boot left, between runs COMMAND is.
Kept ==
  alive /\ ~raised =>
    /\ pc = "off" => command = firmware
    /\ pc # "off" => cmd_orig = firmware

LEMMA StepKept == Kept /\ [Next]_vars => Kept'
<1> SUFFICES ASSUME Kept, [Next]_vars PROVE Kept'
  OBVIOUS
<1> USE DEF probeVars, bootVars, Return, GoTo, pci_command
<1>1. CASE UNCHANGED vars  BY <1>1 DEF vars, Kept
<1>2. CASE Start
  <2>1. ASSUME NEW dma \in BOOLEAN, NoDevice(dma) \/ EnableDenied(dma)
        PROVE Kept'
    BY <2>1 DEF NoDevice, EnableDenied, Begin, Kept
  <2>2. ASSUME NEW dma \in BOOLEAN, NEW sticks \in BOOLEAN,
               enable_decode(dma, sticks)
        PROVE Kept'
    <3>1. /\ pc = "off" /\ pc' = "open" /\ cmd_orig' = command
          /\ UNCHANGED <<alive, raised, firmware>>
      BY <2>2 DEF enable_decode, Begin
    <3> QED  BY <3>1 DEF Kept
  <2> QED  BY <1>2, <2>1, <2>2 DEF Start
<1>3. ASSUME NEW ch \in Channels, NEW ok \in BOOLEAN, Complete(ch, ok)
      PROVE Kept'
  BY <1>3 DEF Complete, Kept
<1>4. ASSUME NEW race \in BOOLEAN, NEW ok \in BOOLEAN, Poll(race, ok)
      PROVE Kept'
  BY <1>4 DEF Poll, EndWait, Kept
<1>5. CASE OpenDenied \/ Finish
  BY <1>5 DEF OpenDenied, Finish, Kept
<1>6. CASE CheckA \/ FirstCount \/ SkipSelftest \/ LockPage \/ Program
           \/ GiveUp \/ Compare
  BY <1>6 DEF CheckA, FirstCount, SkipSelftest, LockPage, Program, GiveUp,
              EndWait, Compare, Kept
<1>7. CASE Raise \/ Die \/ Reprogram
  BY <1>7 DEF Raise, Die, Reprogram, Kept
<1>8. CASE \/ \E clocked \in BOOLEAN : CheckB(clocked)
           \/ \E landed \in BOOLEAN : CheckC(landed)
           \/ \E e \in 0 .. Timeout : Sleep(e)
  BY <1>8 DEF CheckB, CheckC, Sleep, Kept
<1> QED  BY <1>1, <1>2, <1>3, <1>4, <1>5, <1>6, <1>7, <1>8 DEF Next, Probe, Card

\* csr_probe.py:202, restored on exit: COMMAND is what the boot left after
\* every return of main(), whatever the card did, as long as no run ended in
\* an exception.
THEOREM CommandRestored == Spec => []CommandAsFound
<1>1. Init => Kept  BY DEF Init, Boot, Kept
<1>2. Kept => CommandAsFound  BY DEF Kept, CommandAsFound
<1> QED  BY <1>1, <1>2, StepKept, PTL DEF Spec

-----------------------------------------------------------------------------
\* The types of what the waits look at.
StatusTyped ==
  /\ status = [c \in Channels |-> status[c]]
  /\ \A c \in Channels : status[c] = [valid |-> status[c].valid,
                                     tag   |-> status[c].tag,
                                     err   |-> status[c].err]

Sayings == {"nothing", "completed", "gave up"}

ProbeTyped ==
  /\ chan \in Channels
  /\ jobs \in [Channels -> Seq(Nat)] /\ told \in [Channels -> Sayings]
  /\ run \in Nat

LEMMA InitTyped == Init => StatusTyped /\ ProbeTyped
<1>1. Init => StatusTyped
  BY DEF Init, Boot, Blank, StatusTyped
<1>2. Init => ProbeTyped
  <2> SUFFICES ASSUME Init PROVE ProbeTyped
    OBVIOUS
  <2>1. chan \in Channels /\ run \in Nat  BY DEF Init, Channels
  <2>2. jobs \in [Channels -> Seq(Nat)]
    <3>1. jobs = [ch \in Channels |-> <<>>]  BY DEF Init, Boot
    <3> QED  BY <3>1
  <2>3. told \in [Channels -> Sayings]  BY DEF Init, Sayings
  <2> QED  BY <2>1, <2>2, <2>3 DEF ProbeTyped
<1> QED  BY <1>1, <1>2

\* What the two writers of a status register do to it.
LEMMA LandStatus ==
  ASSUME StatusTyped, NEW ch \in Channels, NEW ok \in BOOLEAN,
         NEW valid \in BOOLEAN, Land(ch, ok, valid)
  PROVE  /\ StatusTyped'
         /\ status'[ch].tag = ch
         /\ \A c \in Channels \ {ch} : status'[c] = status[c]
BY DEF Land, StatusTyped, Channels

LEMMA ConsumedStatus ==
  ASSUME StatusTyped, NEW ch \in Channels, Consumed(ch)
  PROVE  /\ StatusTyped'
         /\ \A c \in Channels : /\ status'[c].tag = status[c].tag
                                /\ status'[c].valid => status[c].valid
<1>1. CASE Answering
  <2>1. status' = [status EXCEPT ![ch].valid = FALSE]
    BY <1>1 DEF Consumed
  <2>2. status'[ch] = [status[ch] EXCEPT !.valid = FALSE]
    BY <2>1 DEF StatusTyped
  <2>3. status'[ch] = [valid |-> FALSE, tag |-> status[ch].tag,
                       err |-> status[ch].err]
    BY <2>2 DEF StatusTyped
  <2>4. \A c \in Channels \ {ch} : status'[c] = status[c]
    BY <2>1 DEF StatusTyped
  <2>5. status' = [c \in Channels |-> status'[c]]
    BY <2>1 DEF StatusTyped
  <2>6. StatusTyped'  BY <2>3, <2>4, <2>5 DEF StatusTyped
  <2> QED  BY <2>3, <2>4, <2>6
<1>2. CASE ~Answering
  BY <1>2 DEF Consumed, StatusTyped
<1> QED  BY <1>1, <1>2

LEMMA BlankStatus ==
  ASSUME status' = [ch \in Channels |-> Blank]
  PROVE  /\ StatusTyped'
         /\ \A c \in Channels : status'[c].tag = "none" /\ ~status'[c].valid
BY DEF Blank, StatusTyped, Channels

LEMMA StepTyped == StatusTyped /\ ProbeTyped /\ [Next]_vars
                     => StatusTyped' /\ ProbeTyped'
<1> SUFFICES ASSUME StatusTyped, ProbeTyped, [Next]_vars
             PROVE  StatusTyped' /\ ProbeTyped'
  OBVIOUS
<1> USE DEF probeVars, cardVars, pageVars, bootVars
<1>1. CASE UNCHANGED vars  BY <1>1 DEF vars, StatusTyped, ProbeTyped
<1>2. ASSUME NEW dma \in BOOLEAN, Begin(dma)
      PROVE StatusTyped' /\ ProbeTyped'
  <2>1. chan' \in Channels /\ run' \in Nat
    BY <1>2 DEF Begin, ProbeTyped, Channels
  <2>2. told' \in [Channels -> Sayings]
    <3>1. told' = [ch \in Channels |-> "nothing"]  BY <1>2 DEF Begin
    <3> QED  BY <3>1 DEF Sayings
  <2>3. UNCHANGED <<status, jobs>>  BY <1>2 DEF Begin
  <2> QED  BY <2>1, <2>2, <2>3 DEF StatusTyped, ProbeTyped
<1>3. CASE Start
  BY <1>2, <1>3 DEF Start, NoDevice, EnableDenied, enable_decode
<1>4. ASSUME NEW ch \in Channels, NEW ok \in BOOLEAN, NEW valid \in BOOLEAN,
             Land(ch, ok, valid)
      PROVE  StatusTyped' /\ jobs' \in [Channels -> Seq(Nat)]
  <2>1. jobs' = [jobs EXCEPT ![ch] = Tail(@)] /\ jobs[ch] # <<>>
    BY <1>4 DEF Land
  <2>2. jobs[ch] \in Seq(Nat)  BY DEF ProbeTyped
  <2>3. Tail(jobs[ch]) \in Seq(Nat)  BY <2>1, <2>2
  <2> QED  BY <1>4, <2>1, <2>3, LandStatus DEF ProbeTyped
<1>5. ASSUME NEW ch \in Channels, NEW ok \in BOOLEAN, Complete(ch, ok)
      PROVE StatusTyped' /\ ProbeTyped'
  BY <1>4, <1>5 DEF Complete, ProbeTyped
<1>6. ASSUME NEW saying \in Sayings, EndWait(saying)
      PROVE chan' \in Channels /\ told' \in [Channels -> Sayings]
  BY <1>6 DEF EndWait, ProbeTyped, Channels
<1>7. ASSUME NEW race \in BOOLEAN, NEW ok \in BOOLEAN, Poll(race, ok)
      PROVE StatusTyped' /\ ProbeTyped'
  <2>1. StatusTyped' /\ jobs' \in [Channels -> Seq(Nat)]
    <3>1. CASE race /\ Answering
      BY <1>4, <1>7, <3>1 DEF Poll, ProbeTyped
    <3>2. CASE ~(race /\ Answering)
      BY <1>7, <3>2, ConsumedStatus DEF Poll, ProbeTyped
    <3> QED  BY <3>1, <3>2
  <2>2. chan' \in Channels /\ told' \in [Channels -> Sayings]
    <3>1. CASE Accepted(Seen(chan))
      <4>1. EndWait("completed") /\ "completed" \in Sayings
        BY <1>7, <3>1 DEF Poll, Sayings
      <4> QED  BY <1>6, <4>1
    <3>2. CASE ~Accepted(Seen(chan))
      BY <1>7, <3>2 DEF Poll, ProbeTyped
    <3> QED  BY <3>1, <3>2
  <2>3. run' = run  BY <1>7 DEF Poll
  <2> QED  BY <2>1, <2>2, <2>3 DEF ProbeTyped
<1>8. CASE CheckA
  BY <1>8, ConsumedStatus DEF CheckA, ProbeTyped, Channels
<1>9. CASE GiveUp
  <2>1. EndWait("gave up") /\ "gave up" \in Sayings
    BY <1>9 DEF GiveUp, Sayings
  <2>2. StatusTyped' /\ UNCHANGED <<jobs, run>>
    BY <1>9, ConsumedStatus DEF GiveUp, ProbeTyped
  <2> QED  BY <1>6, <2>1, <2>2 DEF ProbeTyped
<1>10. CASE Program
  <2>1. Append(jobs[chan], run) \in Seq(Nat)  BY DEF ProbeTyped
  <2> QED  BY <1>10, <2>1 DEF Program, ProbeTyped, StatusTyped
<1>11. CASE Die \/ Reprogram
  <2>1. jobs' = [ch \in Channels |-> <<>>]
    BY <1>11 DEF Die, Reprogram
  <2>2. jobs' \in [Channels -> Seq(Nat)]  BY <2>1
  <2>3. UNCHANGED <<chan, told, run>>  BY <1>11 DEF Die, Reprogram
  <2>4. StatusTyped'
    BY <1>11, BlankStatus DEF Die, Reprogram, StatusTyped
  <2> QED  BY <2>2, <2>3, <2>4 DEF ProbeTyped
<1>12. CASE OpenDenied \/ FirstCount \/ SkipSelftest \/ LockPage \/ Compare
            \/ Finish \/ Raise
  BY <1>12 DEF OpenDenied, FirstCount, SkipSelftest, LockPage, Compare,
               Finish, Raise, StatusTyped, ProbeTyped, Channels
<1>13. CASE \/ \E clocked \in BOOLEAN : CheckB(clocked)
            \/ \E landed \in BOOLEAN : CheckC(landed)
            \/ \E e \in 0 .. Timeout : Sleep(e)
  BY <1>13 DEF CheckB, CheckC, Sleep, StatusTyped, ProbeTyped
<1> QED  BY <1>1, <1>3, <1>5, <1>7, <1>8, <1>9, <1>10, <1>11, <1>12, <1>13
            DEF Next, Probe, Card

-----------------------------------------------------------------------------
(***************************************************************************)
(* A status register holds nothing but completions of its own engine, and  *)
(* a completion of this run stays readable in it until the run ends.       *)
(***************************************************************************)
Latched ==
  /\ \A ch \in Channels : status[ch].valid => status[ch].tag = ch
  /\ pc # "off" => \A ch \in Channels : ch \in done => status[ch].tag = ch

(***************************************************************************)
(* On a card as programmed an engine has at most this run's descriptor;    *)
(* until that is done its status does not show the tag, and no wait took   *)
(* it for completed.                                                       *)
(***************************************************************************)
NotYet(ch) ==
  \/ pc \in {"open", "B0", "B1", "C", "page"}
  \/ pc = "desc" /\ (ch = chan \/ chan = "read")
  \/ pc \in {"poll", "sleep"} /\ chan = "read" /\ ch = "write"

Untouched(ch) ==
  jobs[ch] = <<>> /\ status[ch].tag # ch /\ told[ch] = "nothing"

Pending(ch) ==
  /\ Len(jobs[ch]) = 1 /\ status[ch].tag # ch
  /\ told[ch] # "completed"
  /\ pc \in {"poll", "sleep"} /\ chan = ch => "MEM" \in command

Outstanding ==
  /\ ~alive => \A ch \in Channels : jobs[ch] = <<>>
  /\ fresh => \A ch \in Channels :
                /\ NotYet(ch) => Untouched(ch)
                /\ jobs[ch] # <<>> => Pending(ch)

LEMMA LatchedStep ==
  ASSUME StatusTyped, ProbeTyped, Latched, [Next]_vars
  PROVE  Latched'
<1> USE DEF cardVars, pageVars, bootVars, doneVars, GoTo, Return
<1>1. CASE UNCHANGED vars  BY <1>1 DEF vars, probeVars, Latched
<1>2. CASE Start
  <2>1. ASSUME NEW dma \in BOOLEAN, Begin(dma) PROVE Latched'
    BY <2>1 DEF Begin, Latched
  <2> QED  BY <1>2, <2>1 DEF Start, NoDevice, EnableDenied, enable_decode
<1>3. ASSUME NEW ch \in Channels, NEW ok \in BOOLEAN, NEW valid \in BOOLEAN,
             Land(ch, ok, valid), pc' # "off" => pc # "off"
      PROVE  Latched'
  <2>1. /\ status'[ch].tag = ch
        /\ \A c \in Channels \ {ch} : status'[c] = status[c]
    BY <1>3, LandStatus
  <2>2. done' \subseteq done \cup {ch}  BY <1>3 DEF Land
  <2> QED  BY <1>3, <2>1, <2>2 DEF Latched
<1>4. ASSUME NEW ch \in Channels, Consumed(ch), done' = done,
             pc' # "off" => pc # "off"
      PROVE  Latched'
  <2>1. \A c \in Channels : /\ status'[c].tag = status[c].tag
                            /\ status'[c].valid => status[c].valid
    BY <1>4, ConsumedStatus
  <2> QED  BY <1>4, <2>1 DEF Latched
<1>5. ASSUME NEW ch \in Channels, NEW ok \in BOOLEAN, Complete(ch, ok)
      PROVE Latched'
  BY <1>3, <1>5 DEF Complete, probeVars
<1>6. ASSUME NEW race \in BOOLEAN, NEW ok \in BOOLEAN, Poll(race, ok)
      PROVE Latched'
  <2>1. pc # "off" /\ chan \in Channels  BY <1>6 DEF Poll, ProbeTyped
  <2> QED  BY <1>3, <1>4, <1>6, <2>1 DEF Poll
<1>7. CASE CheckA  BY <1>4, <1>7 DEF CheckA, Channels
<1>8. CASE GiveUp  BY <1>4, <1>8 DEF GiveUp, ProbeTyped
<1>9. CASE Reprogram
  BY <1>9, BlankStatus DEF Reprogram, probeVars, Latched
<1>10. CASE OpenDenied \/ FirstCount \/ SkipSelftest \/ LockPage \/ Program
            \/ Compare \/ Finish \/ Raise \/ Die
  BY <1>10 DEF OpenDenied, FirstCount, SkipSelftest, LockPage, Program,
               Compare, Finish, Raise, Die, probeVars, Latched
<1>11. CASE \/ \E clocked \in BOOLEAN : CheckB(clocked)
            \/ \E landed \in BOOLEAN : CheckC(landed)
            \/ \E e \in 0 .. Timeout : Sleep(e)
  BY <1>11 DEF CheckB, CheckC, Sleep, Latched
<1> QED  BY <1>1, <1>2, <1>5, <1>6, <1>7, <1>8, <1>9, <1>10, <1>11
            DEF Next, Probe, Card

LEMMA InitLatched == Init => Latched
BY DEF Init, Boot, Blank, Latched, Channels

\* The conjunction of the above is an invariant.
LEMMA LatchedAlways == Spec => [](StatusTyped /\ ProbeTyped /\ Latched)
<1>1. Init => StatusTyped /\ ProbeTyped /\ Latched
  BY InitTyped, InitLatched
<1>2. StatusTyped /\ ProbeTyped /\ Latched /\ [Next]_vars
        => StatusTyped' /\ ProbeTyped' /\ Latched'
  BY StepTyped, LatchedStep
<1> QED  BY <1>1, <1>2, PTL DEF Spec

\* csr_probe.py:138, the valid bit consumed by an earlier read: a poll that
\* comes after the completion does not miss it.
THEOREM NoCompletionMissed == Spec => PollSeesCompletion
<1> DEFINE Sees == pc = "poll" /\ pc' = "sleep" /\ Answering
                     => chan \notin done
<1>1. ProbeTyped /\ Latched /\ [Next]_vars => [Sees]_vars
  <2> SUFFICES ASSUME ProbeTyped, Latched, Next,
                      pc = "poll", pc' = "sleep", Answering, chan \in done
               PROVE  FALSE
    OBVIOUS
  <2>1. status[chan].tag = chan  BY DEF Latched, ProbeTyped
  <2>2. ASSUME NEW race \in BOOLEAN, NEW ok \in BOOLEAN, Poll(race, ok)
        PROVE FALSE
    BY <2>1, <2>2 DEF Poll, Seen, Accepted, EndWait
  <2>3. ~Start  BY DEF Start, NoDevice, EnableDenied, enable_decode, Begin
  <2>4. ~Card  BY DEF Card, Complete, Die, Reprogram, probeVars
  <2>5. ~Raise  BY DEF Raise, Return
  <2> QED
    BY <2>2, <2>3, <2>4, <2>5
       DEF Next, Probe, OpenDenied, CheckA, FirstCount, CheckB, CheckC,
           SkipSelftest, LockPage, Program, Sleep, GiveUp, Compare, Finish,
           GoTo, Return
<1> QED  BY <1>1, LatchedAlways, PTL DEF Spec, PollSeesCompletion

\* An engine that ends its only descriptor has none.
LEMMA LandJobs ==
  ASSUME ProbeTyped, NEW ch \in Channels, NEW ok \in BOOLEAN,
         NEW valid \in BOOLEAN, Land(ch, ok, valid)
  PROVE  /\ alive /\ jobs[ch] # <<>>
         /\ Len(jobs[ch]) = 1 => jobs'[ch] = <<>>
         /\ \A c \in Channels \ {ch} : jobs'[c] = jobs[c]
<1>1. jobs' = [jobs EXCEPT ![ch] = Tail(@)] /\ alive /\ jobs[ch] # <<>>
  BY DEF Land
<1>2. jobs[ch] \in Seq(Nat)  BY DEF ProbeTyped
<1>3. Len(jobs[ch]) = 1 => Tail(jobs[ch]) = <<>>
  <2>1. Tail(jobs[ch]) \in Seq(Nat) /\ Len(Tail(jobs[ch])) = Len(jobs[ch]) - 1
    BY <1>1, <1>2, HeadTailProperties
  <2>2. Tail(jobs[ch]) # <<>> => Len(Tail(jobs[ch])) \in Nat \ {0}
    BY <2>1, EmptySeq
  <2>3. Len(jobs[ch]) = 1 => Len(Tail(jobs[ch])) = 0  BY <2>1
  <2>4. 0 \notin Nat \ {0}  OBVIOUS
  <2> QED  BY <2>2, <2>3, <2>4
<1> QED  BY <1>1, <1>3 DEF ProbeTyped

\* A step that leaves the engines alone keeps what is outstanding, if no wait
\* ends by it and no engine is told to start again.
LEMMA StillOutstanding ==
  ASSUME Outstanding,
         UNCHANGED <<jobs, alive, fresh, told>>,
         \A c \in Channels : status'[c].tag = status[c].tag,
         \A c \in Channels : NotYet(c)' => NotYet(c),
         \/ pc' \notin {"poll", "sleep"}
         \/ pc \in {"poll", "sleep"} /\ UNCHANGED <<chan, command>>
  PROVE  Outstanding'
BY DEF Outstanding, Untouched, Pending

\* The end of a descriptor.
LEMMA LandOutstanding ==
  ASSUME StatusTyped, ProbeTyped, Outstanding,
         NEW ch \in Channels, NEW ok \in BOOLEAN, NEW valid \in BOOLEAN,
         Land(ch, ok, valid), UNCHANGED <<alive, fresh, pc, chan, told, command>>
  PROVE  Outstanding'
<1>1. alive /\ jobs[ch] # <<>>  BY LandJobs
<1>2. ASSUME fresh, NEW c \in Channels
      PROVE  /\ NotYet(c)' => Untouched(c)'
             /\ jobs'[c] # <<>> => Pending(c)'
  <2>1. CASE c = ch
    <3>1. Len(jobs[ch]) = 1 /\ ~NotYet(ch)
      BY <1>1, <1>2 DEF Outstanding, Untouched, Pending
    <3>2. jobs'[c] = <<>> /\ ~NotYet(c)'
      BY <2>1, <3>1, LandJobs DEF NotYet
    <3> QED  BY <3>2
  <2>2. CASE c # ch
    <3>1. jobs'[c] = jobs[c] /\ status'[c] = status[c]
      BY <2>2, LandJobs, LandStatus
    <3> QED  BY <1>2, <3>1 DEF Outstanding, NotYet, Untouched, Pending
  <2> QED  BY <2>1, <2>2
<1> QED  BY <1>1, <1>2 DEF Outstanding

\* The end of a wait, which says completed only of an engine that is done.
LEMMA EndWaitOutstanding ==
  ASSUME ProbeTyped, Outstanding, NEW saying \in Sayings, EndWait(saying),
         pc \in {"poll", "sleep"}, UNCHANGED <<alive, fresh, command>>,
         \A c \in Channels \ {chan} :
           jobs'[c] = jobs[c] /\ status'[c].tag = status[c].tag,
         \/ jobs'[chan] = <<>>
         \/ /\ saying # "completed" /\ jobs'[chan] = jobs[chan]
            /\ status'[chan].tag = status[chan].tag
  PROVE  Outstanding'
<1>1. /\ told'[chan] = saying
      /\ \A c \in Channels \ {chan} : told'[c] = told[c]
      /\ pc' \in {"desc", "compare"} /\ chan' = "write"
      /\ pc' = "desc" => chan = "read"
  BY DEF EndWait, ProbeTyped
<1>2. ~alive' => \A c \in Channels : jobs'[c] = <<>>
  BY DEF Outstanding, ProbeTyped
<1>3. ASSUME fresh, NEW c \in Channels
      PROVE  /\ NotYet(c)' => Untouched(c)'
             /\ jobs'[c] # <<>> => Pending(c)'
  <2>1. CASE c = chan
    <3>1. ~NotYet(c)'  BY <1>1, <2>1 DEF NotYet, Channels
    <3>2. jobs'[c] # <<>> => Pending(c)'
      BY <1>1, <1>3, <2>1 DEF Outstanding, Pending, ProbeTyped
    <3> QED  BY <3>1, <3>2
  <2>2. CASE c # chan
    <3>1. NotYet(c)' => NotYet(c)
      BY <1>1, <2>2, <1>3 DEF NotYet, Channels
    <3>2. jobs'[c] = jobs[c] /\ status'[c].tag = status[c].tag
            /\ told'[c] = told[c]
      BY <1>1, <2>2
    <3> QED
      BY <1>1, <1>3, <3>1, <3>2 DEF Outstanding, Untouched, Pending
  <2> QED  BY <2>1, <2>2
<1> QED  BY <1>2, <1>3 DEF Outstanding

\* A descriptor starts: its engine was left alone until now.
LEMMA ProgramOutstanding ==
  ASSUME ProbeTyped, Outstanding, Program
  PROVE  Outstanding'
<1>1. /\ pc = "desc" /\ pc' = "poll" /\ chan \in Channels
      /\ UNCHANGED <<alive, fresh, command, chan, status, told>>
  BY DEF Program, GoTo, bootVars, ProbeTyped
<1>2. \A c \in Channels \ {chan} : jobs'[c] = jobs[c]
  BY DEF Program, ProbeTyped
<1>3. jobs'[chan] = IF Answering THEN Append(jobs[chan], run) ELSE jobs[chan]
  BY <1>1 DEF Program, ProbeTyped
<1>4. ~alive' => \A c \in Channels : jobs'[c] = <<>>
  BY <1>1, <1>2, <1>3 DEF Outstanding, Answering
<1>5. ASSUME fresh, NEW c \in Channels
      PROVE  /\ NotYet(c)' => Untouched(c)'
             /\ jobs'[c] # <<>> => Pending(c)'
  <2>1. CASE c = chan
    <3>1. Untouched(c)
      BY <1>1, <1>5, <2>1 DEF Outstanding, NotYet
    <3>2. ~NotYet(c)'
      BY <1>1, <2>1 DEF NotYet
    <3>3. ASSUME jobs'[c] # <<>> PROVE Pending(c)'
      <4>1. Answering /\ jobs'[c] = Append(<<>>, run)
        BY <1>3, <2>1, <3>1, <3>3 DEF Untouched
      <4>2. Len(jobs'[c]) = 1  BY <4>1 DEF ProbeTyped
      <4> QED
        BY <1>1, <3>1, <4>1, <4>2 DEF Pending, Untouched, Answering
    <3> QED  BY <3>2, <3>3
  <2>2. CASE c # chan
    <3>1. NotYet(c)' => NotYet(c)
      BY <1>1, <2>2 DEF NotYet, Channels
    <3>2. jobs'[c] = jobs[c]  BY <1>2, <2>2
    <3> QED
      BY <1>1, <1>5, <2>2, <3>1, <3>2 DEF Outstanding, Untouched, Pending
  <2> QED  BY <2>1, <2>2
<1> QED  BY <1>1, <1>4, <1>5 DEF Outstanding

\* A poll ends the wait only if its engine is done, or gone.
LEMMA PollOutstanding ==
  ASSUME StatusTyped, ProbeTyped, Latched, Outstanding,
         NEW race \in BOOLEAN, NEW ok \in BOOLEAN, Poll(race, ok)
  PROVE  Outstanding'
<1>1. /\ pc = "poll" /\ chan \in Channels
      /\ UNCHANGED <<alive, fresh, command>>
  BY DEF Poll, ProbeTyped, bootVars
<1>2. CASE race /\ Answering
  <2>1. Land(chan, ok, FALSE)  BY <1>2 DEF Poll
  <2>2. \A c \in Channels \ {chan} :
          jobs'[c] = jobs[c] /\ status'[c].tag = status[c].tag
    BY <1>1, <2>1, LandJobs, LandStatus
  <2>3. fresh => jobs'[chan] = <<>>
    BY <1>1, <2>1, LandJobs DEF Outstanding, Pending
  <2>4. alive /\ alive'  BY <1>1, <2>1, LandJobs
  <2>5. CASE ~fresh  BY <1>1, <2>4, <2>5 DEF Outstanding
  <2>6. CASE fresh /\ Accepted(Seen(chan))
    <3>1. EndWait("completed") /\ "completed" \in Sayings
      BY <2>6 DEF Poll, Sayings
    <3> QED  BY <1>1, <2>2, <2>3, <2>6, <3>1, EndWaitOutstanding
  <2>7. CASE fresh /\ ~Accepted(Seen(chan))
    <3>1. pc' = "sleep" /\ UNCHANGED <<told, chan>>
      BY <2>7 DEF Poll
    <3>2. \A c \in Channels : NotYet(c)' => NotYet(c) /\ c # chan
      BY <1>1, <3>1 DEF NotYet
    <3>3. ASSUME NEW c \in Channels, c # chan
          PROVE  /\ NotYet(c)' => Untouched(c)'
                 /\ jobs'[c] # <<>> => Pending(c)'
      BY <1>1, <2>2, <2>7, <3>1, <3>2, <3>3
         DEF Outstanding, Untouched, Pending
    <3> QED  BY <1>1, <2>3, <2>4, <2>7, <3>2, <3>3 DEF Outstanding
  <2> QED  BY <2>5, <2>6, <2>7
<1>3. CASE ~(race /\ Answering)
  <2>1. Consumed(chan) /\ jobs' = jobs  BY <1>3 DEF Poll
  <2>2. \A c \in Channels : status'[c].tag = status[c].tag
    BY <1>1, <2>1, ConsumedStatus
  <2>3. CASE Accepted(Seen(chan))
    <3>1. EndWait("completed") /\ "completed" \in Sayings
      BY <2>3 DEF Poll, Sayings
    <3>2. fresh => jobs[chan] = <<>>
      <4> SUFFICES ASSUME fresh, jobs[chan] # <<>> PROVE FALSE
        OBVIOUS
      <4>1. alive /\ Pending(chan)  BY <1>1 DEF Outstanding
      <4>2. Answering  BY <1>1, <4>1 DEF Pending, Answering
      <4>3. status[chan].tag = chan
        BY <1>1, <2>3, <4>2 DEF Accepted, Seen, Latched
      <4> QED  BY <4>1, <4>3 DEF Pending
    <3>3. CASE fresh
      BY <1>1, <2>1, <2>2, <3>1, <3>2, <3>3, EndWaitOutstanding
    <3>4. CASE ~fresh
      BY <1>1, <2>1, <3>4 DEF Outstanding
    <3> QED  BY <3>3, <3>4
  <2>4. CASE ~Accepted(Seen(chan))
    <3>1. pc' = "sleep" /\ UNCHANGED <<told, chan>>
      BY <2>4 DEF Poll
    <3>2. \A c \in Channels : NotYet(c)' => NotYet(c)
      BY <1>1, <3>1 DEF NotYet
    <3> QED  BY <1>1, <2>1, <2>2, <3>1, <3>2, StillOutstanding
  <2> QED  BY <2>3, <2>4
<1> QED  BY <1>2, <1>3

LEMMA OutstandingStep ==
  ASSUME StatusTyped, ProbeTyped, Latched, Outstanding, [Next]_vars
  PROVE  Outstanding'
<1> USE DEF probeVars, cardVars, pageVars, bootVars, GoTo, Return
<1>1. CASE UNCHANGED vars
  BY <1>1 DEF vars, Outstanding, NotYet, Untouched, Pending
<1>2. CASE Start
  <2>1. ASSUME NEW dma \in BOOLEAN, Begin(dma), pc' \in {"off", "open"}
        PROVE Outstanding'
    <3>1. told' = [c \in Channels |-> "nothing"]
            /\ UNCHANGED <<status, jobs, alive>> /\ fresh' = Programmed
      BY <2>1 DEF Begin
    <3> QED  BY <2>1, <3>1 DEF Programmed, Outstanding, Untouched, Pending
  <2> QED  BY <1>2, <2>1 DEF Start, NoDevice, EnableDenied, enable_decode
<1>3. ASSUME NEW ch \in Channels, NEW ok \in BOOLEAN, Complete(ch, ok)
      PROVE Outstanding'
  BY <1>3, LandOutstanding DEF Complete
<1>4. ASSUME NEW race \in BOOLEAN, NEW ok \in BOOLEAN, Poll(race, ok)
      PROVE Outstanding'
  BY <1>4, PollOutstanding
<1>5. CASE Program  BY <1>5, ProgramOutstanding
<1>6. CASE GiveUp
  <2>1. EndWait("gave up") /\ "gave up" \in Sayings
    BY <1>6 DEF GiveUp, Sayings
  <2>2. /\ pc = "sleep" /\ chan \in Channels /\ jobs' = jobs
        /\ UNCHANGED <<alive, fresh, command>>
    BY <1>6 DEF GiveUp, ProbeTyped
  <2>3. \A c \in Channels : status'[c].tag = status[c].tag
    BY <1>6, <2>2, ConsumedStatus DEF GiveUp
  <2> QED  BY <2>1, <2>2, <2>3, EndWaitOutstanding
<1>7. CASE CheckA
  <2>1. \A c \in Channels : status'[c].tag = status[c].tag
    BY <1>7, ConsumedStatus DEF CheckA, Channels
  <2> QED  BY <1>7, <2>1, StillOutstanding DEF CheckA, NotYet
<1>8. CASE Die
  BY <1>8 DEF Die, Outstanding, NotYet, Untouched
<1>9. CASE Reprogram
  BY <1>9 DEF Reprogram, Outstanding, NotYet
<1>10. CASE OpenDenied \/ FirstCount \/ SkipSelftest \/ LockPage \/ Compare
            \/ Finish \/ Raise
  BY <1>10, StillOutstanding
     DEF OpenDenied, FirstCount, SkipSelftest, LockPage, Compare, Finish,
         Raise, NotYet
<1>11. CASE \/ \E clocked \in BOOLEAN : CheckB(clocked)
            \/ \E landed \in BOOLEAN : CheckC(landed)
  BY <1>11, StillOutstanding DEF CheckB, CheckC, NotYet
<1>12. CASE \E e \in 0 .. Timeout : Sleep(e)
  BY <1>12, StillOutstanding DEF Sleep, NotYet
<1> QED  BY <1>1, <1>2, <1>3, <1>4, <1>5, <1>6, <1>7, <1>8, <1>9, <1>10, <1>11,
            <1>12 DEF Next, Probe, Card

LEMMA InitOutstanding == Init => Outstanding
BY DEF Init, Boot, Blank, Outstanding, NotYet, Channels

\* csr_probe.py:68, no DMA into a page that may migrate: on a card as
\* programmed, both waits having said completed, no engine still has the page
\* when dma_selftest lets it go.  Of a wait that gave up it says nothing.
THEOREM PageOutlivesDma == Spec => []DmaEndsWithPage
<1>1. Outstanding => DmaEndsWithPage
  BY DEF Outstanding, Pending, DmaEndsWithPage
<1>2. StatusTyped /\ ProbeTyped /\ Latched /\ Outstanding /\ [Next]_vars
        => Outstanding'
  BY OutstandingStep
<1> QED  BY <1>1, <1>2, InitOutstanding, LatchedAlways, PTL DEF Spec

-----------------------------------------------------------------------------
(* Types.  Failed checks are bounded by how far the run has come, and a    *)
(* run that is not over has a number.                                      *)

Counted ==
  /\ pc \in {"off", "open", "B0", "B1", "C", "page", "desc", "poll", "sleep",
             "compare", "restore"}
  /\ nfail \in 0 .. 4
  /\ pc = "open" => nfail = 0
  /\ pc \in {"B0", "B1"} => nfail <= 1
  /\ pc = "C" => nfail <= 2
  /\ pc \in {"page", "desc", "poll", "sleep", "compare"} => nfail <= 3
  /\ elapsed \in 0 .. Timeout
  /\ run \in 0 .. MaxRuns /\ (pc # "off" => run # 0)

LEMMA StepCounted == Counted /\ [Next]_vars => Counted'
<1> SUFFICES ASSUME Counted, [Next]_vars PROVE Counted'
  OBVIOUS
<1> USE MaxRunsAssumption, TimeoutAssumption
<1> USE DEF probeVars, bootVars, GoTo, Return
<1>1. CASE UNCHANGED vars  BY <1>1 DEF vars, Counted
<1>2. CASE Start
  <2>1. ASSUME NEW dma \in BOOLEAN, Begin(dma), pc' \in {"off", "open"}
        PROVE Counted'
    BY <2>1 DEF Begin, Counted
  <2> QED  BY <1>2, <2>1 DEF Start, NoDevice, EnableDenied, enable_decode
<1>3. ASSUME NEW ch \in Channels, NEW ok \in BOOLEAN, Complete(ch, ok)
      PROVE Counted'
  BY <1>3 DEF Complete, Counted
<1>4. ASSUME NEW race \in BOOLEAN, NEW ok \in BOOLEAN, Poll(race, ok)
      PROVE Counted'
  BY <1>4 DEF Poll, EndWait, Counted
<1>5. CASE CheckA \/ FirstCount \/ OpenDenied
  BY <1>5 DEF CheckA, FirstCount, OpenDenied, Counted
<1>6. ASSUME NEW clocked \in BOOLEAN, CheckB(clocked) PROVE Counted'
  BY <1>6 DEF CheckB, Counted
<1>7. ASSUME NEW landed \in BOOLEAN, CheckC(landed) PROVE Counted'
  BY <1>7 DEF CheckC, Counted
<1>8. CASE SkipSelftest \/ LockPage \/ Program \/ GiveUp
  <2>1. CASE SkipSelftest  BY <2>1 DEF SkipSelftest, Counted
  <2>2. CASE LockPage  BY <2>2 DEF LockPage, Counted
  <2>3. CASE Program  BY <2>3 DEF Program, Counted
  <2>4. CASE GiveUp  BY <2>4 DEF GiveUp, EndWait, Counted
  <2> QED  BY <1>8, <2>1, <2>2, <2>3, <2>4
<1>9. ASSUME NEW e \in 0 .. Timeout, Sleep(e) PROVE Counted'
  BY <1>9 DEF Sleep, Counted
<1>10. CASE Compare  BY <1>10 DEF Compare, Counted
<1>11. CASE Finish \/ Raise \/ Die \/ Reprogram
  BY <1>11 DEF Finish, Raise, Die, Reprogram, Counted
<1> QED  BY <1>1, <1>2, <1>3, <1>4, <1>5, <1>6, <1>7, <1>8, <1>9, <1>10, <1>11
            DEF Next, Probe, Card

\* COMMAND and its copies only ever hold its two bits.
Commands ==
  command \subseteq Bits /\ cmd_orig \subseteq Bits /\ firmware \subseteq Bits

LEMMA StepCommands == Commands /\ [Next]_vars => Commands'
<1> SUFFICES ASSUME Commands, [Next]_vars PROVE Commands'
  OBVIOUS
<1> USE DEF probeVars, bootVars, pci_command
<1>1. CASE UNCHANGED vars  BY <1>1 DEF vars, Commands
<1>2. CASE Start
  <2>1. \A dma \in BOOLEAN : Want(dma) \subseteq Bits
    BY DEF Want, Commands, Bits
  <2>2. ASSUME NEW dma \in BOOLEAN, NEW sticks \in BOOLEAN,
               enable_decode(dma, sticks)
        PROVE Commands'
    BY <2>1, <2>2 DEF enable_decode, Begin, Commands
  <2> QED  BY <1>2, <2>2 DEF Start, NoDevice, EnableDenied, Begin, Commands
<1>3. ASSUME NEW ch \in Channels, NEW ok \in BOOLEAN, Complete(ch, ok)
      PROVE Commands'
  BY <1>3 DEF Complete, Commands
<1>4. ASSUME NEW race \in BOOLEAN, NEW ok \in BOOLEAN, Poll(race, ok)
      PROVE Commands'
  BY <1>4 DEF Poll, Commands
<1>5. CASE OpenDenied \/ CheckA \/ FirstCount \/ SkipSelftest \/ LockPage
           \/ Program \/ GiveUp \/ Compare \/ Finish \/ Raise
  BY <1>5 DEF OpenDenied, CheckA, FirstCount, SkipSelftest, LockPage, Program,
              GiveUp, Compare, Finish, Raise, Commands
<1>6. CASE \/ \E clocked \in BOOLEAN : CheckB(clocked)
           \/ \E landed \in BOOLEAN : CheckC(landed)
           \/ \E e \in 0 .. Timeout : Sleep(e)
  BY <1>6 DEF CheckB, CheckC, Sleep, Commands
<1>7. CASE Die \/ Reprogram  BY <1>7 DEF Die, Reprogram, Commands
<1> QED  BY <1>1, <1>2, <1>3, <1>4, <1>5, <1>6, <1>7 DEF Next, Probe, Card

\* What the card and the page hold, and the runs the engines work for.
Held ==
  /\ ram \in {"pattern", "other"} /\ dst \in {"zero", "pattern", "other"}
  /\ page \in {"none", "locked"}
  /\ \A ch \in Channels :
       /\ status[ch].valid \in BOOLEAN /\ status[ch].err \in BOOLEAN
       /\ status[ch].tag \in {"none", "read", "write"}
       /\ jobs[ch] \in Seq(1 .. MaxRuns)

\* What an engine's end leaves behind.
LEMMA LandHeld ==
  ASSUME StatusTyped, ProbeTyped, Held, NEW ch \in Channels,
         NEW ok \in BOOLEAN, NEW valid \in BOOLEAN, Land(ch, ok, valid),
         page' = page
  PROVE  Held'
<1>1. /\ jobs' = [jobs EXCEPT ![ch] = Tail(@)] /\ jobs[ch] # <<>>
      /\ status' = [status EXCEPT ![ch] =
                     [valid |-> valid, tag |-> ch, err |-> ~ok]]
      /\ ram' \in {ram, "pattern", "other"} /\ dst' \in {ram, dst}
  BY DEF Land
<1>2. Tail(jobs[ch]) \in Seq(1 .. MaxRuns)
  BY <1>1, HeadTailProperties DEF Held
<1>3. \A c \in Channels : jobs'[c] \in Seq(1 .. MaxRuns)
  BY <1>1, <1>2 DEF Held, ProbeTyped
<1>4. /\ status'[ch].valid = valid /\ status'[ch].tag = ch
      /\ status'[ch].err = ~ok
      /\ \A c \in Channels \ {ch} : status'[c] = status[c]
  BY <1>1 DEF StatusTyped
<1>5. \A c \in Channels :
        /\ status'[c].valid \in BOOLEAN /\ status'[c].err \in BOOLEAN
        /\ status'[c].tag \in {"none", "read", "write"}
  BY <1>4 DEF Held, Channels
<1> QED  BY <1>1, <1>3, <1>5 DEF Held

\* And a read of its status register.
LEMMA ConsumedHeld ==
  ASSUME StatusTyped, Held, NEW ch \in Channels, Consumed(ch),
         UNCHANGED <<ram, dst, page, jobs>>
  PROVE  Held'
<1>1. CASE Answering
  <2>1. status' = [status EXCEPT ![ch].valid = FALSE]
    BY <1>1 DEF Consumed
  <2>2. /\ status'[ch].valid = FALSE /\ status'[ch].tag = status[ch].tag
        /\ status'[ch].err = status[ch].err
        /\ \A c \in Channels \ {ch} : status'[c] = status[c]
    BY <2>1 DEF StatusTyped
  <2> QED  BY <2>2 DEF Held
<1>2. CASE ~Answering  BY <1>2 DEF Consumed, Held
<1> QED  BY <1>1, <1>2

LEMMA StepHeld ==
  StatusTyped /\ ProbeTyped /\ Counted /\ Held /\ [Next]_vars => Held'
<1> SUFFICES ASSUME StatusTyped, ProbeTyped, Counted, Held, [Next]_vars
             PROVE  Held'
  OBVIOUS
<1> USE DEF cardVars, pageVars
<1>1. CASE UNCHANGED vars  BY <1>1 DEF vars, Held
<1>2. CASE Start
  <2>1. ASSUME NEW dma \in BOOLEAN, Begin(dma) PROVE Held'
    BY <2>1 DEF Begin, Held
  <2> QED  BY <1>2, <2>1 DEF Start, NoDevice, EnableDenied, enable_decode
<1>3. ASSUME NEW ch \in Channels, NEW ok \in BOOLEAN, Complete(ch, ok)
      PROVE Held'
  BY <1>3, LandHeld DEF Complete
<1>4. ASSUME NEW race \in BOOLEAN, NEW ok \in BOOLEAN, Poll(race, ok)
      PROVE Held'
  <2>1. chan \in Channels /\ page' = page
    BY <1>4 DEF Poll, ProbeTyped
  <2>2. CASE race /\ Answering
    BY <1>4, <2>1, <2>2, LandHeld DEF Poll
  <2>3. CASE ~(race /\ Answering)
    BY <1>4, <2>1, <2>3, ConsumedHeld DEF Poll
  <2> QED  BY <2>2, <2>3
<1>5. CASE Program
  <2>1. run \in 1 .. MaxRuns /\ chan \in Channels
    BY <1>5 DEF Program, GoTo, Counted, ProbeTyped
  <2>2. jobs' = IF Answering THEN [jobs EXCEPT ![chan] = Append(@, run)]
                ELSE jobs
    BY <1>5 DEF Program
  <2>3. Append(jobs[chan], run) \in Seq(1 .. MaxRuns)
    BY <2>1, AppendProperties DEF Held
  <2>4. \A c \in Channels : jobs'[c] \in Seq(1 .. MaxRuns)
    BY <2>1, <2>2, <2>3 DEF Held, ProbeTyped
  <2> QED  BY <1>5, <2>4 DEF Program, Held
<1>6. CASE CheckA  BY <1>6, ConsumedHeld DEF CheckA, Channels
<1>7. CASE GiveUp  BY <1>7, ConsumedHeld DEF GiveUp, ProbeTyped
<1>8. CASE OpenDenied \/ FirstCount \/ SkipSelftest \/ LockPage \/ Compare
           \/ Finish \/ Raise
  BY <1>8 DEF OpenDenied, FirstCount, SkipSelftest, LockPage, Compare, Finish,
              Raise, Held
<1>9. CASE \/ \E clocked \in BOOLEAN : CheckB(clocked)
           \/ \E landed \in BOOLEAN : CheckC(landed)
           \/ \E e \in 0 .. Timeout : Sleep(e)
  BY <1>9 DEF CheckB, CheckC, Sleep, Held
<1>10. ASSUME NEW j, j = [ch \in Channels |-> <<>>]
       PROVE  \A ch \in Channels : j[ch] \in Seq(1 .. MaxRuns)
  BY <1>10
<1>11. CASE Die  BY <1>10, <1>11 DEF Die, Held
<1>12. CASE Reprogram
  BY <1>10, <1>12, BlankStatus DEF Reprogram, Held, Blank
<1> QED  BY <1>1, <1>2, <1>3, <1>4, <1>5, <1>6, <1>7, <1>8, <1>9, <1>11, <1>12
            DEF Next, Probe, Card

LEMMA InitHeld == Init => Counted /\ Commands /\ Held
<1> SUFFICES ASSUME Init PROVE Counted /\ Commands /\ Held
  OBVIOUS
<1>1. Counted
  BY MaxRunsAssumption, TimeoutAssumption DEF Init, Counted
<1>2. Commands  BY DEF Init, Boot, Commands
<1>3. \A ch \in Channels : jobs[ch] \in Seq(1 .. MaxRuns)
  <2>1. jobs = [ch \in Channels |-> <<>>]  BY DEF Init, Boot
  <2> QED  BY <2>1
<1>4. \A ch \in Channels :
        /\ status[ch].valid = FALSE /\ status[ch].err = FALSE
        /\ status[ch].tag = "none"
  BY DEF Init, Boot, Blank
<1>5. /\ ram \in {"pattern", "other"} /\ dst \in {"zero", "pattern", "other"}
      /\ page \in {"none", "locked"}
  BY DEF Init, Boot
<1> QED  BY <1>1, <1>2, <1>3, <1>4, <1>5 DEF Held

(***************************************************************************)
(* The state stays in its types for any number of runs: no run counts more *)
(* than its four checks as failed or sleeps past its time, COMMAND holds   *)
(* only what the probe or the boot wrote, and every outstanding descriptor *)
(* is some run's.                                                          *)
(***************************************************************************)
THEOREM ProbeTypes == Spec => []TypeOK
<1> DEFINE Inv == StatusTyped /\ ProbeTyped /\ Counted /\ Commands /\ Held
<1>1. Init => Inv
  BY InitTyped, InitHeld
<1>2. Inv /\ [Next]_vars => Inv'
  BY StepTyped, StepCounted, StepCommands, StepHeld
<1>3. ASSUME Inv PROVE TypeOK
  <2> DEFINE Status == [valid : BOOLEAN, tag : {"none", "read", "write"},
                        err : BOOLEAN]
  <2>1. ASSUME NEW ch \in Channels PROVE status[ch] \in Status
    <3>1. /\ status[ch] = [valid |-> status[ch].valid,
                           tag   |-> status[ch].tag,
                           err   |-> status[ch].err]
          /\ status[ch].valid \in BOOLEAN /\ status[ch].err \in BOOLEAN
          /\ status[ch].tag \in {"none", "read", "write"}
      BY <1>3 DEF StatusTyped, Held
    <3> QED  BY <3>1, Zenon
  <2>2. status = [ch \in Channels |-> status[ch]]
    BY <1>3 DEF StatusTyped
  <2>3. status \in [Channels -> Status]
    <3> HIDE DEF Status
    <3> QED  BY <2>1, <2>2
  <2>4. {command, cmd_orig, firmware} \subseteq SUBSET Bits
    BY <1>3 DEF Commands
  <2> QED  BY <1>3, <2>3, <2>4 DEF TypeOK, Counted, Held, ProbeTyped
<1> QED  BY <1>1, <1>2, <1>3, PTL DEF Spec

=============================================================================
