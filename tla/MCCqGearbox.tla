---------------------------- MODULE MCCqGearbox ----------------------------
(* Small builds of the CQ gearbox and every legal beat for them.           *)
EXTENDS CqGearbox

\* Straddled with the Versal pointer (a packet start every quarter beat), in
\* a narrow beat with every traffic and in a wider one, whose halves have room
\* for more marks than two; straddled with the finer pointer that reaches only
\* the low half; and one packet per beat.
Versal == [straddle |-> TRUE,  half |-> 2, weight |-> 1]
Wide   == [straddle |-> TRUE,  half |-> 4, weight |-> 2]
Fine   == [straddle |-> TRUE,  half |-> 4, weight |-> 1]
Plain  == [straddle |-> FALSE, half |-> 2, weight |-> 1]

MCBuilds == {Versal, Wide, Fine, Plain}

Sorted(S) == [i \in 1 .. Cardinality(S) |->
               CHOOSE x \in S : Cardinality({y \in S : y < x}) = i - 1]

Straddled(c, Starts, Ends) ==
  {b \in {[open |-> o, sop_ptr |-> Sorted(S), eop_ptr |-> Sorted(E),
           keep |-> 0, last |-> FALSE] :
            o \in BOOLEAN, S \in SUBSET Starts, E \in SUBSET Ends} :
     LegalBeat(c, b)}

\* The fine pointer is there for the overflow: beats that start three or four
\* packets, and the beat that starts none.
FineBeats ==
  {b \in Straddled(Fine, 0 .. 3, {0, 1, 2, 3, 7}) :
     Len(b.sop_ptr) \notin {1, 2}}

\* tkeep is full except on the last beat of a packet.
PlainBeats ==
  {[open |-> o, sop_ptr |-> <<>>, eop_ptr |-> <<>>, keep |-> k, last |-> l] :
     <<o, k, l>> \in
       {x \in BOOLEAN \X (1 .. 4) \X BOOLEAN : x[3] \/ x[2] = 4}}

\* The most packet starts and ends that fit, and beats without an end.
WideBeats ==
  {b \in Straddled(Wide, 0 .. 3, 0 .. 7) :
     Len(b.eop_ptr) \in {0, 4} \/ Len(b.sop_ptr) + Len(b.eop_ptr) > 5}

VersalBeats == Straddled(Versal, 0 .. 3, 0 .. 3)

BeatsOf == [b \in MCBuilds |-> CASE b = Versal -> VersalBeats
                                 [] b = Wide   -> WideBeats
                                 [] b = Fine   -> FineBeats
                                 [] OTHER      -> PlainBeats]

MCBusBeats(b) == BeatsOf[b]

\* What a register holds while its valid flag is low changes no flag and no
\* output, so states that differ only there are one state.
MCView ==
  <<build, cq_in_ready_reg, cq_phase_reg, cq_open_reg, bus_open, owed, accepted,
    cq_reg_tvalid, IF cq_reg_tvalid THEN cq_reg ELSE Idle,
    cq_skid_tvalid, IF cq_skid_tvalid THEN cq_skid ELSE Idle>>

MCBeats == UNION {BeatsOf[b] : b \in MCBuilds} \cup {Idle}

=============================================================================
