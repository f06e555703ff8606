---------------------------- MODULE MCCcGearbox ----------------------------
(* The CC gearbox under every legal beat, straddling packets or not, and   *)
(* under beats whose starts are off the core's grid.                       *)
EXTENDS CcGearbox

Sorted(S) == [i \in 1 .. Cardinality(S) |->
               CHOOSE x \in S : Cardinality({y \in S : y < x}) = i - 1]

AtMostTwo == {S \in SUBSET (0 .. Half - 1) : Cardinality(S) <= 2}

\* A straddled beat on offer marks something, or is the middle of a packet.
\* A start off the core's grid comes alone.
Straddled ==
  {[NoBeat EXCEPT !.open = x[1], !.starts = Sorted(x[2]),
                  !.ends = Sorted(x[3]), !.keep = Half] :
     x \in {y \in BOOLEAN \X AtMostTwo \X AtMostTwo :
              /\ Alternate(y[1], Sorted(y[2]), Sorted(y[3]))
              /\ y[1] \/ y[2] # {}
              /\ y[2] \subseteq {0, 2} \/ (~y[1] /\ y[2] \in {{1}, {3}})}}

\* tkeep is full except on the last beat of a packet.
Plain ==
  {[NoBeat EXCEPT !.open = x[1], !.keep = x[2], !.last = x[3]] :
     x \in {y \in BOOLEAN \X (1 .. Half) \X BOOLEAN : y[3] \/ y[2] = Half}}

MCBusBeats(b) == IF b THEN Straddled ELSE Plain

\* The held beat's registers are read only while its valid flag is high.
MCView ==
  <<straddle, cc_hold_valid_reg,
    IF cc_hold_valid_reg THEN cc_hold_reg ELSE NoBeat,
    cc_open_reg, busVars, owed, core_open, flagged>>

=============================================================================
