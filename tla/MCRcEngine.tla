----------------------------- MODULE MCRcEngine -----------------------------
(***************************************************************************)
(* Three of the builds the parameter guards admit: eight segments in four  *)
(* slots, the 1024-bit default, four in four, and two not compacted, the   *)
(* last under every legal beat of the core.                                *)
(***************************************************************************)
EXTENDS RcEngine

MCBuilds ==
  {[segs |-> 8, slots |-> 4, compact |-> TRUE],
   [segs |-> 4, slots |-> 4, compact |-> TRUE],
   [segs |-> 2, slots |-> 2, compact |-> FALSE]}

\* The beat whose segments up to last are valid and which ends TLPs as eop
\* says: a start comes first outside a TLP, and behind an end.
Beat(n, open, eop, last) ==
  [i \in 1 .. n |->
     IF i > last THEN Idle
     ELSE [Idle EXCEPT !.valid = TRUE, !.eop = eop[i],
                       !.sop = IF i = 1 THEN ~open ELSE eop[i - 1] # "no"]]

\* Idle segments only behind an end.
All(n, open) ==
  {Beat(n, open, eop, last) :
     <<eop, last>> \in {<<e, k>> \in [1 .. n -> {"no", "lo", "hi"}] \X (1 .. n) :
                          k < n => e[k] # "no"}}

\* No end; one early or late with data behind it; one at the end of the
\* beat; one with nothing behind it; an end in every segment, or in every
\* second one.
EndsOf(n) ==
  LET At(where, how) == [i \in 1 .. n |-> IF i \in where THEN how ELSE "no"]
  IN  {<<At({}, "no"), n>>, <<At({1}, "hi"), n>>, <<At({2}, "lo"), n>>,
       <<At({n - 1}, "lo"), n>>, <<At({n}, "hi"), n>>, <<At({3}, "lo"), 3>>,
       <<At(1 .. n, "lo"), n>>, <<At({i \in 1 .. n : i % 2 = 1}, "hi"), n>>}

Few(n, open) == {Beat(n, open, e[1], e[2]) : e \in EndsOf(n)}

AllInside == All(2, TRUE)
AllOutside == All(2, FALSE)
FourInside == Few(4, TRUE)
FourOutside == Few(4, FALSE)
EightInside == Few(8, TRUE)
EightOutside == Few(8, FALSE)

MCBeats(c, open) ==
  CASE c.segs = 2 -> IF open THEN AllInside ELSE AllOutside
    [] c.segs = 4 -> IF open THEN FourInside ELSE FourOutside
    [] c.segs = 8 -> IF open THEN EightInside ELSE EightOutside

=============================================================================
