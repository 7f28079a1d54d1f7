----------------------------- MODULE MCLineage -----------------------------
(***************************************************************************)
(* Lineage of four instruments: any pointers between them and one         *)
(* ambiguous one, first seen on one day or two in four orders, with three  *)
(* ranks and one stem, or two ranks and two pairs that borrowers keep      *)
(* apart, or two ranks and an instrument of another stem.                  *)
(***************************************************************************)
EXTENDS Lineage

MCInstrument == 1 .. 4

MCNamed ==
  {named \in [MCInstrument -> {{}} \cup {{i} : i \in MCInstrument} \cup {{2, 3}}] :
     \A i \in MCInstrument : i \notin named[i] /\ (named[i] = {2, 3} => i = 1)}

\* Four places on each day.
MCDay(place) == place \div 4
MCSeen == {<<4, 5, 6, 7>>, <<7, 6, 5, 4>>, <<5, 2, 6, 3>>, <<1, 2, 5, 4>>}

OneStem   == [i \in MCInstrument |-> 1]
OtherStem == [i \in MCInstrument |-> IF i = 4 THEN 2 ELSE 1]

Ranks ==
  {rank \in [MCInstrument -> 0 .. 2] :
     \A i \in MCInstrument : rank[i] > 0 => \E j \in MCInstrument : rank[j] = rank[i] - 1}

MCNames ==
  [stem : {OneStem}, rank : Ranks, apart : {{}}]
  \cup [stem : {OneStem}, rank : [MCInstrument -> 1 .. 2], apart : {{<<1, 4>>, <<2, 3>>}}]
  \cup [stem : {OtherStem}, rank : [MCInstrument -> 1 .. 2], apart : {{}}]

MCOtherLinks == {{}, {<<1, 3>>}}
=============================================================================
