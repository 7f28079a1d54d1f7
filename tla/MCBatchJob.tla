----------------------------- MODULE MCBatchJob -----------------------------
(***************************************************************************)
(* BatchJob with one or two items and a model that finds two instruments,  *)
(* or answers badly.                                                       *)
(***************************************************************************)
EXTENDS BatchJob, TLC

CONSTANTS i1, i2

MCOne   == {i1}
MCTwo   == {i1, i2}
\* One answer ends the row, one asks for the next attempt.
Enough  == [ok |-> TRUE, yield |-> 1, breaks |-> FALSE]
Bad     == [ok |-> FALSE, yield |-> 1, breaks |-> FALSE]
MCAnswers == {Enough, Bad}
MCSymmetry == Permutations(MCTwo)
=============================================================================
