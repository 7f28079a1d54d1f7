------------------------------ MODULE MCReplay ------------------------------
(***************************************************************************)
(* Replay with a partition of two items and, in the month after it, one    *)
(* that lists none, which live runs and jobs visit all the same.           *)
(***************************************************************************)
EXTENDS Replay, TLC

CONSTANTS a, b

MCPartition == {1, 2}
MCItem == {a, b}
MCHome == a :> 1 @@ b :> 1
MCMonthOf == 1 :> 1 @@ 2 :> 2

MCOutcomes == {"SUCCESS", "FAILED"}

\* The first two runs make the same ids of an item, none of them of b; the third
\* makes others.
MCMentionIds ==
  [r \in 1 .. 3 |-> [i \in MCItem |-> IF r = 3 THEN {"later"}
                                     ELSE IF i = a THEN {"same"} ELSE {}]]

\* Bound: one partition is rewritten, once.
OneRewrite == rewrites[1] + rewrites[2] <= 1
=============================================================================
