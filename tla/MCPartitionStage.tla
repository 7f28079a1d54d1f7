-------------------------- MODULE MCPartitionStage --------------------------
(***************************************************************************)
(* PartitionStage with two days of one month and a day of the next.        *)
(***************************************************************************)
EXTENDS PartitionStage, TLC

CONSTANTS f1, f2, f3

MCFiling  == {f1, f2, f3}
MCDayOf   == f1 :> 1 @@ f2 :> 2 @@ f3 :> 3
MCMonthOf == 1 :> 1 @@ 2 :> 1 @@ 3 :> 2

\* Bound: the text that is rewritten is the first one, and the shard that another
\* run stores entries in is that of its month.
FirstMonthChanges == docs[f2] <= 1 /\ docs[f3] <= 1 /\ others[2] = 0
=============================================================================
