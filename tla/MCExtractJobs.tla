--------------------------- MODULE MCExtractJobs ---------------------------
(***************************************************************************)
(* ExtractJobs with two partitions: both genres' files of one month.       *)
(***************************************************************************)
EXTENDS ExtractJobs, TLC

CONSTANTS a, b, c

MCPartition == {1, 2}
MCItem == {a, b, c}
MCHome == a :> 1 @@ b :> 1 @@ c :> 2

MCOneMonth  == 1 :> 1 @@ 2 :> 1

MCOutcomes == {"SUCCESS", "FAILED", "deferred"}
=============================================================================
