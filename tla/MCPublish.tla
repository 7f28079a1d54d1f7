----------------------------- MODULE MCPublish ------------------------------
(***************************************************************************)
(* Publish, and with it MatchStage.  Item 1 of CIK 1 is an 8-K item that    *)
(* names nothing at first and, each time it is extracted, 0 and 1, or 2, 3  *)
(* and 4.  Of the other mentions of the CIK, 0 is linked to 5 and 6, and so *)
(* merges two instruments, 1 to 7, and 2 to all three; code version 2 links *)
(* 5 to 6.  3 and 4 have an equal claim to what 1 was in.  CIK 2 is in the  *)
(* same shard and may lose both its mentions, and the guard refuses to      *)
(* publish the loss if item 1 merged instruments as well.  A late writer    *)
(* may write the first mention of CIK 3, in another shard.                  *)
(***************************************************************************)
EXTENDS Publish, TLC

MCMention == 0..10
MCCikOf   == [m \in 0..10 |-> CASE m \in {8, 9} -> 2 [] m = 10 -> 3 [] OTHER -> 1]
MCItemOf  == [m \in 0..10 |-> CASE m <= 4 -> 1 [] m = 9 -> 8 [] OTHER -> m]
MCStated  == [m \in 0..10 |-> IF m \in {1, 3, 4} THEN {<<1, 1>>} ELSE {}]
MCShardOf == 1 :> 1 @@ 2 :> 1 @@ 3 :> 2
MCLinks   == {{0, 5}, {0, 6}, {1, 7}, {2, 5}, {2, 6}, {2, 7}}
MCLinked  == <<MCLinks, MCLinks \cup {{5, 6}}>>
MCAnswers == 1 :> {{0, 1}, {2, 3, 4}} @@ 8 :> {{}} @@ [i \in {5, 6, 7, 10} |-> {}]
MCFirst   == {5, 6, 7, 8, 9}
MCLate    == {10}
=============================================================================
