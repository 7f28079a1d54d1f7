------------------------------ MODULE PaidWork ------------------------------
(***************************************************************************)
(* What a batch job promises about its items.  Every piece of work is at a *)
(* request until it has a verdict.  The job asks for a request only once   *)
(* and only while the piece still needs it; a piece moves on to another    *)
(* request only after something was asked for it, and never back to one    *)
(* that was.  The job closes when no piece needs anything more, and is     *)
(* given up only before it asked for anything.                             *)
(***************************************************************************)
EXTENDS Naturals

CONSTANTS
  Item,      \* the pieces of work
  Requests,  \* what a piece can ask for
  Verdicts,  \* how a piece can end
  Open       \* the verdict of a piece that has not ended

VARIABLES
  work,    \* where each piece is, as the job would find it after a restart
  asked,   \* the requests asked for each piece
  paid,    \* how often something was paid for each piece
  status   \* what became of the job

vars == <<work, asked, paid, status>>

\* A piece may be put off to a later job; that is never taken back.
Pieces == [next : Requests, verdict : Verdicts \cup {Open}, deferred : BOOLEAN]

IsOpen(piece) == piece.verdict = Open

Needed(i) == IsOpen(work[i]) /\ ~work[i].deferred

Init ==
  /\ work \in [Item -> Pieces]
  /\ \A i \in Item : ~work[i].deferred
  /\ asked = [i \in Item |-> {}]
  /\ paid = [i \in Item |-> 0]
  /\ status = "active"

Ask(chunk) ==
  /\ status = "active"
  /\ \A i \in chunk : Needed(i) /\ work[i].next \notin asked[i]
  /\ asked' = [i \in Item |-> IF i \in chunk THEN asked[i] \cup {work[i].next}
                                             ELSE asked[i]]
  /\ paid' = [i \in Item |-> IF i \in chunk THEN paid[i] + 1 ELSE paid[i]]
  /\ UNCHANGED <<work, status>>

\* A piece may end unasked: its request can turn out to be impossible.
MovesOn(i, piece) ==
  /\ IsOpen(work[i])
  /\ IsOpen(piece) => asked[i] # {} /\ piece.next \notin asked[i]
  /\ work[i].deferred => piece.deferred

Learn ==
  /\ status = "active"
  /\ work' \in [Item -> Pieces]
  /\ \A i \in Item : work'[i] = work[i] \/ MovesOn(i, work'[i])
  /\ UNCHANGED <<asked, paid, status>>

Close ==
  /\ status = "active"
  /\ \A i \in Item : ~Needed(i)
  /\ status' = "finalizing"
  /\ UNCHANGED <<work, asked, paid>>

Abandon ==
  /\ status = "active"
  /\ \A i \in Item : asked[i] = {}
  /\ status' = "abandoned"
  /\ UNCHANGED <<work, asked, paid>>

Next ==
  \/ \E chunk \in SUBSET Item : Ask(chunk)
  \/ Learn
  \/ Close
  \/ Abandon

Spec == Init /\ [][Next]_vars
=============================================================================
