---------------------------- MODULE RowLifecycle ----------------------------
(***************************************************************************)
(* One item on its way through the extraction workflow: the provider may   *)
(* answer anything, abort, or fail, in any order, and an operator may      *)
(* change --max-attempts between two calls of a batch row.                 *)
(***************************************************************************)
EXTENDS RowWorkflow

CONSTANT Budgets   \* the values of --max-attempts in use

ASSUME RowLifecycleAssumption ==
  /\ Budgets \subseteq Nat \ {0}
  /\ \E m \in Budgets : \A n \in Budgets : n <= m

VARIABLES
  row,       \* the ExtractionRowState
  calls,     \* calls answered or aborted so far in the row's current stage
  peak,      \* the most any scored ner answer tagged
  accepted   \* the stages an answer of which validated

vars == <<row, calls, peak, accepted>>

Init ==
  /\ \E breaks \in BOOLEAN : row = BeginRow(breaks)
  /\ calls = 0
  /\ peak = 0
  /\ accepted = {}

MaxBudget == CHOOSE m \in Budgets : \A n \in Budgets : n <= m

\* The most calls a stage may cost; the counter stops one above it.
MostCalls == MaxBudget + MaxResends

CountCall ==
  calls' = IF row'.stage # row.stage THEN 0
           ELSE IF calls > MostCalls THEN calls ELSE calls + 1

Answer(a, maxAttempts) ==
  /\ row.state = Open
  /\ row' = HandleResponse(row, a, maxAttempts)
  /\ CountCall
  /\ peak' = IF row.stage = NER THEN Max2(peak, a.yield) ELSE peak
  /\ accepted' = IF Passes(row, a) THEN accepted \cup {row.stage} ELSE accepted

Abort ==
  /\ row.state = Open
  /\ row' = HandleProviderAbort(row)
  /\ CountCall
  /\ UNCHANGED <<peak, accepted>>

\* An exception that is not infrastructure; in a batch, an error line.
CallFails ==
  /\ row.state = Open
  /\ row' = RecordStageError(row)
  /\ CountCall
  /\ UNCHANGED <<peak, accepted>>

Next ==
  \/ \E a \in Answers, maxAttempts \in Budgets : Answer(a, maxAttempts)
  \/ Abort
  \/ CallFails

Spec == Init /\ [][Next]_vars

\* The row's request is sent until something comes back (workflow.py:282).
FairSpec == Spec /\ WF_vars(Next)

-----------------------------------------------------------------------------

(* Type invariant: a row is always one that to_state_dict could write         *)
(* (state.py:251-272).                                                        *)
TypeOK ==
  /\ row \in Rows
  /\ calls \in Nat
  /\ peak \in Yields
  /\ accepted \subseteq Stages

(* A stage costs at most the attempt budget in scored calls plus the resend   *)
(* cap, however answers and aborts interleave and wherever the row was saved  *)
(* in between (workflow.py:90, 96-107, 181-183).                              *)
CallsAreBounded == calls <= MostCalls

(* SUCCESS means that every stage the row went through was answered validly,  *)
(* never that its failed attempts ran out (state.py:226, workflow.py:231-265).*)
SuccessIsEarned ==
  row.state = "SUCCESS" =>
    /\ row.stage \in accepted
    /\ row.stage = RELATION => IE \in accepted
    /\ row.stage # NER => NER \in accepted

(* A model that tagged a debt instrument cannot talk itself out of it: an     *)
(* item is called free of debt only if no scored attempt ever tagged one      *)
(* (stages.py:156-219, workflow.py:209-214).                                  *)
NoGiveUp ==
  row.state = "SUCCESS" /\ row.stage = NER => peak < Several

(* Running out of attempts or resends never throws found mentions away: the   *)
(* row is FAILED only when it holds none and its last instrument_ie answer    *)
(* had none worth keeping, and PARTIAL only when it publishes some            *)
(* (workflow.py:143-168, 245-265).                                            *)
NothingFoundIsThrownAway ==
  /\ row.state = "FAILED" => row.mentions = 0 /\ row.valid = 0
  /\ row.state = "PARTIAL" => row.mentions > 0 /\ row.salvaged

(* Every row reaches a verdict: no mix of invalid answers and aborts can keep *)
(* it asking for ever (workflow.py:282-310).                                  *)
EveryRowEnds == <>(row.state # Open)
=============================================================================
