----------------------------- MODULE RowProofs -----------------------------
(***************************************************************************)
(* Proofs about RowLifecycle, for any resend cap and any attempt budgets.  *)
(***************************************************************************)
EXTENDS RowLifecycle, TLAPS

USE DEF Stages, Verdicts, Open, NER, IE, RELATION, Yields, Several

LEMMA BudgetBound == /\ MaxBudget \in Budgets
                     /\ MaxBudget \in Nat
                     /\ \A n \in Budgets : n \in Nat /\ n <= MaxBudget
BY RowLifecycleAssumption DEF MaxBudget

(***************************************************************************)
(* What the operators of the workflow return.                              *)
(***************************************************************************)
LEMMA FinishType ==
  ASSUME NEW r \in Rows, NEW v \in Verdicts
  PROVE  /\ Finish(r, v) \in Rows
         /\ Finish(r, v) = [r EXCEPT !.state = Finish(r, v).state]
         /\ Finish(r, v).state \in Verdicts
         /\ Finish(r, v).state = "SUCCESS" => v = "SUCCESS"
BY DEF Finish, Rows

LEMMA NextStageType ==
  ASSUME NEW r \in Rows, NEW stage \in Stages, NEW breaks \in BOOLEAN
  PROVE  LET n == NextStage(r, stage, breaks)
         IN  /\ n \in Rows
             /\ n.stage = stage /\ n.attempt = 0 /\ n.aborts = 0
             /\ n.tagged = r.tagged
             /\ n.state = r.state \/ n.state = "ERROR"
<1> DEFINE begun == [r EXCEPT !.stage = stage, !.attempt = 0, !.aborts = 0]
<1>1. /\ begun \in Rows /\ begun.stage = stage /\ begun.attempt = 0
      /\ begun.aborts = 0 /\ begun.tagged = r.tagged /\ begun.state = r.state
  BY DEF Rows
<1>2. CASE breaks
  <2>1. NextStage(r, stage, breaks) = [begun EXCEPT !.state = "ERROR"]
    BY <1>1, <1>2 DEF NextStage, RecordStageError, Finish
  <2> HIDE DEF begun
  <2> QED
    BY <1>1, <2>1 DEF Rows
<1>3. CASE ~breaks
  BY <1>1, <1>3 DEF NextStage
<1> QED
  BY <1>2, <1>3

LEMMA AddResponseType ==
  ASSUME NEW r \in Rows, NEW a \in Answers
  PROVE  LET s == AddResponse(r, a)
         IN  /\ s \in Rows
             /\ s.stage = r.stage /\ s.attempt = r.attempt + 1
             /\ s.aborts = r.aborts /\ s.tagged = r.tagged /\ s.state = r.state
<1> DEFINE v == IF r.stage = IE THEN a.yield ELSE r.valid
<1>1. v \in Yields
  BY DEF Rows, Answers
<1>2. AddResponse(r, a) = [r EXCEPT !.attempt = @ + 1, !.valid = v]
  BY DEF AddResponse
<1>3. r.attempt + 1 \in Nat
  BY DEF Rows
<1> HIDE DEF v
<1>4. AddResponse(r, a) \in Rows
  BY <1>1, <1>2, <1>3 DEF Rows
<1> QED
  BY <1>2, <1>4 DEF Rows

LEMMA PostprocessType ==
  ASSUME NEW r \in Rows
  PROVE  LET s == Postprocess(r)
         IN  /\ s \in Rows
             /\ s.stage = r.stage /\ s.attempt = r.attempt
             /\ s.aborts = r.aborts /\ s.tagged = r.tagged /\ s.state = r.state
BY DEF Postprocess, Rows

LEMMA SalvageType ==
  ASSUME NEW r \in Rows
  PROVE  LET s == Salvage(r)
         IN  /\ s \in Rows
             /\ s.stage = r.stage /\ s.attempt = r.attempt
             /\ s.aborts = r.aborts /\ s.tagged = r.tagged /\ s.state = r.state
BY DEF Salvage, Rows

(***************************************************************************)
(* After an answer passed or was salvaged the row is decided or one stage  *)
(* on; only an answer that tags no debt instrument ends it in ner.         *)
(***************************************************************************)
MovesOn(r, n, a) ==
  /\ n \in Rows
  /\ \/ n.state # Open /\ n.stage = r.stage
     \/ n.stage # r.stage /\ n.stage # NER /\ n.attempt = 0 /\ n.aborts = 0
  /\ n.state = "SUCCESS" /\ n.stage = NER => a.yield < Several

LEMMA AdvanceType ==
  ASSUME NEW r \in Rows, NEW a \in Answers, r.state = Open
  PROVE  MovesOn(r, AdvanceAfterStage(r, a), a)
<1> USE DEF MovesOn
<1>1. a.breaks \in BOOLEAN /\ a.yield \in Yields /\ r.stage \in Stages
  BY DEF Answers, Rows
<1>2. Finish(r, "SUCCESS").stage = r.stage
  BY FinishType DEF Finish, Rows
<1>3. CASE AdvanceAfterStage(r, a) = Finish(r, "SUCCESS")
           /\ (r.stage = NER => a.yield < Several)
  BY <1>2, <1>3, FinishType
<1>4. CASE r.stage = NER /\ AdvanceAfterStage(r, a) = NextStage(r, IE, a.breaks)
  BY <1>1, <1>4, NextStageType
<1>5. CASE r.stage = IE /\ AdvanceAfterStage(r, a) = NextStage(r, RELATION, a.breaks)
  BY <1>1, <1>5, NextStageType
<1> QED
  BY <1>1, <1>3, <1>4, <1>5 DEF AdvanceAfterStage

LEMMA SalvageOrFailType ==
  ASSUME NEW r \in Rows, NEW a \in Answers, r.state = Open
  PROVE  /\ MovesOn(r, SalvageOrFail(r, a), a)
         /\ r.stage = NER => SalvageOrFail(r, a).state # "SUCCESS"
<1>1. CASE CanSalvageEntries(r)
  <2> DEFINE kept == Postprocess(Salvage(r))
  <2>1. /\ kept \in Rows /\ kept.state = Open /\ kept.stage = r.stage
    BY SalvageType, PostprocessType
  <2>2. r.stage = IE
    BY <1>1 DEF CanSalvageEntries
  <2>3. SalvageOrFail(r, a) = AdvanceAfterStage(kept, a)
    <3>1. ~HoldsMentions(r)
      BY <2>2 DEF HoldsMentions
    <3> QED
      BY <1>1, <3>1 DEF SalvageOrFail
  <2> HIDE DEF kept
  <2> QED
    BY <2>1, <2>2, <2>3, AdvanceType DEF MovesOn
<1>2. CASE ~CanSalvageEntries(r)
  <2>1. PICK s, v : /\ s \in {r, Salvage(r)} /\ v \in {"PARTIAL", "FAILED"}
                    /\ SalvageOrFail(r, a) = Finish(s, v)
    <3>1. CASE HoldsMentions(r)
      BY <1>2, <3>1 DEF SalvageOrFail
    <3>2. CASE ~HoldsMentions(r)
      BY <1>2, <3>2 DEF SalvageOrFail
    <3> QED
      BY <3>1, <3>2
  <2>2. s \in Rows /\ s.stage = r.stage
    BY <2>1, SalvageType
  <2>3. Finish(s, v).stage = r.stage
    BY <2>1, <2>2 DEF Finish, Rows
  <2> QED
    BY <2>1, <2>2, <2>3, FinishType DEF MovesOn
<1> QED
  BY <1>1, <1>2

LEMMA RetryType ==
  ASSUME NEW r \in Rows, NEW a \in Answers
  PROVE  LET n == Retry(r, a)
         IN  /\ n \in Rows
             /\ n.stage = r.stage /\ n.attempt = r.attempt
             /\ n.aborts = r.aborts /\ n.state = r.state
             /\ r.stage = NER => n.tagged = Max2(r.tagged, a.yield)
<1>1. PICK v \in Yields : /\ Retry(r, a) = [r EXCEPT !.tagged = v]
                          /\ r.stage = NER => v = Max2(r.tagged, a.yield)
  BY DEF Retry, Rows, Answers, Max2
<1> QED
  BY <1>1 DEF Rows

(***************************************************************************)
(* An answer is one more attempt of the stage, or the end of the stage.    *)
(***************************************************************************)
LEMMA ResponseType ==
  ASSUME NEW r \in Rows, NEW a \in Answers, NEW m \in Nat, r.state = Open
  PROVE  LET n == HandleResponse(r, a, m)
         IN  /\ n \in Rows
             /\ \/ /\ n.state = Open /\ n.stage = r.stage
                   /\ n.attempt = r.attempt + 1 /\ n.attempt < m
                   /\ n.aborts = r.aborts
                   /\ r.stage = NER => n.tagged = Max2(r.tagged, a.yield)
                \/ MovesOn(r, n, a)
             /\ n.state = "SUCCESS" /\ n.stage = NER => Passes(r, a)
<1> DEFINE scored == AddResponse(r, a)
           n == HandleResponse(r, a, m)
<1>1. /\ scored \in Rows /\ scored.state = Open /\ scored.stage = r.stage
      /\ scored.attempt = r.attempt + 1 /\ scored.aborts = r.aborts
      /\ scored.tagged = r.tagged /\ scored.attempt \in Nat
  BY AddResponseType DEF Rows
<1>2. CASE Passes(r, a)
  <2> DEFINE kept == Postprocess(scored)
  <2>1. kept \in Rows /\ kept.state = Open /\ kept.stage = r.stage
    BY <1>1, PostprocessType
  <2>2. n = AdvanceAfterStage(kept, a)
    BY <1>2 DEF HandleResponse
  <2> HIDE DEF kept, n, scored
  <2>3. MovesOn(r, n, a)
    BY <2>1, <2>2, AdvanceType DEF MovesOn
  <2> QED
    BY <1>2, <2>3 DEF MovesOn, n
<1>3. CASE ~Passes(r, a) /\ scored.attempt >= m
  <2>1. n = SalvageOrFail(scored, a)
    BY <1>3 DEF HandleResponse
  <2> HIDE DEF n, scored
  <2>2. MovesOn(r, n, a) /\ (r.stage = NER => n.state # "SUCCESS")
    BY <1>1, <2>1, SalvageOrFailType DEF MovesOn
  <2> QED
    BY <2>2 DEF MovesOn, n
<1>4. CASE ~Passes(r, a) /\ ~(scored.attempt >= m)
  <2>1. n = Retry(scored, a)
    BY <1>4 DEF HandleResponse
  <2> HIDE DEF n, scored
  <2>2. /\ n \in Rows /\ n.state = Open /\ n.stage = r.stage
        /\ n.attempt = r.attempt + 1 /\ n.attempt < m /\ n.aborts = r.aborts
        /\ r.stage = NER => n.tagged = Max2(r.tagged, a.yield)
    BY <1>1, <1>4, <2>1, RetryType
  <2> QED
    BY <2>2 DEF n
<1> QED
  BY <1>2, <1>3, <1>4

(***************************************************************************)
(* An abort is one more resend, or the end of the row, never in success.   *)
(***************************************************************************)
LEMMA AbortType ==
  ASSUME NEW r \in Rows, r.state = Open
  PROVE  LET n == HandleProviderAbort(r)
         IN  /\ n \in Rows /\ n.stage = r.stage /\ n.state # "SUCCESS"
             /\ n.state = Open => /\ n.attempt = r.attempt
                                  /\ n.aborts = r.aborts + 1
                                  /\ n.aborts <= MaxResends
                                  /\ n.tagged = r.tagged
<1> DEFINE recorded == [r EXCEPT !.aborts = @ + 1]
           n == HandleProviderAbort(r)
<1>1. /\ recorded \in Rows /\ recorded.stage = r.stage /\ recorded.state = Open
      /\ recorded.attempt = r.attempt /\ recorded.aborts = r.aborts + 1
      /\ recorded.tagged = r.tagged /\ r.aborts \in Nat
  BY DEF Rows
<1>2. CASE r.aborts < MaxResends
  <2>1. n = recorded
    BY <1>2 DEF HandleProviderAbort
  <2> QED
    BY <1>1, <1>2, <2>1, RowWorkflowAssumption
<1>3. CASE ~(r.aborts < MaxResends)
  <2>1. n = TerminateOnProviderAborts(recorded)
    BY <1>3 DEF HandleProviderAbort
  <2> HIDE DEF recorded, n
  <2>2. PICK s \in {Salvage(Postprocess(recorded)), Salvage(recorded)},
             v \in {"PARTIAL", "FAILED"} : n = Finish(s, v)
    BY <2>1 DEF TerminateOnProviderAborts
  <2>3. s \in Rows /\ s.stage = r.stage
    BY <1>1, <2>2, SalvageType, PostprocessType
  <2>4. n.stage = r.stage
    BY <2>2, <2>3 DEF Finish, Rows
  <2>5. n \in Rows /\ n.state \in Verdicts /\ n.state # "SUCCESS"
    BY <2>2, <2>3, FinishType
  <2> QED
    BY <2>4, <2>5 DEF n
<1> QED
  BY <1>2, <1>3

-----------------------------------------------------------------------------
(***************************************************************************)
(* The inductive invariant: in an open row every call of the stage is an   *)
(* attempt below the budget or an abort within the cap, and at ner the row *)
(* remembers the most any attempt tagged.                                  *)
(***************************************************************************)
RowInv ==
  /\ TypeOK
  /\ row.state = Open => /\ calls = row.attempt + row.aborts
                         /\ row.attempt < MaxBudget
                         /\ row.aborts <= MaxResends
                         /\ row.stage = NER => row.tagged = peak
  /\ CallsAreBounded
  /\ NoGiveUp

LEMMA RowInvInit == Init => RowInv
<1> SUFFICES ASSUME NEW breaks \in BOOLEAN, row = BeginRow(breaks),
                    calls = 0, peak = 0, accepted = {}
             PROVE  RowInv
  BY DEF Init
<1>1. FreshRow \in Rows /\ FreshRow.state = Open /\ FreshRow.tagged = 0
  BY DEF FreshRow, Rows
<1>2. /\ row \in Rows /\ row.stage = NER /\ row.attempt = 0 /\ row.aborts = 0
      /\ row.tagged = 0 /\ row.state # "SUCCESS"
  BY <1>1, NextStageType DEF BeginRow
<1>3. MaxBudget \in Nat /\ MaxBudget > 0
  BY BudgetBound, RowLifecycleAssumption
<1> QED
  BY <1>2, <1>3, RowWorkflowAssumption
     DEF RowInv, TypeOK, CallsAreBounded, MostCalls, NoGiveUp

(***************************************************************************)
(* What a call costs, apart from the row.                                  *)
(***************************************************************************)
LEMMA CallCost ==
  ASSUME NEW c \in Nat, NEW attempt \in Nat, NEW aborts \in Nat,
         NEW budget \in Nat, NEW resends \in Nat,
         c = attempt + aborts, attempt < budget, aborts <= resends
  PROVE  c < budget + resends
OBVIOUS

LEMMA CountedCall ==
  ASSUME RowInv, row.state = Open, CountCall
  PROVE  /\ calls' \in Nat
         /\ CallsAreBounded'
         /\ row'.stage = row.stage => calls' = row.attempt + row.aborts + 1
         /\ row'.stage # row.stage => calls' = 0
<1>1. MostCalls = MaxBudget + MaxResends /\ MaxBudget \in Nat /\ MaxResends \in Nat
  BY BudgetBound, RowWorkflowAssumption DEF MostCalls
<1>2. row.attempt \in Nat /\ row.aborts \in Nat /\ calls \in Nat
  BY DEF RowInv, TypeOK, Rows
<1>3. calls = row.attempt + row.aborts /\ row.attempt < MaxBudget
      /\ row.aborts <= MaxResends
  BY DEF RowInv
<1>4. calls < MostCalls
  BY <1>1, <1>2, <1>3, CallCost
<1>5. calls' = IF row'.stage # row.stage THEN 0 ELSE calls + 1
  BY <1>1, <1>2, <1>4 DEF CountCall
<1>6. CallsAreBounded' <=> calls' <= MostCalls
  BY DEF CallsAreBounded, MostCalls
<1>7. CASE row'.stage = row.stage
  BY <1>1, <1>2, <1>3, <1>4, <1>5, <1>6, <1>7
<1>8. CASE row'.stage # row.stage
  BY <1>1, <1>5, <1>6, <1>8
<1> QED
  BY <1>7, <1>8

LEMMA RowInvStep == RowInv /\ [Next]_vars => RowInv'
<1> SUFFICES ASSUME RowInv, [Next]_vars
             PROVE  RowInv'
  OBVIOUS
<1>1. MaxBudget \in Nat /\ MaxResends \in Nat
  BY BudgetBound, RowWorkflowAssumption
<1>2. row \in Rows /\ row.stage \in Stages /\ row.tagged \in Yields
  BY DEF RowInv, TypeOK, Rows
<1>3. peak \in Yields /\ accepted \subseteq Stages
  BY DEF RowInv, TypeOK
<1>4. row.attempt \in Nat /\ row.aborts \in Nat
  BY <1>2 DEF Rows
<1>5. ASSUME NEW a \in Answers, NEW m \in Budgets, Answer(a, m)
      PROVE  RowInv'
  <2>1. /\ row.state = Open /\ row' = HandleResponse(row, a, m) /\ CountCall
        /\ peak' = IF row.stage = NER THEN Max2(peak, a.yield) ELSE peak
        /\ accepted' \in {accepted, accepted \cup {row.stage}}
    BY <1>5 DEF Answer
  <2>2. a.yield \in Yields
    BY DEF Answers
  <2>3. m \in Nat /\ m <= MaxBudget
    BY BudgetBound
  <2>4. /\ row' \in Rows
        /\ \/ /\ row'.state = Open /\ row'.stage = row.stage
              /\ row'.attempt = row.attempt + 1 /\ row'.attempt < m
              /\ row'.aborts = row.aborts
              /\ row.stage = NER => row'.tagged = Max2(row.tagged, a.yield)
           \/ MovesOn(row, row', a)
        /\ row'.state = "SUCCESS" /\ row'.stage = NER => Passes(row, a)
    BY <1>2, <2>1, <2>3, ResponseType
  <2>5. TypeOK' /\ CallsAreBounded'
    <3>1. peak' \in Yields
      BY <1>3, <2>1, <2>2 DEF Max2
    <3>2. accepted' \subseteq Stages
      BY <1>2, <1>3, <2>1
    <3> QED
      BY <2>1, <2>4, <3>1, <3>2, CountedCall DEF TypeOK
  <2>6. NoGiveUp'
    <3> SUFFICES ASSUME row'.state = "SUCCESS", row'.stage = NER
                 PROVE  peak' < Several
      BY DEF NoGiveUp
    <3>1. row.stage = NER /\ a.yield < Several
      BY <2>4 DEF MovesOn
    <3>2. row.tagged # Several
      BY <2>2, <2>4, <3>1 DEF Passes
    <3>3. peak # Several
      BY <2>1, <3>1, <3>2 DEF RowInv
    <3> QED
      BY <1>3, <2>1, <2>2, <3>1, <3>3 DEF Max2
  <2>7. CASE row'.state # Open
    BY <2>5, <2>6, <2>7 DEF RowInv
  <2>8. CASE row'.state = Open /\ MovesOn(row, row', a)
    <3>1. /\ row'.stage # row.stage /\ row'.stage # NER
          /\ row'.attempt = 0 /\ row'.aborts = 0
      BY <2>8 DEF MovesOn
    <3>2. calls' = 0
      BY <2>1, <3>1, CountedCall
    <3>3. 0 < MaxBudget
      BY BudgetBound, RowLifecycleAssumption
    <3> QED
      BY <1>1, <2>5, <2>6, <3>1, <3>2, <3>3 DEF RowInv
  <2>9. CASE row'.state = Open /\ ~MovesOn(row, row', a)
    <3>1. /\ row'.stage = row.stage /\ row'.attempt = row.attempt + 1
          /\ row'.attempt < m /\ row'.aborts = row.aborts
          /\ row.stage = NER => row'.tagged = Max2(row.tagged, a.yield)
      BY <2>4, <2>9
    <3>2. calls' = row'.attempt + row'.aborts
      BY <1>4, <2>1, <3>1, CountedCall
    <3>3. row'.attempt < MaxBudget
      BY <1>1, <1>4, <2>3, <3>1
    <3>4. row'.aborts <= MaxResends
      BY <2>1, <3>1 DEF RowInv
    <3>5. row'.stage = NER => row'.tagged = peak'
      BY <2>1, <3>1 DEF RowInv
    <3> QED
      BY <2>5, <2>6, <3>2, <3>3, <3>4, <3>5 DEF RowInv
  <2> QED
    BY <2>7, <2>8, <2>9
<1>6. CASE Abort
  <2>1. row.state = Open /\ CountCall /\ UNCHANGED <<peak, accepted>>
        /\ row' = HandleProviderAbort(row)
    BY <1>6 DEF Abort
  <2>2. /\ row' \in Rows /\ row'.stage = row.stage /\ row'.state # "SUCCESS"
        /\ row'.state = Open => /\ row'.attempt = row.attempt
                                /\ row'.aborts = row.aborts + 1
                                /\ row'.aborts <= MaxResends
                                /\ row'.tagged = row.tagged
    BY <1>2, <2>1, AbortType
  <2>3. TypeOK' /\ CallsAreBounded' /\ NoGiveUp'
    BY <1>3, <2>1, <2>2, CountedCall DEF TypeOK, NoGiveUp
  <2>4. CASE row'.state = Open
    <3>1. calls' = row'.attempt + row'.aborts
      BY <1>4, <2>1, <2>2, <2>4, CountedCall
    <3>2. row'.attempt < MaxBudget /\ (row'.stage = NER => row'.tagged = peak')
      BY <2>1, <2>2, <2>4 DEF RowInv
    <3> QED
      BY <2>2, <2>3, <2>4, <3>1, <3>2 DEF RowInv
  <2>5. CASE row'.state # Open
    BY <2>3, <2>5 DEF RowInv
  <2> QED
    BY <2>4, <2>5
<1>7. CASE CallFails
  <2>1. row.state = Open /\ CountCall /\ UNCHANGED <<peak, accepted>>
        /\ row' = Finish(row, "ERROR")
    BY <1>7 DEF CallFails, RecordStageError
  <2>2. row' \in Rows /\ row'.state \in Verdicts /\ row'.state # "SUCCESS"
    BY <1>2, <2>1, FinishType
  <2> QED
    BY <1>3, <2>1, <2>2, CountedCall DEF RowInv, TypeOK, NoGiveUp
<1>8. CASE UNCHANGED vars
  BY <1>8 DEF vars, RowInv, TypeOK, CallsAreBounded, NoGiveUp
<1> QED
  BY <1>5, <1>6, <1>7, <1>8 DEF Next

(* Theorem: a row is always one that to_state_dict could write                *)
(* (state.py:251-272).                                                        *)
THEOREM TypeCorrect == Spec => []TypeOK
<1>1. RowInv => TypeOK
  BY DEF RowInv
<1> QED
  BY <1>1, RowInvInit, RowInvStep, PTL DEF Spec

(* Theorem: a stage never costs more calls than the largest attempt budget    *)
(* plus the resend cap (workflow.py:90, 96-107, 181-183).                     *)
THEOREM CostIsBounded == Spec => []CallsAreBounded
<1>1. RowInv => CallsAreBounded
  BY DEF RowInv
<1> QED
  BY <1>1, RowInvInit, RowInvStep, PTL DEF Spec

(* Theorem: no item on which some attempt tagged a debt instrument ends as    *)
(* free of debt (stages.py:156-219, workflow.py:209-214).                     *)
THEOREM NobodyGivesUp == Spec => []NoGiveUp
<1>1. RowInv => NoGiveUp
  BY DEF RowInv
<1> QED
  BY <1>1, RowInvInit, RowInvStep, PTL DEF Spec

-----------------------------------------------------------------------------
(***************************************************************************)
(* What a row holds in each stage, and what its verdict says of it, given  *)
(* the stages an answer of which validated.                                *)
(***************************************************************************)
Sound(r, acc) ==
  /\ r \in Rows
  /\ r.state = Open /\ r.stage = NER => r.valid = 0
  /\ r.state = Open /\ r.stage # RELATION => r.mentions = 0 /\ ~r.salvaged
  /\ r.state = Open /\ r.stage = RELATION => r.mentions > 0
  /\ r.stage # NER => NER \in acc
  /\ r.stage = RELATION /\ ~r.salvaged => IE \in acc
  /\ r.state = "SUCCESS" => r.stage \in acc /\ ~r.salvaged
  /\ r.state = "FAILED" => r.mentions = 0 /\ r.valid = 0
  /\ r.state = "PARTIAL" => r.mentions > 0 /\ r.salvaged

LEMMA FinishFields ==
  ASSUME NEW r \in Rows, NEW v \in Verdicts
  PROVE  LET n == Finish(r, v)
         IN  /\ n \in Rows /\ n.stage = r.stage /\ n.valid = r.valid
             /\ n.mentions = r.mentions /\ n.salvaged = r.salvaged
             /\ n.state = IF v = "SUCCESS" /\ r.salvaged THEN "PARTIAL" ELSE v
BY DEF Finish, Rows

LEMMA NextStageFields ==
  ASSUME NEW r \in Rows, NEW stage \in Stages, NEW breaks \in BOOLEAN
  PROVE  LET n == NextStage(r, stage, breaks)
         IN  /\ n \in Rows /\ n.stage = stage /\ n.valid = r.valid
             /\ n.mentions = r.mentions /\ n.salvaged = r.salvaged
             /\ n.state = IF breaks THEN "ERROR" ELSE r.state
<1> DEFINE begun == [r EXCEPT !.stage = stage, !.attempt = 0, !.aborts = 0]
<1>1. /\ begun \in Rows /\ begun.stage = stage /\ begun.valid = r.valid
      /\ begun.mentions = r.mentions /\ begun.salvaged = r.salvaged
      /\ begun.state = r.state
  BY DEF Rows
<1>2. NextStage(r, stage, breaks) = IF breaks THEN Finish(begun, "ERROR") ELSE begun
  BY DEF NextStage, RecordStageError
<1> HIDE DEF begun
<1> QED BY <1>1, <1>2, FinishFields

LEMMA AdvanceSound ==
  ASSUME NEW r \in Rows, NEW a \in Answers, NEW acc,
         r.state = Open, NER \in acc, r.stage = RELATION => RELATION \in acc,
         r.stage # NER => r.salvaged \/ IE \in acc,
         r.stage = NER => r.mentions = 0 /\ ~r.salvaged,
         r.salvaged \/ r.stage = RELATION => r.mentions > 0
  PROVE  Sound(AdvanceAfterStage(r, a), acc)
<1>1. a.breaks \in BOOLEAN /\ r.stage \in Stages /\ r.mentions \in Yields
  BY DEF Answers, Rows
<1>2. CASE /\ AdvanceAfterStage(r, a) = Finish(r, "SUCCESS")
           /\ r.stage # RELATION \/ RELATION \in acc
  BY <1>1, <1>2, FinishFields DEF Sound
<1>3. CASE r.stage = NER /\ AdvanceAfterStage(r, a) = NextStage(r, IE, a.breaks)
  BY <1>1, <1>3, NextStageFields DEF Sound
<1>4. CASE /\ r.stage = IE /\ r.mentions > 1
           /\ AdvanceAfterStage(r, a) = NextStage(r, RELATION, a.breaks)
  BY <1>1, <1>4, NextStageFields DEF Sound
<1> QED BY <1>1, <1>2, <1>3, <1>4 DEF AdvanceAfterStage

LEMMA SalvageFields ==
  ASSUME NEW r \in Rows
  PROVE  /\ LET s == Salvage(r)
            IN  /\ s \in Rows /\ s.stage = r.stage /\ s.valid = r.valid /\ s.state = r.state
                /\ s.mentions = r.mentions /\ s.salvaged
         /\ LET s == Postprocess(r)
            IN  /\ s \in Rows /\ s.stage = r.stage /\ s.valid = r.valid /\ s.state = r.state
                /\ s.mentions = IF r.stage = IE THEN r.valid ELSE r.mentions
                /\ s.salvaged = r.salvaged
BY DEF Salvage, Postprocess, Rows

LEMMA SalvageOrFailSound ==
  ASSUME NEW r \in Rows, NEW a \in Answers, NEW acc, Sound(r, acc), r.state = Open
  PROVE  Sound(SalvageOrFail(r, a), acc)
<1>1. r.stage \in Stages /\ r.valid \in Yields /\ r.mentions \in Yields
  BY DEF Rows
<1>2. CASE CanSalvageEntries(r)
  <2> DEFINE kept == Postprocess(Salvage(r))
  <2>1. r.stage = IE /\ r.valid > 0
    BY <1>2 DEF CanSalvageEntries
  <2>2. /\ kept \in Rows /\ kept.state = Open /\ kept.stage = IE
        /\ kept.mentions = r.valid /\ kept.salvaged
    BY <2>1, SalvageFields
  <2>3. SalvageOrFail(r, a) = AdvanceAfterStage(kept, a)
    BY <1>2, <2>1 DEF SalvageOrFail, HoldsMentions
  <2>4. NER \in acc
    BY <2>1 DEF Sound
  <2> HIDE DEF kept
  <2> QED BY <2>1, <2>2, <2>3, <2>4, AdvanceSound
<1>3. CASE HoldsMentions(r)
  <2>1. r.stage = RELATION /\ r.mentions > 0
    BY <1>3 DEF HoldsMentions
  <2>2. SalvageOrFail(r, a) = Finish(Salvage(r), "PARTIAL")
    BY <1>3, <2>1 DEF SalvageOrFail, CanSalvageEntries
  <2> QED BY <2>1, <2>2, SalvageFields, FinishFields DEF Sound
<1>4. CASE ~CanSalvageEntries(r) /\ ~HoldsMentions(r)
  <2>1. SalvageOrFail(r, a) = Finish(r, "FAILED")
    BY <1>4 DEF SalvageOrFail
  <2>2. r.mentions = 0 /\ r.valid = 0
    BY <1>1, <1>4 DEF Sound, CanSalvageEntries, HoldsMentions
  <2> QED BY <2>1, <2>2, FinishFields DEF Sound
<1> QED BY <1>2, <1>3, <1>4

LEMMA ResponseSound ==
  ASSUME NEW r \in Rows, NEW a \in Answers, NEW m \in Nat, NEW acc,
         Sound(r, acc), r.state = Open
  PROVE  Sound(HandleResponse(r, a, m), IF Passes(r, a) THEN acc \cup {r.stage} ELSE acc)
<1> DEFINE scored == AddResponse(r, a)
<1>1. /\ scored \in Rows /\ scored.stage = r.stage /\ scored.state = Open
      /\ scored.mentions = r.mentions /\ scored.salvaged = r.salvaged
      /\ r.stage # IE => scored.valid = r.valid
  <2>1. scored = [r EXCEPT !.attempt = @ + 1,
                           !.valid = IF r.stage = IE THEN a.yield ELSE r.valid]
    BY DEF AddResponse
  <2> QED BY <2>1, AddResponseType DEF Rows
<1>2. r.stage \in Stages /\ r.mentions \in Yields /\ r.salvaged \in BOOLEAN
  BY DEF Rows
<1>3. Sound(scored, acc)
  <2> HIDE DEF scored
  <2> QED BY <1>1, <1>2 DEF Sound
<1>4. CASE Passes(r, a)
  <2> DEFINE kept == Postprocess(scored)
             now  == acc \cup {r.stage}
  <2>1. HandleResponse(r, a, m) = AdvanceAfterStage(kept, a)
    BY <1>4 DEF HandleResponse
  <2>2. /\ kept \in Rows /\ kept.stage = r.stage /\ kept.state = Open
        /\ r.stage # IE => kept.mentions = r.mentions
        /\ kept.salvaged = r.salvaged
    <3> HIDE DEF scored
    <3> QED BY <1>1, SalvageFields
  <2> HIDE DEF kept
  <2>3. /\ NER \in now /\ r.stage \in now
        /\ r.stage # NER => r.salvaged \/ IE \in now
    BY <1>2 DEF Sound
  <2>4. /\ kept.stage = NER => kept.mentions = 0 /\ ~kept.salvaged
        /\ kept.salvaged \/ kept.stage = RELATION => kept.mentions > 0
    BY <1>2, <2>2 DEF Sound
  <2> HIDE DEF now
  <2>5. Sound(AdvanceAfterStage(kept, a), now)
    BY <2>2, <2>3, <2>4, AdvanceSound
  <2> QED BY <1>4, <2>1, <2>5 DEF now
<1>5. CASE ~Passes(r, a) /\ scored.attempt >= m
  <2>1. HandleResponse(r, a, m) = SalvageOrFail(scored, a)
    BY <1>5 DEF HandleResponse
  <2> HIDE DEF scored
  <2> QED BY <1>1, <1>3, <1>5, <2>1, SalvageOrFailSound
<1>6. CASE ~Passes(r, a) /\ ~(scored.attempt >= m)
  <2>1. HandleResponse(r, a, m) = Retry(scored, a)
    BY <1>6 DEF HandleResponse
  <2> HIDE DEF scored
  <2>2. LET n == Retry(scored, a)
        IN  /\ n \in Rows /\ n.stage = scored.stage /\ n.state = scored.state
            /\ n.valid = scored.valid /\ n.mentions = scored.mentions
            /\ n.salvaged = scored.salvaged
    BY <1>1, RetryType DEF Retry, Rows
  <2> QED BY <1>1, <1>3, <1>6, <2>1, <2>2 DEF Sound
<1> QED BY <1>4, <1>5, <1>6

LEMMA AbortSound ==
  ASSUME NEW r \in Rows, NEW acc, Sound(r, acc), r.state = Open
  PROVE  Sound(HandleProviderAbort(r), acc)
<1> DEFINE recorded == [r EXCEPT !.aborts = @ + 1]
<1>1. /\ recorded \in Rows /\ recorded.stage = r.stage /\ recorded.state = Open
      /\ recorded.valid = r.valid /\ recorded.mentions = r.mentions
      /\ recorded.salvaged = r.salvaged
  BY DEF Rows
<1>2. HandleProviderAbort(r) = IF r.aborts < MaxResends THEN recorded
                               ELSE TerminateOnProviderAborts(recorded)
  BY DEF HandleProviderAbort
<1> HIDE DEF recorded
<1>3. r.stage \in Stages /\ r.valid \in Yields /\ r.mentions \in Yields
  BY DEF Rows
<1>4. Sound(recorded, acc)
  BY <1>1 DEF Sound
<1>5. Sound(TerminateOnProviderAborts(recorded), acc)
  <2> DEFINE kept == Salvage(Postprocess(recorded))
  <2>1. /\ kept \in Rows /\ kept.stage = r.stage /\ kept.salvaged
        /\ kept.mentions = IF r.stage = IE THEN r.valid ELSE r.mentions
    BY <1>1, SalvageFields
  <2>2. TerminateOnProviderAborts(recorded) =
          CASE CanSalvageEntries(recorded) /\ kept.mentions > 0 -> Finish(kept, "PARTIAL")
            [] HoldsMentions(recorded) -> Finish(Salvage(recorded), "PARTIAL")
            [] OTHER -> Finish(Salvage(recorded), "FAILED")
    BY DEF TerminateOnProviderAborts
  <2> HIDE DEF kept
  <2>3. CASE CanSalvageEntries(recorded)
    <3>1. r.stage = IE /\ r.valid > 0 /\ kept.mentions > 0
      BY <1>1, <2>1, <2>3 DEF CanSalvageEntries
    <3>2. TerminateOnProviderAborts(recorded) = Finish(kept, "PARTIAL")
      BY <1>1, <2>2, <2>3, <3>1 DEF HoldsMentions
    <3> QED BY <1>1, <1>4, <2>1, <3>1, <3>2, FinishFields DEF Sound
  <2>4. CASE HoldsMentions(recorded)
    <3>1. r.stage = RELATION /\ r.mentions > 0
      BY <1>1, <2>4 DEF HoldsMentions
    <3>2. TerminateOnProviderAborts(recorded) = Finish(Salvage(recorded), "PARTIAL")
      BY <1>1, <2>2, <2>4, <3>1 DEF CanSalvageEntries
    <3> QED BY <1>1, <1>4, <3>1, <3>2, SalvageFields, FinishFields DEF Sound
  <2>5. CASE ~CanSalvageEntries(recorded) /\ ~HoldsMentions(recorded)
    <3>1. TerminateOnProviderAborts(recorded) = Finish(Salvage(recorded), "FAILED")
      BY <2>2, <2>5
    <3>2. r.mentions = 0 /\ r.valid = 0
      BY <1>1, <1>3, <2>5 DEF Sound, CanSalvageEntries, HoldsMentions
    <3> QED BY <1>1, <1>4, <3>1, <3>2, SalvageFields, FinishFields DEF Sound
  <2> QED BY <2>3, <2>4, <2>5
<1> QED BY <1>2, <1>4, <1>5

LEMMA RowsAreSound == Spec => [](Sound(row, accepted))
<1>1. Init => Sound(row, accepted)
  <2>1. FreshRow \in Rows /\ FreshRow.state = Open /\ FreshRow.valid = 0
        /\ FreshRow.mentions = 0 /\ FreshRow.salvaged = FALSE
    BY DEF FreshRow, Rows
  <2> QED BY <2>1, NextStageFields DEF Init, BeginRow, Sound
<1>2. Sound(row, accepted) /\ [Next]_vars => Sound(row, accepted)'
  <2> SUFFICES ASSUME Sound(row, accepted), [Next]_vars PROVE Sound(row', accepted')
    BY DEF Sound
  <2>1. row \in Rows
    BY DEF Sound
  <2>2. ASSUME NEW a \in Answers, NEW m \in Budgets, Answer(a, m)
        PROVE  Sound(row', accepted')
    <3>1. m \in Nat
      BY BudgetBound
    <3> QED BY <2>1, <2>2, <3>1, ResponseSound DEF Answer
  <2>3. CASE Abort
    BY <2>1, <2>3, AbortSound DEF Abort
  <2>4. CASE CallFails
    BY <2>1, <2>4, FinishFields DEF CallFails, RecordStageError, Sound
  <2>5. CASE UNCHANGED vars
    BY <2>5 DEF vars
  <2> QED BY <2>2, <2>3, <2>4, <2>5 DEF Next
<1> QED BY <1>1, <1>2, PTL DEF Spec

(* Theorem: SUCCESS means that every stage the row went through was answered  *)
(* validly (state.py:226, workflow.py:231-265).                               *)
THEOREM SuccessNeedsAnswers == Spec => []SuccessIsEarned
<1>1. Sound(row, accepted) => SuccessIsEarned
  BY DEF Sound, SuccessIsEarned
<1> QED
  BY <1>1, RowsAreSound, PTL

(* Theorem: a row is FAILED only when it holds nothing worth keeping, and     *)
(* PARTIAL only when it publishes something (workflow.py:143-168, 245-265).   *)
THEOREM FindsAreKept == Spec => []NothingFoundIsThrownAway
<1>1. Sound(row, accepted) => NothingFoundIsThrownAway
  BY DEF Sound, NothingFoundIsThrownAway
<1> QED
  BY <1>1, RowsAreSound, PTL
=============================================================================
