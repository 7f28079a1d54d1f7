---------------------------- MODULE RowWorkflow ----------------------------
(***************************************************************************)
(* One row of the extractor as data: the stages an item goes through and   *)
(* what each answer, provider abort or error does to it                    *)
(* (extractor/workflow.py, state.py, stages.py).  The live loop and the    *)
(* batch fold both apply these operators to a row of theirs.               *)
(*                                                                         *)
(* An answer is abstracted to what the workflow can tell apart.            *)
(*   ok      its structure passes the stage's own checks: XML that echoes  *)
(*           the input, or a JSON array whose every entry is valid;        *)
(*   yield   what it found.  At ner: 0 no tag, 1 entity tags only, 2 some  *)
(*           debt_instrument.  At instrument_ie: how many of its entries   *)
(*           are valid, 2 standing for "several";                          *)
(*   breaks  the next stage cannot build its prompt from it.               *)
(***************************************************************************)
EXTENDS Integers

CONSTANT MaxResends   \* MAX_CONTENT_FILTER_RESENDS

ASSUME RowWorkflowAssumption == MaxResends \in Nat

NER      == "ner"
IE       == "instrument_ie"
RELATION == "instrument_relation"
Stages   == {NER, IE, RELATION}

Several == 2
Yields  == 0 .. Several
Answers == [ok : BOOLEAN, yield : Yields, breaks : BOOLEAN]

Open     == "open"
Verdicts == {"SUCCESS", "PARTIAL", "FAILED", "ERROR"}
(***************************************************************************)
(* A row: its current stage, the attempts scored and the calls aborted in  *)
(* that stage, the most any scored ner attempt tagged, the valid entries   *)
(* of its last instrument_ie answer, the mentions it holds, whether some-  *)
(* thing was salvaged, and its verdict.                                    *)
(***************************************************************************)
Rows == [stage : Stages, attempt : Nat, aborts : Nat, tagged : Yields,
         valid : Yields, mentions : Yields, salvaged : BOOLEAN,
         state : Verdicts \cup {Open}]

FreshRow ==
  [stage |-> NER, attempt |-> 0, aborts |-> 0, tagged |-> 0, valid |-> 0,
   mentions |-> 0, salvaged |-> FALSE, state |-> Open]

\* Faulty: a salvaged row finishes as if nothing had been lost.
FinishPlain(row, verdict) == [row EXCEPT !.state = verdict]

Finish(row, verdict) ==
  [row EXCEPT !.state =
     IF verdict = "SUCCESS" /\ row.salvaged THEN "PARTIAL" ELSE verdict]

RecordStageError(row) == Finish(row, "ERROR")

\* The next stage begins with a fresh attempt; a preprocess that raises ends it.
NextStage(row, stage, breaks) ==
  LET begun == [row EXCEPT !.stage = stage, !.attempt = 0, !.aborts = 0]
  IN  IF breaks THEN RecordStageError(begun) ELSE begun

\* `initial_messages`
BeginRow(breaks) == NextStage(FreshRow, NER, breaks)

Max2(a, b) == IF a > b THEN a ELSE b

\* Faulty: the cross-attempt checks of NERStage.validate are missing.
PassesStructure(row, a) == a.ok

\* `validate`: at ner an answer may not drop what an earlier attempt tagged,
\* neither every entity nor every debt_instrument.
Passes(row, a) ==
  /\ a.ok
  /\ row.stage = NER =>
       /\ row.tagged > 0 => a.yield > 0
       /\ row.tagged = Several => a.yield = Several

\* Faulty: an invalid answer costs no attempt.
AddResponseUncounted(row, a) ==
  [row EXCEPT !.valid = IF row.stage = IE THEN a.yield ELSE @]

\* `add_response`: scored, and it replaces the stage's last response.  Only a
\* failed ner attempt is ever read again, so tagging is recorded on retry.
AddResponse(row, a) ==
  [row EXCEPT !.attempt = @ + 1,
              !.valid = IF row.stage = IE THEN a.yield ELSE @]

\* `postprocess`: instrument_ie turns its valid entries into mentions.
Postprocess(row) ==
  IF row.stage = IE THEN [row EXCEPT !.mentions = row.valid] ELSE row

AdvanceAfterStage(row, a) ==
  CASE row.stage = NER ->
         IF a.yield < Several THEN Finish(row, "SUCCESS")
                              ELSE NextStage(row, IE, a.breaks)
    [] row.stage = IE ->
         IF row.mentions <= 1 THEN Finish(row, "SUCCESS")
                              ELSE NextStage(row, RELATION, a.breaks)
    [] row.stage = RELATION -> Finish(row, "SUCCESS")

Salvage(row) == [row EXCEPT !.salvaged = TRUE]

\* `salvage_instrument_ie_entries`
CanSalvageEntries(row) == row.stage = IE /\ row.valid > 0

HoldsMentions(row) == row.stage = RELATION /\ row.mentions > 0

\* Faulty: an exhausted stage always fails the row.
FailExhausted(row, a) == Finish(row, "FAILED")

SalvageOrFail(row, a) ==
  CASE CanSalvageEntries(row) -> AdvanceAfterStage(Postprocess(Salvage(row)), a)
    [] HoldsMentions(row)     -> Finish(Salvage(row), "PARTIAL")
    [] OTHER                  -> Finish(row, "FAILED")

Retry(row, a) ==
  [row EXCEPT !.tagged = IF row.stage = NER THEN Max2(@, a.yield) ELSE @]

\* Faulty: the budget is compared before the attempt is counted.
HandleResponseLate(row, a, maxAttempts) ==
  LET scored == AddResponse(row, a)
  IN  CASE Passes(row, a) -> AdvanceAfterStage(Postprocess(scored), a)
        [] ~Passes(row, a) /\ row.attempt >= maxAttempts -> SalvageOrFail(scored, a)
        [] OTHER -> Retry(scored, a)

HandleResponse(row, a, maxAttempts) ==
  LET scored == AddResponse(row, a)
  IN  CASE Passes(row, a) -> AdvanceAfterStage(Postprocess(scored), a)
        [] ~Passes(row, a) /\ scored.attempt >= maxAttempts -> SalvageOrFail(scored, a)
        [] OTHER -> Retry(scored, a)

\* At the resend cap.  A salvage at instrument_ie finishes here.
TerminateOnProviderAborts(row) ==
  LET kept == Salvage(Postprocess(row))
  IN  CASE CanSalvageEntries(row) /\ kept.mentions > 0 -> Finish(kept, "PARTIAL")
        [] HoldsMentions(row) -> Finish(Salvage(row), "PARTIAL")
        [] OTHER -> Finish(Salvage(row), "FAILED")

HandleProviderAbort(row) ==
  LET recorded == [row EXCEPT !.aborts = @ + 1]
  IN  IF row.aborts < MaxResends THEN recorded
                                 ELSE TerminateOnProviderAborts(recorded)
=============================================================================
