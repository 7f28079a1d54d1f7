--------------------------- MODULE BatchJobProofs ---------------------------
(***************************************************************************)
(* Proofs about BatchJob, for any items, caps and attempts, with gaps in   *)
(* the provider's listing and any number of deaths.                        *)
(***************************************************************************)
EXTENDS BatchJob, FiniteSetTheorems, WellFoundedInduction, NaturalsInduction, TLAPS

(***************************************************************************)
(* Where the tick stands, the stored rows are those in memory: a chunk is  *)
(* built, and a tick settled, only after a save.                           *)
(***************************************************************************)
JobShape ==
  /\ mem = [rows |-> mem.rows, inflight |-> mem.inflight, known |-> mem.known]
  /\ saved = [i \in Item |-> saved[i]]
  /\ pc # "idle" => mem.rows = [i \in Item |-> mem.rows[i]]

SavedInv ==
  /\ JobShape
  /\ pc \in {"rowsSaved", "building", "submitting", "chunkSaved"} => saved = mem.rows
  /\ status = "finalizing" => pc = "idle"
  /\ FinalizesOnlyDecidedRows

LEMMA InitSavedInv == Init => SavedInv
<1> SUFFICES ASSUME Init PROVE SavedInv
  OBVIOUS
<1>1. PICK broken \in SUBSET Item :
        saved = [i \in Item |-> FreshEntry(BeginRow(i \in broken))]
  BY DEF Init
<1>2. mem = [rows |-> saved, inflight |-> <<>>, known |-> {}] /\ pc = "folded"
      /\ status = "active"
  BY DEF Init
<1>3. saved = [i \in Item |-> saved[i]]
  BY <1>1
<1> QED BY <1>2, <1>3 DEF SavedInv, JobShape, FinalizesOnlyDecidedRows

(***************************************************************************)
(* Lemma: rows that are decided, deferred or neither awaiting nor stranded.*)
(***************************************************************************)
LEMMA NothingLeft ==
  ASSUME NEW rows, DOMAIN rows = Item, Awaiting(rows) = {}, Stranded(rows) = {}
  PROVE  \A i \in Item : ~Undecided(rows[i]) \/ rows[i].deferred
BY DEF Awaiting, Stranded

LEMMA NextSavedInv == SavedInv /\ [Next]_vars => SavedInv'
<1> SUFFICES ASSUME SavedInv, [Next]_vars PROVE SavedInv'
  OBVIOUS
<1> USE DEF SavedInv
<1>1. ASSUME UNCHANGED saved, pc' = "idle", mem' = NoMemory,
             status' = status \/ status' # "finalizing"
      PROVE  SavedInv'
  BY <1>1 DEF JobShape, NoMemory, FinalizesOnlyDecidedRows
<1>2. CASE LoadJob
  <2>1. CASE ledger.there
    BY <1>2, <2>1 DEF LoadJob, GoTo, JobShape, FinalizesOnlyDecidedRows
  <2>2. CASE ~ledger.there
    BY <1>2, <2>2 DEF LoadJob, JobShape, FinalizesOnlyDecidedRows
  <2> QED BY <2>1, <2>2
<1>3. ASSUME NEW adopted, Reconcile(adopted) PROVE SavedInv'
  <2>1. /\ pc' = "reconciled" /\ UNCHANGED <<saved, status>> /\ pc = "loaded"
        /\ mem'.rows = [i \in Item |->
                         Adopt(mem.rows[i], {b \in adopted : i \in DOMAIN api[b]})]
        /\ mem' = [rows |-> mem'.rows, inflight |-> mem'.inflight, known |-> mem'.known]
    BY <1>3 DEF Reconcile, GoTo
  <2>2. mem'.rows = [i \in Item |-> mem'.rows[i]]
    BY <2>1
  <2> QED BY <2>1, <2>2 DEF JobShape, FinalizesOnlyDecidedRows
<1>4. ASSUME NEW unreadable, NEW outcome, Fold(unreadable, outcome) PROVE SavedInv'
  <2>1. /\ pc' = "folded" /\ UNCHANGED <<saved, status>> /\ pc = "reconciled"
        /\ mem' = [mem EXCEPT
             !.rows = [i \in Item |->
                        IF i \in DOMAIN outcome
                        THEN FoldEntry(@[i], outcome[i], @[i].pending \in unreadable)
                        ELSE @[i]],
             !.inflight = [b \in DOMAIN @ \ Folded(unreadable) |-> Tries(b, unreadable)]]
    BY <1>4 DEF Fold, GoTo
  <2>2. /\ mem' = [rows |-> mem'.rows, inflight |-> mem'.inflight, known |-> mem'.known]
        /\ mem'.rows = [i \in Item |-> mem'.rows[i]]
    BY <2>1 DEF JobShape
  <2> QED BY <2>1, <2>2 DEF JobShape, FinalizesOnlyDecidedRows
<1>5. CASE SaveRows \/ SaveLedger \/ SaveChunkRows \/ SaveChunkLedger
  BY <1>5 DEF SaveRows, SaveLedger, SaveChunkRows, SaveChunkLedger, GoTo, JobShape,
    FinalizesOnlyDecidedRows
<1>6. ASSUME NEW oversized, BuildRequests(oversized) PROVE SavedInv'
  <2> DEFINE rows == [i \in Item |-> IF i \in oversized
                        THEN [mem.rows[i] EXCEPT !.row = RecordStageError(@)]
                        ELSE mem.rows[i]]
  <2>1. /\ pc = "building" /\ pc' = "submitting" /\ UNCHANGED status
        /\ mem' = [mem EXCEPT !.rows = rows]
        /\ saved' = IF oversized # {} THEN rows ELSE saved
    BY <1>6 DEF BuildRequests, GoTo
  <2>2. rows = [i \in Item |-> rows[i]] /\ (oversized = {} => rows = saved)
    BY <2>1 DEF JobShape
  <2> HIDE DEF rows
  <2>3. mem'.rows = rows /\ saved' = rows
        /\ mem' = [rows |-> mem'.rows, inflight |-> mem'.inflight, known |-> mem'.known]
    BY <2>1, <2>2 DEF JobShape
  <2> QED BY <2>1, <2>2, <2>3 DEF JobShape, FinalizesOnlyDecidedRows
<1>7. ASSUME NEW chunk, Submit(chunk) PROVE SavedInv'
  <2>1. /\ pc = "submitting" /\ pc' = "submitted" /\ UNCHANGED <<saved, status>>
        /\ mem'.rows = [i \in Item |-> IF i \in chunk
                          THEN [mem.rows[i] EXCEPT !.pending = Len(api')] ELSE mem.rows[i]]
        /\ mem' = [rows |-> mem'.rows, inflight |-> mem'.inflight, known |-> mem'.known]
    BY <1>7 DEF Submit, GoTo, JobShape
  <2>2. mem'.rows = [i \in Item |-> mem'.rows[i]]
    BY <2>1
  <2> QED BY <2>1, <2>2 DEF JobShape, FinalizesOnlyDecidedRows
<1>8. CASE Settle
  <2> DEFINE stranded == Stranded(mem.rows)
  <2>1. /\ pc = "submitting" /\ pc' = "idle" /\ mem' = NoMemory /\ saved = mem.rows
        /\ saved' = IF Drained /\ stranded # {}
                    THEN [i \in Item |-> IF i \in stranded THEN Requeue(mem.rows[i])
                                         ELSE mem.rows[i]]
                    ELSE saved
        /\ status' = IF Drained /\ stranded = {} THEN "finalizing" ELSE status
    BY <1>8 DEF Settle, EndTick, GoTo
  <2>2. saved' = [i \in Item |-> saved'[i]]
    BY <2>1 DEF JobShape
  <2>3. status' = "finalizing" => \A i \in Item : ~Undecided(saved'[i]) \/ saved'[i].deferred
    <3>1. CASE Drained /\ stranded = {}
      <4>1. DOMAIN mem.rows = Item
        BY <2>1 DEF JobShape
      <4> QED BY <2>1, <3>1, <4>1, NothingLeft DEF Drained
    <3>2. CASE ~(Drained /\ stranded = {})
      BY <2>1, <3>2
    <3> QED BY <3>1, <3>2
  <2> QED BY <2>1, <2>2, <2>3 DEF JobShape, NoMemory, FinalizesOnlyDecidedRows
<1>9. CASE Crash
  BY <1>1, <1>9 DEF Crash, EndTick, GoTo
<1>10. CASE BatchEnds \/ UNCHANGED vars
  BY <1>10 DEF BatchEnds, vars, JobShape, FinalizesOnlyDecidedRows
<1> QED
  BY <1>2, <1>3, <1>4, <1>5, <1>6, <1>7, <1>8, <1>9, <1>10 DEF Next, Tick

(***************************************************************************)
(* Theorem: only a job every row of which has a verdict, or was deferred   *)
(* to the next job, is finalized (batch.py:1352-1383, outputs.py:493).     *)
(***************************************************************************)
THEOREM NoRowIsLost == Spec => []FinalizesOnlyDecidedRows
<1>1. SavedInv => FinalizesOnlyDecidedRows
  BY DEF SavedInv
<1> QED BY InitSavedInv, NextSavedInv, <1>1, PTL DEF Spec

-----------------------------------------------------------------------------
(***************************************************************************)
(* Requests are ordered by how far the row had come: its stage, then what  *)
(* was scored and aborted in it, then how often it was sent.               *)
(***************************************************************************)
Rank(stage) == IF stage = NER THEN 1 ELSE IF stage = IE THEN 2 ELSE 3

Earlier(q, r) ==
  \/ Rank(q[1]) < Rank(r[1])
  \/ /\ q[1] = r[1] /\ q[2] <= r[2] /\ q[3] <= r[3]
     /\ \/ q[2] < r[2] \/ q[3] < r[3]
        \/ q[4] <= r[4] /\ q[5] <= r[5] /\ (q[4] < r[4] \/ q[5] < r[5])

LEMMA EarlierIsAnOrder ==
  ASSUME NEW q \in Requests, NEW r \in Requests, NEW s \in Requests
  PROVE  /\ Earlier(q, r) /\ Earlier(r, s) => Earlier(q, s)
         /\ Earlier(q, r) => q # r
<1>1. /\ \A x \in {q, r, s} : /\ x[1] \in Stages /\ x[2] \in Nat /\ x[3] \in Nat
                              /\ x[4] \in Nat /\ x[5] \in Nat
  BY DEF Requests
<1>2. \A x \in Stages : Rank(x) \in 1 .. 3
  BY DEF Rank
<1>3. \A x, y \in {q, r, s} : x[1] = y[1] => Rank(x[1]) = Rank(y[1])
  OBVIOUS
<1>4. Earlier(q, r) => q # r
  BY <1>1, <1>2 DEF Earlier
<1>5. ASSUME Earlier(q, r), Earlier(r, s) PROVE Earlier(q, s)
  <2>1. CASE Rank(q[1]) < Rank(r[1]) \/ Rank(r[1]) < Rank(s[1])
    <3>1. Rank(q[1]) <= Rank(r[1]) /\ Rank(r[1]) <= Rank(s[1])
      BY <1>1, <1>2, <1>3, <1>5 DEF Earlier
    <3>2. Rank(q[1]) < Rank(s[1])
      BY <1>1, <1>2, <2>1, <3>1
    <3> QED BY <3>2 DEF Earlier
  <2>2. CASE ~(Rank(q[1]) < Rank(r[1])) /\ ~(Rank(r[1]) < Rank(s[1]))
    BY <1>1, <1>5, <2>2 DEF Earlier
  <2> QED BY <2>1, <2>2
<1> QED BY <1>4, <1>5

(***************************************************************************)
(* What an answer, an abort or an error does to an open row: it is decided,*)
(* or at a later stage, or has one more attempt or abort in this one.      *)
(***************************************************************************)
OneStageOn(r, n) == n \in Rows /\ (n.state = Open => Rank(r.stage) < Rank(n.stage))

OneStepOn(r, n) ==
  /\ n \in Rows
  /\ n.state = Open =>
       \/ Rank(r.stage) < Rank(n.stage)
       \/ /\ n.stage = r.stage /\ r.attempt <= n.attempt /\ r.aborts <= n.aborts
          /\ r.attempt < n.attempt \/ r.aborts < n.aborts

LEMMA FinishDecides ==
  ASSUME NEW r \in Rows, NEW v \in Verdicts
  PROVE  Finish(r, v) \in Rows /\ Finish(r, v).state # Open
BY DEF Finish, Rows, Verdicts, Open

LEMMA NextStageBegins ==
  ASSUME NEW r \in Rows, NEW stage \in Stages, NEW breaks \in BOOLEAN
  PROVE  /\ NextStage(r, stage, breaks) \in Rows
         /\ NextStage(r, stage, breaks).state = Open =>
              NextStage(r, stage, breaks).stage = stage
<1> DEFINE begun == [r EXCEPT !.stage = stage, !.attempt = 0, !.aborts = 0]
<1>1. begun \in Rows /\ begun.stage = stage
  BY DEF Rows
<1>2. RecordStageError(begun) \in Rows /\ RecordStageError(begun).state # Open
  <2> HIDE DEF begun
  <2> QED BY <1>1, FinishDecides DEF RecordStageError, Verdicts
<1> QED BY <1>1, <1>2 DEF NextStage

LEMMA SalvageKeepsRow ==
  ASSUME NEW r \in Rows
  PROVE  /\ Salvage(r) \in Rows /\ Salvage(r).stage = r.stage
         /\ Postprocess(r) \in Rows /\ Postprocess(r).stage = r.stage
BY DEF Salvage, Postprocess, Rows

LEMMA AdvanceMovesOn ==
  ASSUME NEW r \in Rows, NEW a \in Answers
  PROVE  OneStageOn(r, AdvanceAfterStage(r, a))
<1>1. a.breaks \in BOOLEAN /\ r.stage \in Stages
  BY DEF Answers, Rows
<1>2. OneStageOn(r, Finish(r, "SUCCESS"))
  BY FinishDecides DEF OneStageOn, Verdicts
<1>3. CASE r.stage = NER
  <2>1. OneStageOn(r, NextStage(r, IE, a.breaks))
    BY <1>1, <1>3, NextStageBegins DEF OneStageOn, Rank, Stages, NER, IE
  <2> QED BY <1>2, <1>3, <2>1 DEF AdvanceAfterStage, NER, IE, RELATION
<1>4. CASE r.stage = IE
  <2>1. OneStageOn(r, NextStage(r, RELATION, a.breaks))
    BY <1>1, <1>4, NextStageBegins DEF OneStageOn, Rank, Stages, NER, IE, RELATION
  <2> QED BY <1>2, <1>4, <2>1 DEF AdvanceAfterStage, NER, IE
<1>5. CASE r.stage = RELATION
  BY <1>2, <1>5 DEF AdvanceAfterStage, NER, IE, RELATION
<1> QED BY <1>1, <1>3, <1>4, <1>5 DEF Stages

LEMMA SalvageOrFailMovesOn ==
  ASSUME NEW r \in Rows, NEW a \in Answers
  PROVE  OneStageOn(r, SalvageOrFail(r, a))
<1>1. CASE CanSalvageEntries(r)
  <2>1. SalvageOrFail(r, a) = AdvanceAfterStage(Postprocess(Salvage(r)), a)
    BY <1>1 DEF SalvageOrFail, CanSalvageEntries, HoldsMentions, IE, RELATION
  <2>2. /\ Postprocess(Salvage(r)) \in Rows
        /\ Postprocess(Salvage(r)).stage = r.stage
    BY SalvageKeepsRow
  <2> QED BY <2>1, <2>2, AdvanceMovesOn DEF OneStageOn
<1>2. CASE ~CanSalvageEntries(r) /\ HoldsMentions(r)
  <2>1. SalvageOrFail(r, a) = Finish(Salvage(r), "PARTIAL")
    BY <1>2 DEF SalvageOrFail
  <2> QED BY <2>1, SalvageKeepsRow, FinishDecides DEF OneStageOn, Verdicts
<1>3. CASE ~CanSalvageEntries(r) /\ ~HoldsMentions(r)
  <2>1. SalvageOrFail(r, a) = Finish(r, "FAILED")
    BY <1>3 DEF SalvageOrFail
  <2> QED BY <2>1, FinishDecides DEF OneStageOn, Verdicts
<1> QED BY <1>1, <1>2, <1>3

LEMMA AnswerMovesRow ==
  ASSUME NEW r \in Rows, NEW a \in Answers
  PROVE  OneStepOn(r, HandleResponse(r, a, MaxAttempts))
<1> DEFINE scored == AddResponse(r, a)
           n == HandleResponse(r, a, MaxAttempts)
<1>1. /\ scored \in Rows /\ scored.stage = r.stage
      /\ scored.attempt = r.attempt + 1 /\ scored.aborts = r.aborts
  <2> DEFINE v == IF r.stage = IE THEN a.yield ELSE r.valid
  <2>1. v \in Yields /\ r.attempt + 1 \in Nat
    BY DEF Rows, Answers
  <2>2. scored = [r EXCEPT !.attempt = @ + 1, !.valid = v]
    BY DEF AddResponse
  <2> HIDE DEF v, scored
  <2> QED BY <2>1, <2>2 DEF Rows
<1>2. r.attempt \in Nat /\ r.aborts \in Nat
  BY DEF Rows
<1>3. n \in {AdvanceAfterStage(Postprocess(scored), a), SalvageOrFail(scored, a),
             Retry(scored, a)}
  BY DEF HandleResponse
<1> HIDE DEF scored, n
<1>4. CASE n = AdvanceAfterStage(Postprocess(scored), a)
  BY <1>1, <1>4, SalvageKeepsRow, AdvanceMovesOn DEF OneStageOn, OneStepOn, n
<1>5. CASE n = SalvageOrFail(scored, a)
  BY <1>1, <1>5, SalvageOrFailMovesOn DEF OneStageOn, OneStepOn, n
<1>6. CASE n = Retry(scored, a)
  <2>1. PICK v \in Yields : n = [scored EXCEPT !.tagged = v]
    BY <1>1, <1>6 DEF Retry, Rows, Answers, Max2
  <2>2. n \in Rows /\ n.stage = r.stage /\ n.attempt = r.attempt + 1 /\ n.aborts = r.aborts
    BY <1>1, <2>1 DEF Rows
  <2> QED BY <1>2, <2>2 DEF OneStepOn, n
<1> QED BY <1>3, <1>4, <1>5, <1>6

LEMMA AbortMovesRow ==
  ASSUME NEW r \in Rows
  PROVE  OneStepOn(r, HandleProviderAbort(r))
<1> DEFINE recorded == [r EXCEPT !.aborts = @ + 1]
           n == HandleProviderAbort(r)
<1>1. /\ recorded \in Rows /\ recorded.stage = r.stage
      /\ recorded.attempt = r.attempt /\ recorded.aborts = r.aborts + 1
      /\ r.attempt \in Nat /\ r.aborts \in Nat
  BY DEF Rows
<1>2. CASE n = recorded
  BY <1>1, <1>2 DEF OneStepOn
<1>3. CASE n = TerminateOnProviderAborts(recorded)
  <2> HIDE DEF recorded, n
  <2>1. PICK s \in {Salvage(Postprocess(recorded)), Salvage(recorded)},
             v \in {"PARTIAL", "FAILED"} : n = Finish(s, v)
    BY <1>3 DEF TerminateOnProviderAborts
  <2>2. s \in Rows
    BY <1>1, <2>1, SalvageKeepsRow
  <2> QED BY <2>1, <2>2, FinishDecides DEF OneStepOn, Verdicts, n
<1> QED BY <1>2, <1>3 DEF HandleProviderAbort

(***************************************************************************)
(* Entries, and what a folded result does to one: the row waits on nothing *)
(* and its request, if it still needs one, is a later one.                 *)
(***************************************************************************)
Entries == [row : Rows, pending : Nat, resubmissions : Nat,
            infrastructureRounds : Nat, deferred : BOOLEAN]

LEMMA RequestIsRequest ==
  ASSUME NEW e \in Entries
  PROVE  Request(e) \in Requests
BY DEF Entries, Rows, Request, Requests

FoldsTo(e, n) ==
  /\ n \in Entries /\ n.pending = NoBatch
  /\ Undecided(n) => Earlier(Request(e), Request(n))

LEMMA DeferFolds ==
  ASSUME NEW e \in Entries, e.pending = NoBatch
  PROVE  FoldsTo(e, Defer(e))
<1> DEFINE d == e.deferred \/ e.infrastructureRounds + 1 >= MaxInfraRounds
           rounds == e.infrastructureRounds + 1
           n == [e EXCEPT !.infrastructureRounds = rounds, !.deferred = d]
<1>1. Defer(e) = n
  BY DEF Defer
<1>2. d \in BOOLEAN /\ rounds \in Nat
  BY DEF Entries
<1> HIDE DEF d, rounds
<1>3. /\ n \in Entries /\ n.pending = NoBatch /\ n.row = e.row
      /\ n.resubmissions = e.resubmissions
      /\ n.infrastructureRounds = rounds
  BY <1>2 DEF Entries
<1> HIDE DEF n
<1>4. e.row \in Rows /\ e.resubmissions \in Nat /\ e.infrastructureRounds \in Nat
  BY DEF Entries
<1>5. e.row.attempt \in Nat /\ e.row.aborts \in Nat
  BY <1>4 DEF Rows
<1>6. Earlier(Request(e), Request(n))
  BY <1>3, <1>4, <1>5 DEF Earlier, Request, rounds
<1> QED BY <1>1, <1>3, <1>6 DEF FoldsTo

LEMMA ResubmitFolds ==
  ASSUME NEW e \in Entries, e.pending = NoBatch, Undecided(e)
  PROVE  FoldsTo(e, Resubmit(e))
<1> DEFINE row == IF e.resubmissions + 1 >= MaxResubmissions
                  THEN RecordStageError(e.row) ELSE e.row
           times == e.resubmissions + 1
           n == [e EXCEPT !.resubmissions = times, !.row = row]
<1>1. Resubmit(e) = n
  BY DEF Resubmit
<1>2. e.row \in Rows /\ e.resubmissions \in Nat /\ e.infrastructureRounds \in Nat
  BY DEF Entries
<1>3. row \in Rows /\ (row.state = Open => row = e.row) /\ times \in Nat
  BY <1>2, FinishDecides DEF RecordStageError, Verdicts
<1> HIDE DEF row, times
<1>4. /\ n \in Entries /\ n.pending = NoBatch /\ n.row = row
      /\ n.resubmissions = times
      /\ n.infrastructureRounds = e.infrastructureRounds
  BY <1>3 DEF Entries
<1> HIDE DEF n
<1>5. e.row.attempt \in Nat /\ e.row.aborts \in Nat
  BY <1>2 DEF Rows
<1>6. Undecided(n) => Earlier(Request(e), Request(n))
  BY <1>2, <1>3, <1>4, <1>5 DEF Earlier, Request, Undecided, times
<1> QED BY <1>1, <1>4, <1>6 DEF FoldsTo

LEMMA ScoreFolds ==
  ASSUME NEW e \in Entries, e.pending = NoBatch, NEW o \in Outcomes,
         o.kind \in {"answer", "abort", "error"}
  PROVE  FoldsTo(e, Score(e, o))
<1> DEFINE row == CASE o.kind = "answer" -> HandleResponse(e.row, o.answer, MaxAttempts)
                    [] o.kind = "abort"  -> HandleProviderAbort(e.row)
                    [] o.kind = "error"  -> RecordStageError(e.row)
           n == [e EXCEPT !.resubmissions = 0, !.row = row]
<1>1. Score(e, o) = n
  BY DEF Score
<1>2. e.row \in Rows
  BY DEF Entries
<1>3. OneStepOn(e.row, row)
  <2>1. CASE o.kind = "answer"
    <3>1. o.answer \in Answers
      BY <2>1, BatchJobAssumption DEF Outcomes
    <3> QED BY <1>2, <2>1, <3>1, AnswerMovesRow
  <2>2. CASE o.kind = "abort"
    BY <1>2, <2>2, AbortMovesRow
  <2>3. CASE o.kind = "error"
    BY <1>2, <2>3, FinishDecides DEF RecordStageError, OneStepOn, Verdicts
  <2> QED BY <2>1, <2>2, <2>3
<1> HIDE DEF row
<1>4. n \in Entries /\ n.pending = NoBatch /\ n.row = row
  BY <1>3 DEF Entries, OneStepOn
<1> HIDE DEF n
<1>5. Undecided(n) => Earlier(Request(e), Request(n))
  BY <1>3, <1>4 DEF Earlier, Request, Undecided, OneStepOn
<1> QED BY <1>1, <1>4, <1>5 DEF FoldsTo

LEMMA FoldMovesOn ==
  ASSUME NEW e \in Entries, Undecided(e), NEW o \in Outcomes, NEW unreadable \in BOOLEAN
  PROVE  FoldsTo(e, FoldEntry(e, o, unreadable))
<1> DEFINE c == [e EXCEPT !.pending = NoBatch]
           n == FoldEntry(e, o, unreadable)
<1>1. c \in Entries /\ c.pending = NoBatch /\ Undecided(c) /\ Request(c) = Request(e)
  BY DEF Entries, NoBatch, Undecided, Request
<1>2. o.kind \in {"answer", "abort", "error", "infrastructure", "none"}
  BY DEF Outcomes
<1>3. \/ n = Defer(c) \/ n = Resubmit(c)
      \/ n = Score(c, o) /\ o.kind \in {"answer", "abort", "error"}
  BY <1>2 DEF FoldEntry, InOutputFile
<1> HIDE DEF c, n
<1> QED BY <1>1, <1>3, DeferFolds, ResubmitFolds, ScoreFolds DEF FoldsTo, n

LEMMA NewestIsIn ==
  ASSUME NEW n \in Nat, NEW bs \in SUBSET (1 .. n), bs # {}
  PROVE  Newest(bs) \in bs
<1> DEFINE Bounds == {m \in Nat : \A x \in bs : x <= m}
<1>1. PICK m \in Bounds : \A y \in Bounds : ~(<<y, m>> \in OpToRel(<, Nat))
  <2>1. n \in Bounds /\ Bounds \subseteq Nat
    OBVIOUS
  <2> HIDE DEF Bounds
  <2> QED BY <2>1, NatLessThanWellFounded, WFMin
<1>2. \A y \in Bounds : ~(y < m)
  BY <1>1 DEF OpToRel
<1>3. m \in bs
  <2> SUFFICES ASSUME m \notin bs PROVE FALSE
    OBVIOUS
  <2>1. PICK x \in bs : TRUE
    OBVIOUS
  <2>2. m \in Nat /\ x \in Nat /\ x <= m /\ x # m
    BY <2>1
  <2>3. ASSUME NEW y \in bs PROVE y <= m - 1
    OBVIOUS
  <2>4. m > 0
    BY <2>2
  <2>5. m - 1 \in Bounds
    BY <2>2, <2>3, <2>4
  <2> QED BY <1>2, <2>2, <2>5
<1> QED BY <1>3 DEF Newest

(***************************************************************************)
(* Lemma: adoption attaches a row that waits on nothing to one of the      *)
(* batches that asked for it, if there is one, and moves no request.       *)
(***************************************************************************)
LEMMA AdoptAttaches ==
  ASSUME NEW e \in Entries, NEW n \in Nat, NEW bs \in SUBSET (1 .. n)
  PROVE  /\ Adopt(e, bs) \in Entries
         /\ Request(Adopt(e, bs)) = Request(e)
         /\ Undecided(Adopt(e, bs)) <=> Undecided(e)
         /\ \/ /\ Adopt(e, bs) = e
               /\ Undecided(e) /\ e.pending = NoBatch => bs = {}
            \/ /\ Undecided(e) /\ e.pending = NoBatch
               /\ Adopt(e, bs).pending \in bs
<1>1. CASE Undecided(e) /\ e.pending = NoBatch /\ bs # {}
  <2>1. Newest(bs) \in bs
    BY <1>1, NewestIsIn
  <2>2. \A b \in bs : b \in Nat
    OBVIOUS
  <2>3. PICK b \in Nat : b = Newest(bs) /\ b \in bs
    BY <2>1, <2>2
  <2>4. Adopt(e, bs) = [e EXCEPT !.pending = b]
    BY <1>1, <2>3 DEF Adopt
  <2>5. /\ Adopt(e, bs) \in Entries /\ Adopt(e, bs).pending = b
        /\ Request(Adopt(e, bs)) = Request(e)
        /\ Undecided(Adopt(e, bs)) <=> Undecided(e)
    BY <2>4 DEF Entries, Request, Undecided
  <2> QED BY <1>1, <2>3, <2>5
<1>2. CASE ~(Undecided(e) /\ e.pending = NoBatch /\ bs # {})
  <2>1. Adopt(e, bs) = e
    BY <1>2 DEF Adopt
  <2> QED BY <1>2, <2>1
<1> QED BY <1>1, <1>2

-----------------------------------------------------------------------------
(***************************************************************************)
(* What the rows, in storage and in memory, and the batches look like.     *)
(***************************************************************************)
Asks == UNION {[chunk -> Requests] : chunk \in SUBSET Item}

EntriesOk ==
  /\ api \in Seq(Asks)
  /\ saved \in [Item -> Entries]
  /\ todo \subseteq Item
  /\ pc # "idle" => mem.rows \in [Item -> Entries]

LEMMA AsksAreRequests ==
  ASSUME EntriesOk
  PROVE  /\ Len(api) \in Nat
         /\ \A b \in Batches : \A i \in DOMAIN api[b] : i \in Item /\ api[b][i] \in Requests
<1>1. ASSUME NEW b \in Batches PROVE api[b] \in Asks
  BY DEF EntriesOk, Batches
<1>2. ASSUME NEW f \in Asks, NEW i \in DOMAIN f PROVE i \in Item /\ f[i] \in Requests
  BY <1>2 DEF Asks
<1> QED BY <1>1, <1>2 DEF EntriesOk

LEMMA InitEntriesOk == Init => EntriesOk
<1> SUFFICES ASSUME Init PROVE EntriesOk
  OBVIOUS
<1>1. FreshRow \in Rows
  BY DEF FreshRow, Rows, Stages, NER, Yields, Several, Verdicts, Open
<1>2. \A breaks \in BOOLEAN : FreshEntry(BeginRow(breaks)) \in Entries
  BY <1>1, NextStageBegins DEF FreshEntry, Entries, BeginRow, NoBatch, Stages
<1>3. PICK broken \in SUBSET Item :
        saved = [i \in Item |-> FreshEntry(BeginRow(i \in broken))]
  BY DEF Init
<1>4. ASSUME NEW i \in Item PROVE FreshEntry(BeginRow(i \in broken)) \in Entries
  <2>1. (i \in broken) \in BOOLEAN
    OBVIOUS
  <2> QED BY <1>2, <2>1
<1>5. saved \in [Item -> Entries]
  BY <1>3, <1>4
<1>6. api = <<>> /\ mem.rows = saved /\ todo = {}
  BY DEF Init
<1> QED BY <1>5, <1>6 DEF EntriesOk

LEMMA NextEntriesOk == SavedInv /\ EntriesOk /\ [Next]_vars => EntriesOk'
<1> SUFFICES ASSUME SavedInv, EntriesOk, [Next]_vars PROVE EntriesOk'
  OBVIOUS
<1> USE DEF EntriesOk
<1>1. CASE LoadJob
  BY <1>1 DEF LoadJob, GoTo
<1>2. ASSUME NEW adopted, Reconcile(adopted) PROVE EntriesOk'
  <2> DEFINE bs(i) == {b \in adopted : i \in DOMAIN api[b]}
  <2>1. /\ pc # "idle" /\ UNCHANGED <<saved, api, todo>> /\ adopted \subseteq Batches
        /\ mem'.rows = [i \in Item |-> Adopt(mem.rows[i], bs(i))]
    BY <1>2 DEF Reconcile, Orphans, Batches
  <2>2. ASSUME NEW i \in Item PROVE Adopt(mem.rows[i], bs(i)) \in Entries
    <3>1. mem.rows[i] \in Entries
      BY <2>1
    <3>2. bs(i) \in SUBSET (1 .. Len(api))
      BY <2>1 DEF Batches
    <3>3. Len(api) \in Nat
      BY AsksAreRequests
    <3> HIDE DEF bs
    <3> QED BY <3>1, <3>2, <3>3, AdoptAttaches
  <2> HIDE DEF bs
  <2> QED BY <2>1, <2>2
<1>3. ASSUME NEW unreadable, NEW outcome, Fold(unreadable, outcome) PROVE EntriesOk'
  <2>1. /\ pc # "idle" /\ UNCHANGED <<saved, api, todo>>
        /\ outcome \in [FoldableRows(Folded(unreadable)) -> Outcomes]
        /\ mem'.rows = [i \in Item |->
             IF i \in DOMAIN outcome
             THEN FoldEntry(mem.rows[i], outcome[i], mem.rows[i].pending \in unreadable)
             ELSE mem.rows[i]]
    BY <1>3 DEF Fold, SavedInv, JobShape
  <2>2. ASSUME NEW i \in Item PROVE mem'.rows[i] \in Entries
    <3>1. mem.rows[i] \in Entries
      BY <2>1
    <3>2. CASE i \in DOMAIN outcome
      <4>1. Undecided(mem.rows[i]) /\ outcome[i] \in Outcomes
        BY <2>1, <3>2 DEF FoldableRows
      <4>2. (mem.rows[i].pending \in unreadable) \in BOOLEAN
        OBVIOUS
      <4>3. FoldsTo(mem.rows[i],
                    FoldEntry(mem.rows[i], outcome[i], mem.rows[i].pending \in unreadable))
        BY <3>1, <4>1, <4>2, FoldMovesOn
      <4> QED BY <2>1, <3>2, <4>3 DEF FoldsTo
    <3>3. CASE i \notin DOMAIN outcome
      BY <2>1, <3>1, <3>3
    <3> QED BY <3>2, <3>3
  <2> QED BY <2>1, <2>2
<1>4. CASE SaveRows \/ SaveLedger \/ SaveChunkRows \/ SaveChunkLedger
  BY <1>4 DEF SaveRows, SaveLedger, SaveChunkRows, SaveChunkLedger
<1>5. ASSUME NEW oversized, BuildRequests(oversized) PROVE EntriesOk'
  <2> DEFINE rows == [i \in Item |-> IF i \in oversized
                        THEN [mem.rows[i] EXCEPT !.row = RecordStageError(@)]
                        ELSE mem.rows[i]]
  <2>1. /\ pc # "idle" /\ UNCHANGED api
        /\ mem'.rows = rows
        /\ saved' = IF oversized # {} THEN rows ELSE saved
        /\ todo' \subseteq Item
    BY <1>5 DEF BuildRequests, SavedInv, JobShape, Awaiting
  <2>2. ASSUME NEW i \in Item PROVE rows[i] \in Entries
    <3>1. mem.rows[i] \in Entries /\ mem.rows[i].row \in Rows
      BY <2>1 DEF Entries
    <3>2. RecordStageError(mem.rows[i].row) \in Rows
      BY <3>1, FinishDecides DEF RecordStageError, Verdicts
    <3> QED BY <3>1, <3>2 DEF Entries
  <2>3. rows \in [Item -> Entries]
    BY <2>2
  <2> HIDE DEF rows
  <2> QED BY <2>1, <2>3
<1>6. ASSUME NEW chunk, Submit(chunk) PROVE EntriesOk'
  <2>1. /\ pc # "idle" /\ UNCHANGED saved
        /\ chunk \subseteq Item /\ todo' \subseteq Item
        /\ api' = Append(api, Asked(chunk))
        /\ mem'.rows = [i \in Item |-> IF i \in chunk
                          THEN [mem.rows[i] EXCEPT !.pending = Len(api')] ELSE mem.rows[i]]
    BY <1>6 DEF Submit, SavedInv, JobShape
  <2>2. Asked(chunk) \in Asks
    <3>1. \A i \in chunk : Request(mem.rows[i]) \in Requests
      BY <2>1, RequestIsRequest
    <3>2. Asked(chunk) \in [chunk -> Requests]
      BY <3>1 DEF Asked
    <3> QED BY <2>1, <3>2 DEF Asks
  <2>3. api' \in Seq(Asks) /\ Len(api') \in Nat
    BY <2>1, <2>2
  <2>4. ASSUME NEW i \in Item PROVE mem'.rows[i] \in Entries
    <3>1. mem.rows[i] \in Entries
      BY <2>1
    <3>2. [mem.rows[i] EXCEPT !.pending = Len(api')] \in Entries
      BY <2>3, <3>1 DEF Entries
    <3> QED BY <2>1, <3>1, <3>2
  <2> QED BY <2>1, <2>3, <2>4
<1>7. CASE Settle
  <2>1. /\ pc' = "idle" /\ UNCHANGED api /\ todo' = {}
        /\ \/ saved' = saved
           \/ saved' = [i \in Item |-> IF i \in Stranded(mem.rows) THEN Requeue(mem.rows[i])
                                       ELSE mem.rows[i]]
        /\ mem.rows \in [Item -> Entries]
    BY <1>7 DEF Settle, EndTick, GoTo
  <2>2. ASSUME NEW i \in Item PROVE Requeue(mem.rows[i]) \in Entries
    BY <2>1 DEF Requeue, Entries, NoBatch
  <2> QED BY <2>1, <2>2
<1>8. CASE Crash
  BY <1>8 DEF Crash, EndTick, GoTo
<1>9. CASE BatchEnds \/ UNCHANGED vars
  BY <1>9 DEF BatchEnds, vars
<1> QED
  BY <1>1, <1>2, <1>3, <1>4, <1>5, <1>6, <1>7, <1>8, <1>9 DEF Next, Tick

-----------------------------------------------------------------------------
(***************************************************************************)
(* The sendings of an item's requests so far, in one batch or another, and *)
(* what is certain about them: none is ahead of the request the row is at. *)
(***************************************************************************)
NotAhead(e, i) ==
  \A b \in AskedBy(i) : api[b][i] = Request(e) \/ Earlier(api[b][i], Request(e))

InTick == pc \notin {"idle", "loaded"}

Unrecorded == Batches \ ledger.known

(***************************************************************************)
(* The books of the job.  A tick that has reconciled knows every batch; it *)
(* tracks those the stored ledger tracks and those the ledger has yet to   *)
(* learn of, and submits only when the two agree.                          *)
(***************************************************************************)
LedgerOk ==
  /\ DOMAIN ledger.inflight \subseteq ledger.known /\ ledger.known \subseteq Batches
  /\ pc = "loaded" => /\ mem.rows = saved /\ mem.known = ledger.known
                      /\ mem.inflight = ledger.inflight
  /\ InTick => /\ mem.known = Batches /\ DOMAIN mem.inflight \subseteq mem.known
               /\ DOMAIN mem.inflight \subseteq DOMAIN ledger.inflight \cup Unrecorded
  /\ pc \in {"building", "submitting"} => ledger.known = mem.known
  /\ pc \in {"submitting", "submitted", "chunkSaved"} => todo \subseteq Awaiting(mem.rows)

(***************************************************************************)
(* A row that waits on nothing is past all its sendings: those the ledger  *)
(* records, if it is in storage, and all there are once a tick reconciled. *)
(* A row that waits, waits on a batch that is tracked or to be adopted.    *)
(***************************************************************************)
StoredOk(e, i) ==
  Undecided(e) =>
    /\ NotAhead(e, i)
    /\ e.pending = NoBatch =>
         \A b \in AskedBy(i) \cap ledger.known : Earlier(api[b][i], Request(e))
    /\ e.pending # NoBatch => e.pending \in DOMAIN ledger.inflight \cup Unrecorded

LoadedOk(e, i) ==
  Undecided(e) =>
    /\ NotAhead(e, i)
    /\ e.pending = NoBatch => \A b \in AskedBy(i) : Earlier(api[b][i], Request(e))
    /\ e.pending # NoBatch => e.pending \in DOMAIN mem.inflight

PaidInv ==
  /\ SavedInv /\ EntriesOk /\ LedgerOk
  /\ \A i \in Item : StoredOk(saved[i], i)
  /\ InTick => \A i \in Item : LoadedOk(mem.rows[i], i)
  /\ NothingPaidTwice

LEMMA InitPaidInv == Init => PaidInv
<1> SUFFICES ASSUME Init PROVE PaidInv
  OBVIOUS
<1>1. SavedInv /\ EntriesOk
  BY InitSavedInv, InitEntriesOk
<1>2. /\ api = <<>> /\ ledger = Missing /\ pc = "folded"
      /\ mem = [rows |-> saved, inflight |-> <<>>, known |-> {}]
  BY DEF Init
<1>3. Batches = {} /\ DOMAIN mem.inflight = {} /\ DOMAIN ledger.inflight = {}
      /\ ledger.known = {}
  BY <1>2 DEF Batches, Missing
<1>4. ASSUME NEW i \in Item PROVE saved[i].pending = NoBatch
  <2>1. PICK broken \in SUBSET Item :
          saved = [j \in Item |-> FreshEntry(BeginRow(j \in broken))]
    BY DEF Init
  <2> QED BY <2>1 DEF FreshEntry
<1>6. LedgerOk
  BY <1>2, <1>3 DEF LedgerOk, InTick, Unrecorded
<1>7. \A i \in Item : AskedBy(i) = {}
  BY <1>3 DEF AskedBy
<1>8. \A i \in Item : StoredOk(saved[i], i) /\ LoadedOk(mem.rows[i], i)
  BY <1>2, <1>4, <1>7 DEF StoredOk, LoadedOk, NotAhead
<1>9. NothingPaidTwice
  BY <1>3 DEF NothingPaidTwice, Batches
<1> QED BY <1>1, <1>6, <1>8, <1>9 DEF PaidInv

(***************************************************************************)
(* Lemma: a row that took the result of its request is past every sending. *)
(***************************************************************************)
LEMMA FoldedIsPast ==
  ASSUME EntriesOk, NEW i \in Item, NEW e \in Entries, NEW n \in Entries,
         NotAhead(e, i), Earlier(Request(e), Request(n))
  PROVE  \A b \in AskedBy(i) : Earlier(api[b][i], Request(n))
<1> SUFFICES ASSUME NEW b \in AskedBy(i) PROVE Earlier(api[b][i], Request(n))
  OBVIOUS
<1>1. api[b][i] \in Requests
  BY AsksAreRequests DEF AskedBy
<1>2. Request(e) \in Requests /\ Request(n) \in Requests
  BY RequestIsRequest
<1>3. api[b][i] = Request(e) \/ Earlier(api[b][i], Request(e))
  BY DEF NotAhead
<1> QED BY <1>1, <1>2, <1>3, EarlierIsAnOrder

(***************************************************************************)
(* Lemma: what a tick holds in memory may be stored, at any point.         *)
(***************************************************************************)
LEMMA LoadedMayBeStored ==
  ASSUME PaidInv, InTick
  PROVE  \A i \in Item : StoredOk(mem.rows[i], i)
<1>1. DOMAIN mem.inflight \subseteq DOMAIN ledger.inflight \cup Unrecorded
  BY DEF PaidInv, LedgerOk
<1>2. \A i \in Item : LoadedOk(mem.rows[i], i)
  BY DEF PaidInv
<1> QED BY <1>1, <1>2 DEF LoadedOk, StoredOk

(***************************************************************************)
(* The steps that submit nothing: what was asked stays as it is.           *)
(***************************************************************************)
LEMMA NothingSent ==
  ASSUME PaidInv, UNCHANGED api, SavedInv', EntriesOk', LedgerOk',
         \A i \in Item : StoredOk(saved[i], i)',
         InTick' => \A i \in Item : LoadedOk(mem.rows[i], i)'
  PROVE  PaidInv'
<1>1. NothingPaidTwice'
  BY DEF PaidInv, NothingPaidTwice
<1> QED BY <1>1 DEF PaidInv

LEMMA ReconcilePaid ==
  ASSUME PaidInv, SavedInv', EntriesOk', ~AdoptionMayFail,
         NEW adopted, Reconcile(adopted)
  PROVE  PaidInv'
<1> DEFINE bs(i) == {b \in adopted : i \in DOMAIN api[b]}
<1>1. /\ pc = "loaded" /\ pc' = "reconciled"
      /\ UNCHANGED <<saved, ledger, api, ended, todo, status, crashes>>
      /\ adopted = Orphans
      /\ mem' = [rows |-> [i \in Item |-> Adopt(mem.rows[i], bs(i))],
                 inflight |-> Track(mem.inflight, adopted),
                 known |-> mem.known \cup adopted]
  BY DEF Reconcile, GoTo
<1>2. mem.rows = saved /\ mem.known = ledger.known /\ mem.inflight = ledger.inflight
      /\ ledger.known \subseteq Batches /\ DOMAIN ledger.inflight \subseteq ledger.known
  BY <1>1 DEF PaidInv, LedgerOk
<1>3. adopted = Unrecorded
  BY <1>1, <1>2 DEF Orphans, Unrecorded, Batches
<1>4. DOMAIN mem'.inflight = Unrecorded \cup DOMAIN ledger.inflight
  BY <1>1, <1>2, <1>3 DEF Track
<1>5. mem'.known = Batches
  BY <1>1, <1>2, <1>3 DEF Unrecorded
<1>6. Batches' = Batches /\ Unrecorded' = Unrecorded /\ Unrecorded \subseteq Batches
      /\ (\A i : AskedBy(i)' = AskedBy(i))
  BY <1>1 DEF Batches, Unrecorded, AskedBy
<1>7. LedgerOk'
  BY <1>1, <1>2, <1>4, <1>5, <1>6 DEF LedgerOk, InTick
<1>8. ASSUME NEW i \in Item PROVE StoredOk(saved[i], i)'
  BY <1>1, <1>6 DEF PaidInv, StoredOk, NotAhead
<1>9. ASSUME NEW i \in Item PROVE LoadedOk(mem.rows[i], i)'
  <2> DEFINE e == saved[i]
             n == mem.rows[i]
  <2>1. n' = Adopt(e, bs(i)) /\ e \in Entries
    BY <1>1, <1>2 DEF PaidInv, EntriesOk
  <2>2. Len(api) \in Nat
    BY AsksAreRequests DEF PaidInv
  <2>3. bs(i) \in SUBSET (1 .. Len(api))
    BY <1>3, <1>6 DEF Batches
  <2>4. bs(i) = AskedBy(i) \cap Unrecorded
    BY <1>3 DEF AskedBy, Unrecorded
  <2>5. StoredOk(e, i)
    BY DEF PaidInv
  <2> HIDE DEF bs, e, n
  <2>6. /\ Request(n') = Request(e) /\ Undecided(n') <=> Undecided(e)
        /\ \/ n' = e /\ (Undecided(e) /\ e.pending = NoBatch => bs(i) = {})
           \/ Undecided(e) /\ e.pending = NoBatch /\ n'.pending \in bs(i)
    BY <2>1, <2>2, <2>3, AdoptAttaches
  <2>7. NotAhead(e, i) => NotAhead(n, i)'
    BY <1>1, <1>6, <2>6 DEF NotAhead
  <2>8. ASSUME Undecided(n'), n'.pending = NoBatch, NEW b \in AskedBy(i)
        PROVE  Earlier(api[b][i], Request(n'))
    <3>1. n' = e /\ bs(i) = {}
      <4>1. NoBatch \notin bs(i)
        BY <2>3 DEF NoBatch
      <4> QED BY <2>6, <2>8, <4>1
    <3>2. b \in ledger.known
      BY <2>4, <2>8, <3>1 DEF Unrecorded, AskedBy
    <3> QED BY <2>5, <2>8, <3>1, <3>2 DEF StoredOk
  <2>9. ASSUME Undecided(n'), n'.pending # NoBatch PROVE n'.pending \in DOMAIN mem'.inflight
    BY <1>4, <2>4, <2>5, <2>6, <2>9 DEF StoredOk
  <2>10. LoadedOk(n, i)'
    BY <1>1, <1>6, <2>5, <2>6, <2>7, <2>8, <2>9 DEF LoadedOk, StoredOk
  <2> QED BY <2>10 DEF n
<1> QED BY <1>1, <1>7, <1>8, <1>9, NothingSent

LEMMA FoldPaid ==
  ASSUME PaidInv, SavedInv', EntriesOk', NEW unreadable, NEW outcome,
         Fold(unreadable, outcome)
  PROVE  PaidInv'
<1>1. /\ pc = "reconciled" /\ pc' = "folded"
      /\ UNCHANGED <<saved, ledger, api, ended, todo, status, crashes>>
      /\ outcome \in [FoldableRows(Folded(unreadable)) -> Outcomes]
      /\ mem'.rows = [i \in Item |->
           IF i \in DOMAIN outcome
           THEN FoldEntry(mem.rows[i], outcome[i], mem.rows[i].pending \in unreadable)
           ELSE mem.rows[i]]
      /\ DOMAIN mem'.inflight = DOMAIN mem.inflight \ Folded(unreadable)
      /\ mem'.known = mem.known
  BY DEF Fold, GoTo, PaidInv, SavedInv, JobShape
<1>2. Batches' = Batches /\ Unrecorded' = Unrecorded /\ (\A i : AskedBy(i)' = AskedBy(i))
  BY <1>1 DEF Batches, Unrecorded, AskedBy
<1>3. LedgerOk'
  BY <1>1, <1>2 DEF PaidInv, LedgerOk, InTick
<1>4. ASSUME NEW i \in Item PROVE StoredOk(saved[i], i)'
  BY <1>1, <1>2 DEF PaidInv, StoredOk, NotAhead
<1>5. ASSUME NEW i \in Item PROVE LoadedOk(mem.rows[i], i)'
  <2> DEFINE e == mem.rows[i]
  <2>1. e \in Entries /\ LoadedOk(e, i)
    BY <1>1 DEF PaidInv, EntriesOk, InTick
  <2>2. CASE i \in DOMAIN outcome
    <3>1. Undecided(e) /\ outcome[i] \in Outcomes
      BY <1>1, <2>2 DEF FoldableRows
    <3>2. (e.pending \in unreadable) \in BOOLEAN
      OBVIOUS
    <3>3. FoldsTo(e, e')
      <4>1. e' = FoldEntry(e, outcome[i], e.pending \in unreadable)
        BY <1>1, <2>2
      <4> HIDE DEF e
      <4> QED BY <2>1, <3>1, <3>2, <4>1, FoldMovesOn
    <3>4. ASSUME Undecided(e')
          PROVE  \A b \in AskedBy(i) : Earlier(api[b][i], Request(e'))
      <4>1. NotAhead(e, i) /\ e' \in Entries /\ Earlier(Request(e), Request(e'))
        BY <2>1, <3>1, <3>3, <3>4 DEF FoldsTo, LoadedOk
      <4> HIDE DEF e
      <4> QED BY <2>1, <4>1, FoldedIsPast DEF PaidInv
    <3> HIDE DEF e
    <3>5. LoadedOk(e, i)'
      BY <1>1, <1>2, <3>3, <3>4 DEF LoadedOk, NotAhead, FoldsTo
    <3> QED BY <3>5 DEF e
  <2>3. CASE i \notin DOMAIN outcome
    <3>1. e' = e
      BY <1>1, <2>3
    <3>2. Undecided(e) => e.pending \notin Folded(unreadable)
      BY <1>1, <2>3 DEF FoldableRows
    <3> HIDE DEF e
    <3>3. LoadedOk(e, i)'
      BY <1>1, <1>2, <2>1, <3>1, <3>2 DEF LoadedOk, NotAhead
    <3> QED BY <3>3 DEF e
  <2> QED BY <2>2, <2>3
<1> QED BY <1>1, <1>3, <1>4, <1>5, NothingSent

LEMMA SavePaid ==
  ASSUME PaidInv, SavedInv', EntriesOk',
         SaveRows \/ SaveLedger \/ SaveChunkRows \/ SaveChunkLedger
  PROVE  PaidInv'
<1>1. InTick /\ InTick' /\ UNCHANGED <<api, mem, todo>>
  BY DEF SaveRows, SaveLedger, SaveChunkRows, SaveChunkLedger, GoTo, InTick
<1>2. Batches' = Batches /\ (\A i : AskedBy(i)' = AskedBy(i))
  BY <1>1 DEF Batches, AskedBy
<1>3. ASSUME NEW i \in Item PROVE LoadedOk(mem.rows[i], i)'
  <2>1. LoadedOk(mem.rows[i], i)
    BY <1>1 DEF PaidInv
  <2> QED BY <1>1, <1>2, <2>1 DEF LoadedOk, NotAhead
<1>4. /\ \A i \in Item : StoredOk(mem.rows[i], i)
      /\ DOMAIN mem.inflight \subseteq mem.known /\ mem.known = Batches
  BY <1>1, LoadedMayBeStored DEF PaidInv, LedgerOk
<1>5. CASE SaveRows \/ SaveChunkRows
  <2>1. saved' = mem.rows /\ UNCHANGED ledger /\ pc' \in {"rowsSaved", "chunkSaved"}
        /\ (pc' = "chunkSaved" => pc = "submitted")
    BY <1>5 DEF SaveRows, SaveChunkRows, GoTo
  <2>2. Unrecorded' = Unrecorded
    BY <1>2, <2>1 DEF Unrecorded
  <2>3. LedgerOk'
    BY <1>1, <1>2, <2>1, <2>2 DEF PaidInv, LedgerOk, InTick
  <2>4. ASSUME NEW i \in Item PROVE StoredOk(saved[i], i)'
    BY <1>1, <1>2, <1>4, <2>1, <2>2 DEF StoredOk, NotAhead
  <2> QED BY <1>1, <1>3, <2>3, <2>4, NothingSent
<1>6. CASE SaveLedger \/ SaveChunkLedger
  <2>1. /\ ledger'.inflight = mem.inflight /\ ledger'.known = mem.known
        /\ UNCHANGED saved /\ pc' \in {"building", "submitting"}
        /\ pc \in {"rowsSaved", "chunkSaved"}
        /\ (pc' = "submitting" => pc = "chunkSaved")
    BY <1>6 DEF SaveLedger, SaveChunkLedger, GoTo, Ledger
  <2>2. saved = mem.rows
    BY <2>1 DEF PaidInv, SavedInv
  <2>3. LedgerOk'
    BY <1>1, <1>2, <1>4, <2>1 DEF PaidInv, LedgerOk, InTick, Unrecorded
  <2>4. ASSUME NEW i \in Item PROVE StoredOk(saved[i], i)'
    <3>1. LoadedOk(mem.rows[i], i)
      BY <1>1 DEF PaidInv
    <3> QED BY <1>1, <1>2, <2>1, <2>2, <3>1 DEF StoredOk, LoadedOk, NotAhead
  <2> QED BY <1>1, <1>3, <2>3, <2>4, NothingSent
<1> QED BY <1>5, <1>6

LEMMA BuildPaid ==
  ASSUME PaidInv, SavedInv', EntriesOk', NEW oversized, BuildRequests(oversized)
  PROVE  PaidInv'
<1>1. /\ pc = "building" /\ pc' = "submitting"
      /\ UNCHANGED <<ledger, api, ended, status, crashes>>
      /\ mem'.rows = [i \in Item |-> IF i \in oversized
                        THEN [mem.rows[i] EXCEPT !.row = RecordStageError(@)]
                        ELSE mem.rows[i]]
      /\ mem'.inflight = mem.inflight /\ mem'.known = mem.known
      /\ todo' = Awaiting(mem.rows) \ oversized
  BY DEF BuildRequests, GoTo, PaidInv, SavedInv, JobShape
<1>2. saved' = mem'.rows /\ mem.rows \in [Item -> Entries]
  BY <1>1 DEF PaidInv, SavedInv, EntriesOk
<1>3. Batches' = Batches /\ Unrecorded' = Unrecorded /\ (\A i : AskedBy(i)' = AskedBy(i))
  BY <1>1 DEF Batches, Unrecorded, AskedBy
<1>4. InTick
  BY <1>1 DEF InTick
<1>5. ASSUME NEW i \in Item
      PROVE  /\ i \notin oversized => mem'.rows[i] = mem.rows[i]
             /\ i \in oversized => ~Undecided(mem'.rows[i])
  <2>1. mem.rows[i].row \in Rows /\ mem.rows[i] \in Entries
    BY <1>2 DEF Entries
  <2>2. RecordStageError(mem.rows[i].row).state # Open
    BY <2>1, FinishDecides DEF RecordStageError, Verdicts
  <2> QED BY <1>1, <2>1, <2>2 DEF Undecided, Entries
<1>6. todo' \subseteq Awaiting(mem.rows)'
  BY <1>1, <1>2, <1>5 DEF Awaiting
<1>7. LedgerOk'
  BY <1>1, <1>3, <1>4, <1>6 DEF PaidInv, LedgerOk, InTick
<1>8. ASSUME NEW i \in Item PROVE LoadedOk(mem.rows[i], i)'
  <2>1. LoadedOk(mem.rows[i], i)
    BY <1>4 DEF PaidInv
  <2> QED BY <1>1, <1>3, <1>5, <2>1 DEF LoadedOk, NotAhead
<1>9. ASSUME NEW i \in Item PROVE StoredOk(saved[i], i)'
  <2>1. StoredOk(mem.rows[i], i)
    BY <1>4, LoadedMayBeStored
  <2> QED BY <1>1, <1>2, <1>3, <1>5, <2>1 DEF StoredOk, NotAhead
<1> QED BY <1>1, <1>7, <1>8, <1>9, NothingSent

LEMMA SubmitPaid ==
  ASSUME PaidInv, SavedInv', EntriesOk', NEW chunk, Submit(chunk)
  PROVE  PaidInv'
<1> DEFINE n == Len(api) + 1
<1>1. /\ pc = "submitting" /\ pc' = "submitted"
      /\ UNCHANGED <<saved, ledger, ended, status, crashes>>
      /\ chunk \subseteq todo /\ todo' = todo \ chunk
      /\ todo \subseteq Awaiting(mem.rows) /\ todo \subseteq Item
      /\ saved = mem.rows /\ ledger.known = Batches /\ mem.known = Batches
      /\ mem.rows \in [Item -> Entries] /\ Len(api) \in Nat
  BY AsksAreRequests
  DEF Submit, GoTo, PaidInv, SavedInv, EntriesOk, LedgerOk, InTick
<1>2. /\ api' = Append(api, Asked(chunk))
      /\ mem'.rows = [i \in Item |-> IF i \in chunk
                        THEN [mem.rows[i] EXCEPT !.pending = Len(api')] ELSE mem.rows[i]]
      /\ mem'.inflight = Track(mem.inflight, {Len(api')})
      /\ mem'.known = mem.known \cup {Len(api')}
  BY DEF Submit, PaidInv, SavedInv, JobShape
<1>3. /\ Len(api') = n /\ n \in Nat /\ n # NoBatch /\ n \notin Batches
      /\ Batches' = Batches \cup {n}
      /\ api'[n] = Asked(chunk) /\ \A b \in Batches : api'[b] = api[b]
  BY <1>1, <1>2 DEF PaidInv, EntriesOk, Batches, NoBatch
<1> HIDE DEF n
<1>4. /\ DOMAIN mem'.inflight = DOMAIN mem.inflight \cup {n}
      /\ mem'.known = Batches'
  BY <1>1, <1>2, <1>3 DEF Track
<1>5. Unrecorded' = {n} /\ Unrecorded = {}
  BY <1>1, <1>3 DEF Unrecorded
<1>6. ASSUME NEW i \in Item
      PROVE  /\ i \in chunk => /\ AskedBy(i)' = AskedBy(i) \cup {n}
                               /\ api'[n][i] = Request(mem.rows[i])
             /\ i \notin chunk => AskedBy(i)' = AskedBy(i)
  BY <1>3 DEF AskedBy, Asked
<1>7. ASSUME NEW i \in Item
      PROVE  /\ Request(mem'.rows[i]) = Request(mem.rows[i])
             /\ Undecided(mem'.rows[i]) <=> Undecided(mem.rows[i])
             /\ mem'.rows[i].pending = IF i \in chunk THEN n ELSE mem.rows[i].pending
  <2>1. mem.rows[i] \in Entries
    BY <1>1
  <2> QED BY <1>2, <1>3, <2>1 DEF Entries, Request, Undecided
<1>8. ASSUME NEW i \in Item PROVE LoadedOk(mem.rows[i], i)
  BY <1>1 DEF PaidInv, InTick
<1>9. ASSUME NEW i \in chunk
      PROVE  /\ i \in Item /\ Undecided(mem.rows[i]) /\ mem.rows[i].pending = NoBatch
             /\ \A b \in AskedBy(i) : Earlier(api[b][i], Request(mem.rows[i]))
  BY <1>1, <1>8 DEF Awaiting, LoadedOk
<1>10. LedgerOk'
  <2>1. \A i \in todo' : i \in Item /\ i \notin chunk /\ mem'.rows[i] = mem.rows[i]
    BY <1>1, <1>2
  <2>2. todo' \subseteq Awaiting(mem.rows)'
    BY <1>1, <1>2, <2>1 DEF Awaiting
  <2>3. /\ DOMAIN ledger.inflight \subseteq ledger.known /\ DOMAIN mem.inflight \subseteq Batches
        /\ DOMAIN mem.inflight \subseteq DOMAIN ledger.inflight
    BY <1>1, <1>5 DEF PaidInv, LedgerOk, InTick
  <2> QED BY <1>1, <1>3, <1>4, <1>5, <2>2, <2>3 DEF LedgerOk, InTick
<1>11. ASSUME NEW i \in Item
       PROVE  Undecided(mem.rows[i]) =>
                \A b \in AskedBy(i)' : \/ api'[b][i] = Request(mem.rows[i])
                                       \/ Earlier(api'[b][i], Request(mem.rows[i]))
  BY <1>3, <1>6, <1>8 DEF LoadedOk, NotAhead, AskedBy
<1>12. ASSUME NEW i \in Item PROVE LoadedOk(mem.rows[i], i)'
  BY <1>3, <1>4, <1>6, <1>7, <1>8, <1>11 DEF LoadedOk, NotAhead, AskedBy
<1>13. ASSUME NEW i \in Item PROVE StoredOk(saved[i], i)'
  <2>1. StoredOk(mem.rows[i], i)
    BY <1>1 DEF PaidInv
  <2> QED BY <1>1, <1>3, <1>5, <1>6, <1>11, <2>1 DEF StoredOk, NotAhead, AskedBy
<1>14. NothingPaidTwice'
  <2>1. ASSUME NEW b \in Batches, NEW i \in DOMAIN api[b] \cap chunk
        PROVE  api[b][i] # Request(mem.rows[i])
    <3>1. i \in Item /\ b \in AskedBy(i)
      BY <1>9 DEF AskedBy
    <3>2. api[b][i] \in Requests /\ Request(mem.rows[i]) \in Requests
      BY <1>1, <3>1, AsksAreRequests, RequestIsRequest DEF PaidInv
    <3> QED BY <1>9, <3>1, <3>2, EarlierIsAnOrder
  <2>2. DOMAIN api'[n] = chunk /\ \A i \in chunk : api'[n][i] = Request(mem.rows[i])
    BY <1>3 DEF Asked
  <2>3. \A b, c \in Batches : \A i \in DOMAIN api[b] \cap DOMAIN api[c] :
          b # c => api[b][i] # api[c][i]
    BY DEF PaidInv, NothingPaidTwice, Batches
  <2>4. \A b, c \in Batches' : \A i \in DOMAIN api'[b] \cap DOMAIN api'[c] :
          b # c => api'[b][i] # api'[c][i]
    BY <1>3, <2>1, <2>2, <2>3
  <2> QED BY <2>4 DEF NothingPaidTwice, Batches
<1> QED BY <1>10, <1>12, <1>13, <1>14 DEF PaidInv

LEMMA SettlePaid ==
  ASSUME PaidInv, SavedInv', EntriesOk', Settle
  PROVE  PaidInv' /\ saved' = saved
<1>1. /\ pc = "submitting" /\ pc' = "idle" /\ UNCHANGED <<ledger, api, ended, crashes>>
      /\ \/ saved' = saved
         \/ Drained /\ Stranded(mem.rows) # {}
  BY DEF Settle, EndTick, GoTo
<1>2. DOMAIN mem.rows = Item /\ \A i \in Item : LoadedOk(mem.rows[i], i)
  BY <1>1 DEF PaidInv, EntriesOk, InTick
<1>3. Drained => Stranded(mem.rows) = {}
  BY <1>2 DEF Drained, Stranded, LoadedOk
<1>4. saved' = saved
  BY <1>1, <1>3
<1>5. Batches' = Batches /\ Unrecorded' = Unrecorded /\ (\A i : AskedBy(i)' = AskedBy(i))
  BY <1>1 DEF Batches, Unrecorded, AskedBy
<1>6. LedgerOk'
  BY <1>1, <1>5 DEF PaidInv, LedgerOk, InTick
<1>7. ASSUME NEW i \in Item PROVE StoredOk(saved[i], i)'
  BY <1>1, <1>4, <1>5 DEF PaidInv, StoredOk, NotAhead
<1>8. ~InTick'
  BY <1>1 DEF InTick
<1> QED BY <1>1, <1>4, <1>6, <1>7, <1>8, NothingSent

LEMMA NextPaidInv == ~AdoptionMayFail /\ PaidInv /\ [Next]_vars => PaidInv'
<1> SUFFICES ASSUME ~AdoptionMayFail, PaidInv, [Next]_vars PROVE PaidInv'
  OBVIOUS
<1>1. SavedInv' /\ EntriesOk'
  BY NextSavedInv, NextEntriesOk DEF PaidInv
<1>2. ASSUME UNCHANGED <<saved, ledger, api, pc, mem, todo>> PROVE PaidInv'
  BY <1>1, <1>2 DEF PaidInv, LedgerOk, StoredOk, LoadedOk, NotAhead, AskedBy, Batches,
    Unrecorded, InTick, NothingPaidTwice
<1>3. ASSUME UNCHANGED <<saved, ledger, api>>, pc' = "idle" \/ LoadJob
      PROVE  PaidInv'
  <2>1. Batches' = Batches /\ Unrecorded' = Unrecorded /\ (\A i : AskedBy(i)' = AskedBy(i))
    BY <1>3 DEF Batches, Unrecorded, AskedBy
  <2>2. ~InTick' /\ pc' \in {"idle", "loaded"}
    BY <1>3 DEF InTick, LoadJob, GoTo
  <2>3. pc' = "loaded" => /\ mem'.rows = saved /\ mem'.known = ledger.known
                          /\ mem'.inflight = ledger.inflight
    BY <1>3 DEF LoadJob, GoTo
  <2>4. LedgerOk'
    BY <1>3, <2>1, <2>2, <2>3 DEF PaidInv, LedgerOk
  <2>5. ASSUME NEW i \in Item PROVE StoredOk(saved[i], i)'
    BY <1>3, <2>1 DEF PaidInv, StoredOk, NotAhead
  <2> QED BY <1>1, <1>3, <2>2, <2>4, <2>5, NothingSent
<1>4. CASE LoadJob
  BY <1>3, <1>4 DEF LoadJob
<1>5. CASE Crash
  BY <1>3, <1>5 DEF Crash, EndTick, GoTo
<1>6. CASE BatchEnds \/ UNCHANGED vars
  BY <1>2, <1>6 DEF BatchEnds, vars
<1> QED
  BY <1>1, <1>4, <1>5, <1>6, ReconcilePaid, FoldPaid, SavePaid, BuildPaid, SubmitPaid,
     SettlePaid
  DEF Next, Tick

(***************************************************************************)
(* Theorem: nothing is paid for twice, however many ticks die, as long as  *)
(* the provider lists every batch and its input file can be read           *)
(* (batch.py:1107-1109, 1315-1319).                                        *)
(***************************************************************************)
THEOREM EveryRequestIsSentOnce == ~AdoptionMayFail => (Spec => []NothingPaidTwice)
<1> SUFFICES ASSUME ~AdoptionMayFail PROVE Spec => []NothingPaidTwice
  OBVIOUS
<1>1. PaidInv => NothingPaidTwice
  BY DEF PaidInv
<1>2. PaidInv /\ [Next]_vars => PaidInv'
  BY NextPaidInv
<1> QED BY InitPaidInv, <1>1, <1>2, PTL DEF Spec

-----------------------------------------------------------------------------
(***************************************************************************)
(* Until a second tick dies, the batches still to adopt asked just what    *)
(* their rows are at, and a tick that no death preceded has none to adopt  *)
(* but the chunk it has submitted last, whose rows it will save first.     *)
(***************************************************************************)
OrphansFit ==
  /\ crashes = 0 \/ ~InTick =>
       \A b \in Unrecorded : \A i \in DOMAIN api[b] :
         Undecided(saved[i]) /\ saved[i].pending = NoBatch =>
           api[b][i] = Request(saved[i])
  /\ crashes = 0 /\ pc \notin {"submitted", "chunkSaved"} => Unrecorded = {}
  /\ crashes = 0 /\ pc = "submitted" =>
       \A b \in Unrecorded : \A i \in DOMAIN api[b] : mem.rows[i].pending # NoBatch

FitInv ==
  /\ PaidInv
  /\ crashes \in Nat
  /\ crashes <= 1 => AnswersFitTheirRequests /\ OrphansFit

LEMMA InitFitInv == Init => FitInv
<1> SUFFICES ASSUME Init PROVE FitInv
  OBVIOUS
<1>1. PaidInv
  BY InitPaidInv
<1>2. api = <<>> /\ crashes = 0 /\ pc = "folded" /\ mem.rows = saved /\ ledger.known = {}
  BY DEF Init, Missing
<1>3. Unrecorded = {}
  BY <1>2 DEF Unrecorded, Batches
<1>4. OrphansFit
  BY <1>2, <1>3 DEF OrphansFit
<1>5. ASSUME NEW i \in Item PROVE saved[i].pending = NoBatch
  <2>1. PICK broken \in SUBSET Item :
          saved = [j \in Item |-> FreshEntry(BeginRow(j \in broken))]
    BY DEF Init
  <2> QED BY <2>1 DEF FreshEntry
<1>6. AnswersFitTheirRequests
  BY <1>2, <1>5 DEF AnswersFitTheirRequests, WaitsOnItsRequest
<1> QED BY <1>1, <1>2, <1>4, <1>6 DEF FitInv

(***************************************************************************)
(* Lemma: what a row waits on is a batch of the provider's.                *)
(***************************************************************************)
LEMMA PendingIsABatch ==
  ASSUME PaidInv, NEW i \in Item
  PROVE  /\ Undecided(saved[i]) /\ saved[i].pending # NoBatch => saved[i].pending \in Batches
         /\ InTick => (Undecided(mem.rows[i]) /\ mem.rows[i].pending # NoBatch =>
                         mem.rows[i].pending \in Batches)
BY DEF PaidInv, LedgerOk, StoredOk, LoadedOk, Unrecorded

LEMMA NextFitInv == ~AdoptionMayFail /\ FitInv /\ [Next]_vars => FitInv'
<1> SUFFICES ASSUME ~AdoptionMayFail, FitInv, [Next]_vars PROVE FitInv'
  OBVIOUS
<1>1. PaidInv' /\ PaidInv /\ SavedInv /\ EntriesOk /\ LedgerOk
  BY NextPaidInv DEF FitInv, PaidInv
<1>2. crashes' \in Nat
  <2>1. crashes' = crashes \/ crashes' = crashes + 1
    BY DEF Next, Tick, LoadJob, Reconcile, Fold, SaveRows, SaveLedger, BuildRequests, Submit,
      SaveChunkRows, SaveChunkLedger, Settle, Crash, BatchEnds, vars
  <2> QED BY <2>1 DEF FitInv
<1> SUFFICES ASSUME crashes' <= 1 PROVE AnswersFitTheirRequests' /\ OrphansFit'
  BY <1>1, <1>2 DEF FitInv
<1>3. ASSUME crashes <= 1 PROVE AnswersFitTheirRequests /\ OrphansFit
  BY <1>3 DEF FitInv
<1>4. ASSUME UNCHANGED <<saved, api>>, pc' = "idle" \/ LoadJob, UNCHANGED ledger,
             crashes <= 1, crashes = 0 \/ pc \in {"idle", "loaded"} \/ Unrecorded = {},
             crashes' = 0 => Unrecorded = {}
      PROVE  AnswersFitTheirRequests' /\ OrphansFit'
  <2>1. Batches' = Batches /\ Unrecorded' = Unrecorded
    BY <1>4 DEF Batches, Unrecorded
  <2>2. ~InTick' /\ pc' \in {"idle", "loaded"} /\ (pc' = "loaded" => mem'.rows = saved)
    BY <1>4 DEF InTick, LoadJob, GoTo
  <2>3. AnswersFitTheirRequests'
    BY <1>3, <1>4, <2>2 DEF AnswersFitTheirRequests, WaitsOnItsRequest
  <2>4. OrphansFit'
    BY <1>3, <1>4, <2>1, <2>2 DEF OrphansFit, InTick
  <2> QED BY <2>3, <2>4
<1>5. CASE LoadJob
  <2>1. crashes' = crashes /\ pc = "idle" /\ UNCHANGED <<saved, ledger, api>>
    BY <1>5 DEF LoadJob
  <2>2. crashes' = 0 => Unrecorded = {}
    BY <1>3, <2>1 DEF OrphansFit
  <2> QED BY <1>4, <1>5, <2>1, <2>2
<1>6. ASSUME NEW adopted, Reconcile(adopted)
      PROVE  AnswersFitTheirRequests' /\ OrphansFit'
  <2> DEFINE bs(i) == {b \in adopted : i \in DOMAIN api[b]}
  <2>1. /\ pc = "loaded" /\ pc' = "reconciled" /\ adopted = Orphans
        /\ UNCHANGED <<saved, ledger, api, crashes>>
        /\ mem'.rows = [i \in Item |-> Adopt(mem.rows[i], bs(i))]
    BY <1>6 DEF Reconcile, GoTo
  <2>2. mem.rows = saved /\ mem.known = ledger.known /\ ~InTick
    BY <1>1, <2>1 DEF LedgerOk, InTick
  <2>3. Unrecorded' = Unrecorded /\ adopted = Unrecorded
    BY <2>1, <2>2 DEF Unrecorded, Orphans, Batches
  <2>4. OrphansFit'
    BY <1>3, <2>1, <2>2, <2>3 DEF OrphansFit, InTick
  <2>5. ASSUME NEW i \in Item PROVE WaitsOnItsRequest(mem.rows[i], i)'
    <3> DEFINE e == saved[i]
               n == Adopt(e, bs(i))
    <3>1. e \in Entries /\ bs(i) \in SUBSET (1 .. Len(api)) /\ mem'.rows[i] = n
      BY <1>1, <2>1, <2>2 DEF EntriesOk, Orphans
    <3>2. Len(api) \in Nat
      BY <1>1, AsksAreRequests
    <3>3. WaitsOnItsRequest(e, i)
      BY <1>3, <2>1 DEF AnswersFitTheirRequests
    <3>4. \A b \in bs(i) : i \in DOMAIN api[b] /\
            (Undecided(e) /\ e.pending = NoBatch => api[b][i] = Request(e))
      BY <1>3, <2>1, <2>2, <2>3 DEF OrphansFit
    <3> HIDE DEF e, bs
    <3>5. /\ Request(n) = Request(e) /\ (Undecided(n) <=> Undecided(e))
          /\ n = e \/ (Undecided(e) /\ e.pending = NoBatch /\ n.pending \in bs(i))
      BY <3>1, <3>2, AdoptAttaches
    <3> HIDE DEF n
    <3> QED BY <2>1, <3>1, <3>3, <3>4, <3>5 DEF WaitsOnItsRequest
  <2>6. AnswersFitTheirRequests'
    BY <1>3, <2>1, <2>5 DEF AnswersFitTheirRequests, WaitsOnItsRequest
  <2> QED BY <2>4, <2>6
<1>7. ASSUME NEW unreadable, NEW outcome, Fold(unreadable, outcome)
      PROVE  AnswersFitTheirRequests' /\ OrphansFit'
  <2>1. /\ pc = "reconciled" /\ pc' = "folded"
        /\ UNCHANGED <<saved, ledger, api, crashes>>
        /\ outcome \in [FoldableRows(Folded(unreadable)) -> Outcomes]
        /\ mem'.rows = [i \in Item |->
             IF i \in DOMAIN outcome
             THEN FoldEntry(mem.rows[i], outcome[i], mem.rows[i].pending \in unreadable)
             ELSE mem.rows[i]]
    BY <1>1, <1>7 DEF Fold, GoTo, SavedInv, JobShape
  <2>2. OrphansFit'
    BY <1>3, <2>1 DEF OrphansFit, InTick, Unrecorded, Batches
  <2>3. ASSUME NEW i \in Item PROVE WaitsOnItsRequest(mem.rows[i], i)'
    <3>1. mem.rows[i] \in Entries /\ WaitsOnItsRequest(mem.rows[i], i)
      BY <1>1, <1>3, <2>1 DEF EntriesOk, AnswersFitTheirRequests
    <3>2. CASE i \in DOMAIN outcome
      <4>1. Undecided(mem.rows[i]) /\ outcome[i] \in Outcomes
        BY <2>1, <3>2 DEF FoldableRows
      <4>2. (mem.rows[i].pending \in unreadable) \in BOOLEAN
        OBVIOUS
      <4>3. FoldEntry(mem.rows[i], outcome[i], mem.rows[i].pending \in unreadable).pending
              = NoBatch
        BY <3>1, <4>1, <4>2, FoldMovesOn DEF FoldsTo
      <4> QED BY <2>1, <3>2, <4>3 DEF WaitsOnItsRequest
    <3>3. CASE i \notin DOMAIN outcome
      BY <2>1, <3>1, <3>3 DEF WaitsOnItsRequest
    <3> QED BY <3>2, <3>3
  <2>4. AnswersFitTheirRequests'
    BY <1>3, <2>1, <2>3 DEF AnswersFitTheirRequests, WaitsOnItsRequest
  <2> QED BY <2>2, <2>4
<1>8. CASE SaveRows \/ SaveLedger \/ SaveChunkRows \/ SaveChunkLedger
  <2>1. /\ UNCHANGED <<api, mem, crashes>> /\ InTick /\ InTick'
        /\ pc # "idle" /\ pc' # "idle"
    BY <1>8 DEF SaveRows, SaveLedger, SaveChunkRows, SaveChunkLedger, GoTo, InTick
  <2>2. saved' \in {saved, mem.rows}
    BY <1>8 DEF SaveRows, SaveLedger, SaveChunkRows, SaveChunkLedger
  <2>3. AnswersFitTheirRequests'
    BY <1>3, <2>1, <2>2 DEF AnswersFitTheirRequests, WaitsOnItsRequest
  <2>4. OrphansFit'
    <3>1. CASE SaveLedger \/ SaveChunkLedger
      <4>1. ledger'.known = mem.known /\ mem.known = Batches /\ pc' \in {"building", "submitting"}
        BY <1>1, <2>1, <3>1 DEF SaveLedger, SaveChunkLedger, Ledger, LedgerOk, GoTo
      <4>2. Unrecorded' = {}
        BY <2>1, <4>1 DEF Unrecorded, Batches
      <4> QED BY <4>1, <4>2 DEF OrphansFit
    <3>2. CASE SaveRows
      <4>1. UNCHANGED ledger /\ pc = "folded" /\ pc' = "rowsSaved"
        BY <3>2 DEF SaveRows, GoTo
      <4>2. crashes = 0 => Unrecorded' = {}
        BY <1>3, <2>1, <4>1 DEF OrphansFit, Unrecorded, Batches
      <4> QED BY <2>1, <4>1, <4>2 DEF OrphansFit
    <3>3. CASE SaveChunkRows
      <4>1. UNCHANGED ledger /\ pc = "submitted" /\ pc' = "chunkSaved" /\ saved' = mem.rows
        BY <3>3 DEF SaveChunkRows, GoTo
      <4>2. crashes = 0 => \A b \in Unrecorded' : \A i \in DOMAIN api[b] :
                             saved'[i].pending # NoBatch
        BY <1>3, <2>1, <4>1 DEF OrphansFit, Unrecorded, Batches
      <4> QED BY <2>1, <4>1, <4>2 DEF OrphansFit
    <3> QED BY <1>8, <3>1, <3>2, <3>3
  <2> QED BY <2>3, <2>4
<1>9. ASSUME NEW oversized, BuildRequests(oversized)
      PROVE  AnswersFitTheirRequests' /\ OrphansFit'
  <2>1. /\ pc = "building" /\ pc' = "submitting"
        /\ UNCHANGED <<ledger, api, crashes>>
        /\ mem'.rows = [i \in Item |-> IF i \in oversized
                          THEN [mem.rows[i] EXCEPT !.row = RecordStageError(@)]
                          ELSE mem.rows[i]]
        /\ ledger.known = mem.known /\ mem.known = Batches
    BY <1>1, <1>9 DEF BuildRequests, GoTo, SavedInv, JobShape, LedgerOk, InTick
  <2>2. saved' = mem'.rows
    BY <1>1, <2>1 DEF PaidInv, SavedInv
  <2>3. Unrecorded' = {}
    BY <2>1 DEF Unrecorded, Batches
  <2>4. OrphansFit'
    BY <2>1, <2>3 DEF OrphansFit
  <2>5. ASSUME NEW i \in Item PROVE WaitsOnItsRequest(mem.rows[i], i)'
    <3>1. mem.rows[i] \in Entries /\ WaitsOnItsRequest(mem.rows[i], i)
      BY <1>1, <1>3, <2>1 DEF EntriesOk, AnswersFitTheirRequests
    <3>2. CASE i \in oversized
      <4>1. mem.rows[i].row \in Rows
        BY <3>1 DEF Entries
      <4>2. RecordStageError(mem.rows[i].row).state # Open
        BY <4>1, FinishDecides DEF RecordStageError, Verdicts
      <4> QED BY <2>1, <3>1, <3>2, <4>2 DEF WaitsOnItsRequest, Undecided, Entries
    <3>3. CASE i \notin oversized
      BY <2>1, <3>1, <3>3 DEF WaitsOnItsRequest
    <3> QED BY <3>2, <3>3
  <2>6. AnswersFitTheirRequests'
    BY <2>1, <2>2, <2>5 DEF AnswersFitTheirRequests, WaitsOnItsRequest
  <2> QED BY <2>4, <2>6
<1>10. ASSUME NEW chunk, Submit(chunk)
       PROVE  AnswersFitTheirRequests' /\ OrphansFit'
  <2> DEFINE n == Len(api) + 1
  <2>1. /\ pc = "submitting" /\ pc' = "submitted"
        /\ UNCHANGED <<saved, ledger, crashes>>
        /\ chunk \subseteq Item /\ saved = mem.rows /\ ledger.known = Batches
        /\ mem.rows \in [Item -> Entries] /\ Len(api) \in Nat
    BY <1>1, <1>10, AsksAreRequests DEF Submit, GoTo, SavedInv, EntriesOk, LedgerOk, InTick
  <2>2. /\ api' = Append(api, Asked(chunk))
        /\ mem'.rows = [i \in Item |-> IF i \in chunk
                          THEN [mem.rows[i] EXCEPT !.pending = Len(api')] ELSE mem.rows[i]]
    BY <1>1, <1>10 DEF Submit, SavedInv, JobShape
  <2>3. /\ Len(api') = n /\ n \in Nat /\ n # NoBatch /\ n \notin Batches
        /\ Batches' = Batches \cup {n}
        /\ api'[n] = Asked(chunk) /\ \A b \in Batches : api'[b] = api[b]
    BY <1>1, <2>1, <2>2 DEF EntriesOk, Batches, NoBatch
  <2> HIDE DEF n
  <2>4. Unrecorded' = {n}
    BY <2>1, <2>3 DEF Unrecorded
  <2>5. DOMAIN api'[n] = chunk /\ \A i \in chunk : api'[n][i] = Request(mem.rows[i])
    BY <2>3 DEF Asked
  <2>6. ASSUME NEW i \in Item PROVE WaitsOnItsRequest(saved[i], i)'
    <3>1. WaitsOnItsRequest(saved[i], i)
      BY <1>3, <2>1 DEF AnswersFitTheirRequests
    <3>2. Undecided(saved[i]) /\ saved[i].pending # NoBatch => saved[i].pending \in Batches
      BY <1>1, PendingIsABatch
    <3> QED BY <2>1, <2>3, <3>1, <3>2 DEF WaitsOnItsRequest
  <2>7. ASSUME NEW i \in Item PROVE WaitsOnItsRequest(mem.rows[i], i)'
    <3>1. CASE i \in chunk
      <4>1. mem.rows[i] \in Entries /\ mem'.rows[i] = [mem.rows[i] EXCEPT !.pending = n]
        BY <2>1, <2>2, <2>3, <3>1
      <4>2. mem'.rows[i].pending = n /\ Request(mem'.rows[i]) = Request(mem.rows[i])
        BY <4>1 DEF Entries, Request
      <4> QED BY <2>5, <3>1, <4>2 DEF WaitsOnItsRequest
    <3>2. CASE i \notin chunk
      BY <2>1, <2>2, <2>6, <3>2 DEF WaitsOnItsRequest
    <3> QED BY <3>1, <3>2
  <2>8. AnswersFitTheirRequests'
    BY <2>6, <2>7 DEF AnswersFitTheirRequests
  <2>9. \A i \in chunk : mem'.rows[i].pending # NoBatch
    <3> SUFFICES ASSUME NEW i \in chunk PROVE mem'.rows[i].pending # NoBatch
      OBVIOUS
    <3>1. mem.rows[i] \in Entries /\ mem'.rows[i] = [mem.rows[i] EXCEPT !.pending = n]
      BY <2>1, <2>2, <2>3
    <3>2. mem'.rows[i].pending = n
      BY <3>1 DEF Entries
    <3> QED BY <2>3, <3>2
  <2>10. OrphansFit'
    BY <2>1, <2>4, <2>5, <2>9 DEF OrphansFit
  <2> QED BY <2>8, <2>10
<1>11. CASE Settle
  <2>1. pc = "submitting" /\ pc' = "idle" /\ UNCHANGED <<ledger, api, crashes>> /\ saved' = saved
    BY <1>1, <1>11, SettlePaid, NextSavedInv, NextEntriesOk
    DEF Settle, EndTick, GoTo, PaidInv
  <2>2. Unrecorded = {}
    BY <1>1, <2>1 DEF LedgerOk, InTick, Unrecorded
  <2> QED BY <1>4, <2>1, <2>2
<1>12. CASE Crash
  <2>1. crashes' = crashes + 1 /\ pc' = "idle" /\ UNCHANGED <<saved, ledger, api>>
    BY <1>12 DEF Crash, EndTick, GoTo
  <2>2. crashes = 0
    BY <2>1 DEF FitInv
  <2> QED BY <1>4, <2>1, <2>2
<1>13. CASE BatchEnds \/ UNCHANGED vars
  <2>1. UNCHANGED <<saved, ledger, api, pc, mem, crashes>>
    BY <1>13 DEF BatchEnds, vars
  <2> QED
    BY <1>3, <2>1
    DEF AnswersFitTheirRequests, WaitsOnItsRequest, OrphansFit, InTick, Unrecorded, Batches
<1> QED
  BY <1>5, <1>6, <1>7, <1>8, <1>9, <1>10, <1>11, <1>12, <1>13 DEF Next, Tick

(***************************************************************************)
(* Theorem: one death, at any step, makes no row take the answer to        *)
(* another request of its own, under the same condition (batch.py:792-836, *)
(* 949-961); the run batch_job_misfold shows what a second one can do.     *)
(***************************************************************************)
THEOREM OneDeathIsHarmless == ~AdoptionMayFail => (Spec => []OneDeathMixesNoAnswers)
<1> SUFFICES ASSUME ~AdoptionMayFail PROVE Spec => []OneDeathMixesNoAnswers
  OBVIOUS
<1>1. FitInv => OneDeathMixesNoAnswers
  BY DEF FitInv, OneDeathMixesNoAnswers
<1>2. FitInv /\ [Next]_vars => FitInv'
  BY NextFitInv
<1> QED BY InitFitInv, <1>1, <1>2, PTL DEF Spec

-----------------------------------------------------------------------------
(***************************************************************************)
(* What a tick holds in memory against what is stored.  Until it folds,    *)
(* every row is where it was loaded; then some have learnt something, all  *)
(* of them after a batch asked for them, and the save that follows makes   *)
(* the two agree.                                                          *)
(***************************************************************************)
Waits(e, i) == e.pending # NoBatch => AskedBy(i) # {}

LearntOf(e, n, i) ==
  /\ Undecided(e) /\ AskedBy(i) # {}
  /\ Undecided(n) => n.pending = NoBatch
  /\ e.deferred => n.deferred

WorkOk ==
  /\ pc # "idle" => status = "active"
  /\ ~ledger.there => api = <<>> /\ pc \in {"idle", "folded", "rowsSaved"}
  /\ \A i \in Item : Waits(saved[i], i)
  /\ pc # "idle" => \A i \in Item : Waits(mem.rows[i], i)
  /\ pc \in {"loaded", "reconciled", "submitted"} =>
       \A i \in Item : Piece(mem.rows[i]) = Piece(saved[i])
  /\ pc = "folded" =>
       \A i \in Item : \/ Piece(mem.rows[i]) = Piece(saved[i])
                       \/ LearntOf(saved[i], mem.rows[i], i)

WorkInv == PaidInv /\ WorkOk

LEMMA InitWorkInv == Init => WorkInv
<1> SUFFICES ASSUME Init PROVE WorkInv
  OBVIOUS
<1>1. ASSUME NEW i \in Item PROVE saved[i].pending = NoBatch
  <2>1. PICK broken \in SUBSET Item :
          saved = [j \in Item |-> FreshEntry(BeginRow(j \in broken))]
    BY DEF Init
  <2> QED BY <2>1 DEF FreshEntry
<1>2. /\ api = <<>> /\ pc = "folded" /\ status = "active"
      /\ mem.rows = saved
  BY DEF Init
<1> QED BY <1>1, <1>2, InitPaidInv DEF WorkInv, WorkOk, Waits

(***************************************************************************)
(* Lemma: adoption leaves a row where it is.                               *)
(***************************************************************************)
LEMMA AdoptKeepsPiece ==
  ASSUME NEW e \in Entries, NEW bs
  PROVE  Piece(Adopt(e, bs)) = Piece(e)
BY DEF Adopt, Entries, Piece, Request

(***************************************************************************)
(* Lemma: a row that was deferred stays deferred, whatever is folded.      *)
(***************************************************************************)
LEMMA FoldKeepsDeferred ==
  ASSUME NEW e \in Entries, e.deferred, NEW o \in Outcomes, NEW unreadable \in BOOLEAN
  PROVE  FoldEntry(e, o, unreadable).deferred
<1> DEFINE c == [e EXCEPT !.pending = NoBatch]
           n == FoldEntry(e, o, unreadable)
<1>1. c \in Entries /\ c.deferred
  BY DEF Entries, NoBatch
<1>2. o.kind \in {"answer", "abort", "error", "infrastructure", "none"}
  BY DEF Outcomes
<1>3. n = Defer(c) \/ n = Resubmit(c) \/ n = Score(c, o)
  BY <1>2 DEF FoldEntry, InOutputFile
<1> HIDE DEF c, n
<1>4. Defer(c).deferred
  <2> DEFINE d == c.deferred \/ c.infrastructureRounds + 1 >= MaxInfraRounds
  <2>1. Defer(c) = [c EXCEPT !.infrastructureRounds = @ + 1, !.deferred = d]
    BY DEF Defer
  <2>2. d
    BY <1>1
  <2> HIDE DEF d
  <2> QED BY <1>1, <2>1, <2>2 DEF Entries
<1>5. Resubmit(c).deferred
  <2> DEFINE row == IF c.resubmissions + 1 >= MaxResubmissions
                    THEN RecordStageError(c.row) ELSE c.row
  <2>1. Resubmit(c) = [c EXCEPT !.resubmissions = @ + 1, !.row = row]
    BY DEF Resubmit
  <2> HIDE DEF row
  <2> QED BY <1>1, <2>1 DEF Entries
<1>6. Score(c, o).deferred
  <2> DEFINE row == CASE o.kind = "answer" -> HandleResponse(c.row, o.answer, MaxAttempts)
                      [] o.kind = "abort"  -> HandleProviderAbort(c.row)
                      [] o.kind = "error"  -> RecordStageError(c.row)
  <2>1. Score(c, o) = [c EXCEPT !.resubmissions = 0, !.row = row]
    BY DEF Score
  <2> HIDE DEF row
  <2> QED BY <1>1, <2>1 DEF Entries
<1>7. n.deferred
  BY <1>3, <1>4, <1>5, <1>6
<1> QED BY <1>7 DEF n

LEMMA NextWorkOk ==
  ~AdoptionMayFail /\ WorkInv /\ PaidInv' /\ [Next]_vars => WorkOk'
<1> SUFFICES ASSUME ~AdoptionMayFail, WorkInv, PaidInv', [Next]_vars PROVE WorkOk'
  OBVIOUS
<1>1. WorkOk /\ SavedInv /\ EntriesOk /\ LedgerOk
  BY DEF WorkInv, PaidInv
<1>2. Len(api) \in Nat /\ saved \in [Item -> Entries]
      /\ (pc # "idle" => mem.rows \in [Item -> Entries])
  BY <1>1, AsksAreRequests DEF EntriesOk
<1>3. ASSUME UNCHANGED api, NEW i \in Item PROVE AskedBy(i)' = AskedBy(i)
  BY <1>3 DEF AskedBy, Batches
<1>4. ASSUME UNCHANGED <<saved, ledger, api>>, pc' = "idle" PROVE WorkOk'
  BY <1>1, <1>3, <1>4 DEF WorkOk, Waits
<1>5. ASSUME UNCHANGED <<saved, ledger, api, pc, mem, status>> PROVE WorkOk'
  BY <1>1, <1>3, <1>5 DEF WorkOk, Waits, LearntOf
<1>6. CASE LoadJob
  <2>1. CASE ledger.there
    <3>1. /\ pc' = "loaded" /\ status = "active" /\ mem'.rows = saved
          /\ UNCHANGED <<saved, ledger, api, status>>
      BY <1>6, <2>1 DEF LoadJob, GoTo
    <3> QED BY <1>1, <1>3, <2>1, <3>1 DEF WorkOk, Waits
  <2>2. CASE ~ledger.there
    BY <1>4, <1>6, <2>2 DEF LoadJob
  <2> QED BY <2>1, <2>2
<1>7. ASSUME NEW adopted, Reconcile(adopted) PROVE WorkOk'
  <2> DEFINE bs(i) == {b \in adopted : i \in DOMAIN api[b]}
  <2>1. /\ pc = "loaded" /\ pc' = "reconciled"
        /\ UNCHANGED <<saved, ledger, api, status>>
        /\ adopted \subseteq Batches
        /\ mem'.rows = [i \in Item |-> Adopt(mem.rows[i], bs(i))]
    BY <1>7 DEF Reconcile, GoTo, Orphans, Batches
  <2>2. ASSUME NEW i \in Item
        PROVE  /\ Piece(mem'.rows[i]) = Piece(saved'[i])
               /\ Waits(mem.rows[i], i)'
    <3>1. mem.rows[i] \in Entries /\ mem'.rows[i] = Adopt(mem.rows[i], bs(i))
          /\ Piece(mem.rows[i]) = Piece(saved[i]) /\ Waits(mem.rows[i], i)
      BY <1>1, <1>2, <2>1 DEF WorkOk
    <3>2. bs(i) \in SUBSET (1 .. Len(api)) /\ bs(i) \subseteq AskedBy(i)
      BY <2>1 DEF Batches, AskedBy
    <3> HIDE DEF bs
    <3>3. \/ mem'.rows[i] = mem.rows[i]
          \/ mem'.rows[i].pending \in bs(i)
      BY <1>2, <3>1, <3>2, AdoptAttaches
    <3>4. Piece(mem'.rows[i]) = Piece(mem.rows[i])
      BY <3>1, AdoptKeepsPiece
    <3> QED BY <1>3, <2>1, <3>1, <3>2, <3>3, <3>4 DEF Waits
  <2> QED BY <1>1, <1>3, <2>1, <2>2 DEF WorkOk, Waits
<1>8. ASSUME NEW unreadable, NEW outcome, Fold(unreadable, outcome) PROVE WorkOk'
  <2>1. /\ pc = "reconciled" /\ pc' = "folded"
        /\ UNCHANGED <<saved, ledger, api, status>>
        /\ outcome \in [FoldableRows(Folded(unreadable)) -> Outcomes]
        /\ mem'.rows = [i \in Item |->
             IF i \in DOMAIN outcome
             THEN FoldEntry(mem.rows[i], outcome[i], mem.rows[i].pending \in unreadable)
             ELSE mem.rows[i]]
    BY <1>1, <1>8 DEF Fold, GoTo, SavedInv, JobShape
  <2>2. ASSUME NEW i \in Item
        PROVE  /\ \/ Piece(mem'.rows[i]) = Piece(saved[i])
                  \/ LearntOf(saved[i], mem'.rows[i], i)
               /\ Waits(mem.rows[i], i)'
    <3>1. mem.rows[i] \in Entries /\ Waits(mem.rows[i], i)
          /\ Piece(mem.rows[i]) = Piece(saved[i])
      BY <1>1, <1>2, <2>1 DEF WorkOk
    <3>2. CASE i \in DOMAIN outcome
      <4>1. /\ Undecided(mem.rows[i]) /\ outcome[i] \in Outcomes
            /\ mem.rows[i].pending \in Folded(unreadable)
        BY <2>1, <3>2 DEF FoldableRows
      <4>2. mem.rows[i].pending # NoBatch
        BY <1>1, <2>1, <4>1 DEF LedgerOk, InTick, Folded, Batches, NoBatch
      <4>3. (mem.rows[i].pending \in unreadable) \in BOOLEAN
        OBVIOUS
      <4>4. mem'.rows[i] = FoldEntry(mem.rows[i], outcome[i], mem.rows[i].pending \in unreadable)
        BY <2>1, <3>2
      <4>5. FoldsTo(mem.rows[i], mem'.rows[i])
        BY <3>1, <4>1, <4>3, <4>4, FoldMovesOn
      <4>6. mem.rows[i].deferred => mem'.rows[i].deferred
        BY <3>1, <4>1, <4>3, <4>4, FoldKeepsDeferred
      <4>7. Undecided(saved[i]) /\ saved[i].deferred = mem.rows[i].deferred
        BY <3>1, <4>1 DEF Piece, Undecided
      <4> QED BY <1>3, <2>1, <3>1, <4>2, <4>5, <4>6, <4>7 DEF LearntOf, Waits, FoldsTo
    <3>3. CASE i \notin DOMAIN outcome
      BY <1>3, <2>1, <3>1, <3>3 DEF Waits
    <3> QED BY <3>2, <3>3
  <2> QED BY <1>1, <1>3, <2>1, <2>2 DEF WorkOk, Waits, LearntOf
<1>9. CASE SaveRows \/ SaveChunkRows
  <2>1. /\ saved' = mem.rows /\ UNCHANGED <<ledger, api, mem, status>>
        /\ \/ pc = "folded" /\ pc' = "rowsSaved"
           \/ pc = "submitted" /\ pc' = "chunkSaved"
    BY <1>9 DEF SaveRows, SaveChunkRows, GoTo
  <2> QED BY <1>1, <1>3, <2>1 DEF WorkOk, Waits
<1>10. CASE SaveLedger \/ SaveChunkLedger
  <2>1. /\ ledger'.there /\ UNCHANGED <<saved, api, mem, status>>
        /\ pc' \in {"building", "submitting"} /\ pc # "idle"
    BY <1>10 DEF SaveLedger, SaveChunkLedger, GoTo, Ledger
  <2> QED BY <1>1, <1>3, <2>1 DEF WorkOk, Waits
<1>11. ASSUME NEW oversized, BuildRequests(oversized) PROVE WorkOk'
  <2>1. /\ pc = "building" /\ pc' = "submitting"
        /\ UNCHANGED <<ledger, api, status>>
        /\ mem'.rows = [i \in Item |-> IF i \in oversized
                          THEN [mem.rows[i] EXCEPT !.row = RecordStageError(@)]
                          ELSE mem.rows[i]]
    BY <1>1, <1>11 DEF BuildRequests, GoTo, SavedInv, JobShape
  <2>2. saved' = mem'.rows
    BY <2>1 DEF PaidInv, SavedInv
  <2>3. ASSUME NEW i \in Item PROVE mem'.rows[i].pending = mem.rows[i].pending
    <3>1. mem.rows[i] \in Entries
      BY <1>2, <2>1
    <3> QED BY <2>1, <3>1 DEF Entries
  <2> QED BY <1>1, <1>3, <2>1, <2>2, <2>3 DEF WorkOk, Waits
<1>12. ASSUME NEW chunk, Submit(chunk) PROVE WorkOk'
  <2> DEFINE n == Len(api) + 1
  <2>1. /\ pc = "submitting" /\ pc' = "submitted" /\ UNCHANGED <<saved, ledger, status>>
        /\ api' = Append(api, Asked(chunk))
        /\ mem'.rows = [i \in Item |-> IF i \in chunk
                          THEN [mem.rows[i] EXCEPT !.pending = Len(api')] ELSE mem.rows[i]]
    BY <1>1, <1>12 DEF Submit, GoTo, SavedInv, JobShape
  <2>2. saved = mem.rows /\ ledger.there
    BY <1>1, <2>1 DEF SavedInv, WorkOk
  <2>3. /\ Len(api') = n /\ n \in Nat /\ Batches' = Batches \cup {n}
        /\ api'[n] = Asked(chunk) /\ \A b \in Batches : api'[b] = api[b]
    BY <1>1, <1>2, <2>1 DEF EntriesOk, Batches
  <2> HIDE DEF n
  <2>4. ASSUME NEW i \in Item
        PROVE  AskedBy(i) \subseteq AskedBy(i)' /\ (i \in chunk => n \in AskedBy(i)')
    BY <2>3 DEF AskedBy, Asked
  <2>5. ASSUME NEW i \in Item
        PROVE  /\ Piece(mem'.rows[i]) = Piece(saved[i])
               /\ i \notin chunk => mem'.rows[i] = mem.rows[i]
    <3>1. mem.rows[i] \in Entries
      BY <1>2, <2>1
    <3> QED BY <2>1, <2>2, <3>1 DEF Entries, Piece, Request
  <2> QED BY <1>1, <2>1, <2>2, <2>4, <2>5 DEF WorkOk, Waits
<1>13. CASE Settle
  BY <1>1, <1>4, <1>13, SettlePaid DEF Settle, EndTick, GoTo, WorkInv, PaidInv
<1>14. CASE Crash
  BY <1>4, <1>14 DEF Crash, EndTick, GoTo
<1>15. CASE BatchEnds \/ UNCHANGED vars
  BY <1>5, <1>15 DEF BatchEnds, vars
<1> QED
  BY <1>6, <1>7, <1>8, <1>9, <1>10, <1>11, <1>12, <1>13, <1>14, <1>15 DEF Next, Tick

LEMMA NextWorkInv == ~AdoptionMayFail /\ WorkInv /\ [Next]_vars => WorkInv'
BY NextPaidInv, NextWorkOk DEF WorkInv

(***************************************************************************)
(* The pieces of work, what was asked for each and how often, in the terms *)
(* of the job.                                                             *)
(***************************************************************************)
Works == [i \in Item |-> Piece(saved[i])]

AskedOf(i) == {api[b][i] : b \in AskedBy(i)}

AskedFor == [i \in Item |-> AskedOf(i)]

PaidFor == [i \in Item |-> Cardinality(AskedBy(i))]

LEMMA AskedByIsFinite ==
  ASSUME EntriesOk, NEW i \in Item
  PROVE  IsFiniteSet(AskedBy(i)) /\ Cardinality(AskedBy(i)) \in Nat
<1>1. Len(api) \in Nat
  BY AsksAreRequests
<1>2. IsFiniteSet(1 .. Len(api))
  BY <1>1, FS_Interval
<1>3. AskedBy(i) \subseteq 1 .. Len(api)
  BY DEF AskedBy, Batches
<1> QED BY <1>2, <1>3, FS_Subset, FS_CardinalityType

LEMMA PieceIsPiece ==
  ASSUME NEW e \in Entries
  PROVE  Piece(e) \in Promise!Pieces
<1>1. e.row.state \in Verdicts \cup {Open} /\ e.deferred \in BOOLEAN
  BY DEF Entries, Rows
<1> QED BY <1>1, RequestIsRequest DEF Piece, Promise!Pieces

LEMMA InitPaidWork == Init => Promise!Init
<1> SUFFICES ASSUME Init PROVE Promise!Init
  OBVIOUS
<1>1. saved \in [Item -> Entries] /\ status = "active" /\ api = <<>>
  BY InitEntriesOk DEF EntriesOk, Init
<1>2. Works \in [Item -> Promise!Pieces]
  BY <1>1, PieceIsPiece DEF Works
<1>3. ASSUME NEW i \in Item PROVE ~Works[i].deferred
  <2>1. PICK broken \in SUBSET Item :
          saved = [j \in Item |-> FreshEntry(BeginRow(j \in broken))]
    BY DEF Init
  <2> QED BY <2>1 DEF FreshEntry, Works, Piece
<1>4. AskedFor = [i \in Item |-> {}]
  BY <1>1 DEF AskedFor, AskedOf, AskedBy, Batches
<1>5. PaidFor = [i \in Item |-> 0]
  <2>1. \A i \in Item : AskedBy(i) = {}
    BY <1>1 DEF AskedBy, Batches
  <2> QED BY <2>1, FS_EmptySet DEF PaidFor
<1> QED BY <1>1, <1>2, <1>3, <1>4, <1>5 DEF Promise!Init, Works, AskedFor, AskedOf, PaidFor

(***************************************************************************)
(* Lemma: a save of rows each of which is where it was, has a verdict now, *)
(* or is at a request nobody asked for yet, is a step of the promise.      *)
(***************************************************************************)
LEMMA SaveLearns ==
  ASSUME WorkInv, WorkInv', UNCHANGED <<api, status>>, status = "active",
         \A i \in Item : \/ Piece(saved'[i]) = Piece(saved[i])
                        \/ /\ Undecided(saved[i])
                           /\ Undecided(saved'[i]) =>
                                /\ AskedBy(i) # {}
                                /\ \A b \in AskedBy(i) : api[b][i] # Request(saved'[i])
                           /\ saved[i].deferred => saved'[i].deferred
  PROVE  Promise!Learn
<1>1. saved' \in [Item -> Entries] /\ saved \in [Item -> Entries]
  BY DEF WorkInv, PaidInv, EntriesOk
<1>2. Works' \in [Item -> Promise!Pieces]
  BY <1>1, PieceIsPiece DEF Works
<1>3. AskedFor' = AskedFor /\ PaidFor' = PaidFor
  BY DEF AskedFor, AskedOf, PaidFor, AskedBy, Batches
<1>4. ASSUME NEW i \in Item
      PROVE  Works'[i] = Works[i] \/ Promise!MovesOn(i, Works'[i])
  <2>1. CASE Piece(saved'[i]) = Piece(saved[i])
    BY <2>1 DEF Works
  <2>2. CASE /\ Undecided(saved[i])
             /\ Undecided(saved'[i]) =>
                  /\ AskedBy(i) # {}
                  /\ \A b \in AskedBy(i) : api[b][i] # Request(saved'[i])
             /\ saved[i].deferred => saved'[i].deferred
    <3>1. /\ AskedBy(i) # {} => AskedOf(i) # {}
          /\ (\A b \in AskedBy(i) : api[b][i] # Request(saved'[i]))
               => Request(saved'[i]) \notin AskedOf(i)
      BY DEF AskedOf
    <3>2. Promise!MovesOn(i, Piece(saved'[i]))
      BY <2>2, <3>1
      DEF Promise!MovesOn, Promise!IsOpen, Piece, Undecided, AskedOf
    <3> QED BY <3>2 DEF Works
  <2> QED BY <2>1, <2>2
<1> QED BY <1>2, <1>3, <1>4 DEF Promise!Learn, Works, AskedFor, AskedOf, PaidFor

LEMMA SubmitAsks ==
  ASSUME WorkInv, NEW chunk, Submit(chunk)
  PROVE  Promise!Next
<1> DEFINE n == Len(api) + 1
<1>1. /\ pc = "submitting" /\ UNCHANGED <<saved, status>>
      /\ chunk \subseteq Awaiting(mem.rows) /\ chunk \subseteq Item
      /\ saved = mem.rows /\ saved \in [Item -> Entries]
      /\ api' = Append(api, Asked(chunk)) /\ status = "active"
      /\ Len(api) \in Nat
  BY AsksAreRequests
  DEF Submit, WorkInv, WorkOk, PaidInv, SavedInv, EntriesOk, LedgerOk
<1>2. /\ n \in Nat /\ n \notin Batches /\ Batches' = Batches \cup {n}
      /\ api'[n] = Asked(chunk) /\ \A b \in Batches : api'[b] = api[b]
  BY <1>1 DEF WorkInv, PaidInv, EntriesOk, Batches
<1> HIDE DEF n
<1>3. ASSUME NEW i \in chunk
      PROVE  /\ Promise!Needed(i)
             /\ Works[i].next \notin AskedFor[i]
  <2>1. /\ i \in Item /\ Undecided(saved[i]) /\ ~saved[i].deferred
        /\ saved[i].pending = NoBatch
    BY <1>1 DEF Awaiting
  <2>2. \A b \in AskedBy(i) : Earlier(api[b][i], Request(saved[i]))
    BY <1>1, <2>1 DEF WorkInv, PaidInv, InTick, LoadedOk
  <2>3. ASSUME NEW b \in AskedBy(i) PROVE api[b][i] # Request(saved[i])
    <3>1. api[b][i] \in Requests /\ Request(saved[i]) \in Requests
      BY <1>1, <2>1, AsksAreRequests, RequestIsRequest DEF WorkInv, PaidInv, AskedBy
    <3> QED BY <2>2, <3>1, EarlierIsAnOrder
  <2>4. Works[i].next \notin AskedFor[i]
    BY <2>1, <2>3 DEF Works, AskedFor, AskedOf, Piece
  <2>5. Promise!Needed(i)
    BY <2>1 DEF Promise!Needed, Promise!IsOpen, Piece, Undecided
  <2> QED BY <2>4, <2>5
<1>4. Works' = Works
  BY <1>1 DEF Works
<1>5. ASSUME NEW i \in Item
      PROVE  AskedBy(i)' = IF i \in chunk THEN AskedBy(i) \cup {n} ELSE AskedBy(i)
  BY <1>2 DEF AskedBy, Asked
<1>6. ASSUME NEW i \in Item
      PROVE  AskedOf(i)' = IF i \in chunk THEN AskedOf(i) \cup {Works[i].next} ELSE AskedOf(i)
  <2>1. \A b \in AskedBy(i) : api'[b][i] = api[b][i]
    BY <1>2 DEF AskedBy
  <2>2. i \in chunk => api'[n][i] = Works[i].next
    BY <1>1, <1>2 DEF Asked, Works, Piece
  <2> QED BY <1>5, <2>1, <2>2 DEF AskedOf
<1>7. AskedFor' = [i \in Item |-> IF i \in chunk THEN AskedFor[i] \cup {Works[i].next} ELSE AskedFor[i]]
  BY <1>6 DEF AskedFor
<1>8. PaidFor' = [i \in Item |-> IF i \in chunk THEN PaidFor[i] + 1 ELSE PaidFor[i]]
  <2>1. ASSUME NEW i \in Item
        PROVE  Cardinality(AskedBy(i))' = IF i \in chunk THEN Cardinality(AskedBy(i)) + 1
                                                        ELSE Cardinality(AskedBy(i))
    <3>1. IsFiniteSet(AskedBy(i)) /\ n \notin AskedBy(i)
      BY <1>2, AskedByIsFinite DEF WorkInv, PaidInv, AskedBy
    <3>2. Cardinality(AskedBy(i) \cup {n}) = Cardinality(AskedBy(i)) + 1
      BY <3>1, FS_AddElement
    <3> QED BY <1>5, <3>2
  <2> QED BY <2>1 DEF PaidFor
<1>9. Promise!Ask(chunk)
  BY <1>1, <1>3, <1>4, <1>7, <1>8 DEF Promise!Ask, Works, AskedFor, AskedOf, PaidFor
<1> QED BY <1>1, <1>9 DEF Promise!Next

LEMMA PaidWorkStep ==
  WorkInv /\ WorkInv' /\ ~AdoptionMayFail /\ [Next]_vars => [Promise!Next]_Promise!vars
<1> SUFFICES ASSUME WorkInv, WorkInv', ~AdoptionMayFail, [Next]_vars
             PROVE  [Promise!Next]_Promise!vars
  OBVIOUS
<1>1. ASSUME UNCHANGED <<saved, api, status>> PROVE [Promise!Next]_Promise!vars
  BY <1>1 DEF Promise!vars, AskedBy, Batches
<1>2. CASE LoadJob
  <2>1. CASE ledger.there
    BY <1>1, <1>2, <2>1 DEF LoadJob
  <2>2. CASE ~ledger.there
    <3>1. /\ status = "active" /\ status' = "abandoned" /\ UNCHANGED <<saved, api>>
          /\ api = <<>>
      BY <1>2, <2>2 DEF LoadJob, WorkInv, WorkOk
    <3>2. \A i \in Item : AskedOf(i) = {}
      BY <3>1 DEF AskedOf, AskedBy, Batches
    <3>3. Promise!Abandon
      BY <3>1, <3>2 DEF Promise!Abandon, AskedOf, AskedBy, Batches
    <3> QED BY <3>3 DEF Promise!Next
  <2> QED BY <2>1, <2>2
<1>3. ASSUME NEW adopted, Reconcile(adopted) PROVE UNCHANGED <<saved, api, status>>
  BY <1>3 DEF Reconcile
<1>4. ASSUME NEW unreadable, NEW outcome, Fold(unreadable, outcome)
      PROVE  UNCHANGED <<saved, api, status>>
  BY <1>4 DEF Fold
<1>5. CASE SaveRows \/ SaveChunkRows
  <2>1. /\ saved' = mem.rows /\ UNCHANGED <<api, status>> /\ status = "active"
        /\ pc \in {"folded", "submitted"} /\ saved \in [Item -> Entries]
        /\ mem.rows \in [Item -> Entries]
    BY <1>5 DEF SaveRows, SaveChunkRows, WorkInv, WorkOk, PaidInv, EntriesOk
  <2>2. ASSUME NEW i \in Item
        PROVE  \/ Piece(saved'[i]) = Piece(saved[i])
               \/ /\ Undecided(saved[i])
                  /\ Undecided(saved'[i]) =>
                       /\ AskedBy(i) # {}
                       /\ \A b \in AskedBy(i) : api[b][i] # Request(saved'[i])
                  /\ saved[i].deferred => saved'[i].deferred
    <3>1. CASE Piece(mem.rows[i]) = Piece(saved[i])
      BY <2>1, <3>1
    <3>2. CASE LearntOf(saved[i], mem.rows[i], i)
      <4>1. LoadedOk(mem.rows[i], i)
        BY <2>1 DEF WorkInv, PaidInv, InTick
      <4>2. ASSUME Undecided(mem.rows[i]), NEW b \in AskedBy(i)
            PROVE  api[b][i] # Request(mem.rows[i])
        <5>1. api[b][i] \in Requests /\ Request(mem.rows[i]) \in Requests
          BY <2>1, AsksAreRequests, RequestIsRequest DEF WorkInv, PaidInv, AskedBy
        <5>2. Earlier(api[b][i], Request(mem.rows[i]))
          BY <3>2, <4>1, <4>2 DEF LearntOf, LoadedOk
        <5> QED BY <5>1, <5>2, EarlierIsAnOrder
      <4> QED BY <2>1, <3>2, <4>2 DEF LearntOf
    <3> QED BY <2>1, <3>1, <3>2 DEF WorkInv, WorkOk
  <2>3. Promise!Learn
    BY <2>1, <2>2, SaveLearns
  <2> QED BY <2>3 DEF Promise!Next
<1>6. CASE SaveLedger \/ SaveChunkLedger
  BY <1>1, <1>6 DEF SaveLedger, SaveChunkLedger
<1>7. ASSUME NEW oversized, BuildRequests(oversized) PROVE [Promise!Next]_Promise!vars
  <2>1. /\ pc = "building" /\ pc' = "submitting"
        /\ UNCHANGED <<api, status>> /\ status = "active"
        /\ oversized \subseteq Awaiting(mem.rows)
        /\ mem'.rows = [i \in Item |-> IF i \in oversized
                          THEN [mem.rows[i] EXCEPT !.row = RecordStageError(@)]
                          ELSE mem.rows[i]]
    BY <1>7 DEF BuildRequests, GoTo, WorkInv, WorkOk, PaidInv, SavedInv, JobShape
  <2>2. saved = mem.rows /\ saved' = mem'.rows /\ saved \in [Item -> Entries]
    BY <2>1 DEF WorkInv, PaidInv, SavedInv, EntriesOk
  <2>3. ASSUME NEW i \in Item
        PROVE  \/ saved'[i] = saved[i]
               \/ /\ Undecided(saved[i]) /\ ~Undecided(saved'[i])
                  /\ saved'[i].deferred = saved[i].deferred
    <3>1. CASE i \notin oversized
      BY <2>1, <2>2, <3>1
    <3>2. CASE i \in oversized
      <4>1. saved[i] \in Entries /\ saved[i].row \in Rows
            /\ saved'[i] = [saved[i] EXCEPT !.row = RecordStageError(saved[i].row)]
        BY <2>1, <2>2, <3>2 DEF Entries
      <4>2. RecordStageError(saved[i].row).state # Open
        BY <4>1, FinishDecides DEF RecordStageError, Verdicts
      <4>3. Undecided(saved[i])
        BY <2>1, <2>2, <3>2 DEF Awaiting
      <4> QED BY <4>1, <4>2, <4>3 DEF Undecided, Entries
    <3> QED BY <3>1, <3>2
  <2>4. Promise!Learn
    BY <2>1, <2>3, SaveLearns
  <2> QED BY <2>4 DEF Promise!Next
<1>8. ASSUME NEW chunk, Submit(chunk) PROVE [Promise!Next]_Promise!vars
  BY <1>8, SubmitAsks
<1>9. CASE Settle
  <2>1. /\ saved' = saved /\ api' = api /\ status = "active"
        /\ status' = status \/ status' = "finalizing"
    <3>1. SavedInv' /\ EntriesOk' /\ PaidInv
      BY DEF WorkInv, PaidInv
    <3> QED BY <1>9, <3>1, SettlePaid DEF Settle, WorkInv, WorkOk
  <2>2. CASE status' = status
    BY <1>1, <2>1, <2>2
  <2>3. CASE status' = "finalizing"
    <3>1. \A i \in Item : ~Undecided(saved[i]) \/ saved[i].deferred
      BY <2>1, <2>3 DEF WorkInv, PaidInv, SavedInv, FinalizesOnlyDecidedRows
    <3>2. \A i \in Item : ~Promise!Needed(i)
      BY <3>1 DEF Promise!Needed, Promise!IsOpen, Piece, Undecided
    <3>3. Works' = Works /\ AskedFor' = AskedFor /\ PaidFor' = PaidFor
      BY <2>1 DEF Works, AskedFor, AskedOf, PaidFor, AskedBy, Batches
    <3>4. Promise!Close
      BY <2>1, <2>3, <3>2, <3>3 DEF Promise!Close, Works, AskedFor, AskedOf, PaidFor
    <3> QED BY <3>4 DEF Promise!Next
  <2> QED BY <2>1, <2>2, <2>3
<1>10. CASE Crash
  BY <1>1, <1>10 DEF Crash
<1>11. CASE BatchEnds \/ UNCHANGED vars
  BY <1>1, <1>11 DEF BatchEnds, vars
<1> QED
  BY <1>1, <1>2, <1>3, <1>4, <1>5, <1>6, <1>7, <1>8, <1>9, <1>10, <1>11 DEF Next, Tick

(***************************************************************************)
(* Theorem: whatever dies and is resumed, the job keeps the promise of     *)
(* PaidWork, as long as the provider lists every batch and its input file  *)
(* can be read (batch.py:1085-1125, 1284-1383).                            *)
(***************************************************************************)
THEOREM BatchJobImplementsPaidWork == ~AdoptionMayFail => (Spec => PaidWorkSpec)
<1> SUFFICES ASSUME ~AdoptionMayFail PROVE Spec => PaidWorkSpec
  OBVIOUS
<1>1. WorkInv /\ [Next]_vars => WorkInv'
  BY NextWorkInv
<1>2. WorkInv /\ WorkInv' /\ [Next]_vars => [Promise!Next]_Promise!vars
  BY PaidWorkStep
<1> QED BY InitWorkInv, InitPaidWork, <1>1, <1>2, PTL DEF Spec, PaidWorkSpec, Promise!Spec
=============================================================================
