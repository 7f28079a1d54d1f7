------------------------------ MODULE BatchJob ------------------------------
(***************************************************************************)
(* One extract job of the batch backend, from the tick that creates it to  *)
(* the tick that hands its rows to finalize (extractor/batch.py).          *)
(*                                                                         *)
(* A tick is one process.  It loads the job from storage, adopts batches   *)
(* it never recorded, folds the results of finished batches into the rows, *)
(* saves, submits the next batches and saves again.  Every durable write   *)
(* and every submission is a step of its own, and the process may die, or  *)
(* lose its lease, between any two of them; what it held in memory is then *)
(* gone.  The lease (module Lease) lets one tick run at a time.            *)
(*                                                                         *)
(* The Batch API is `api` and `ended`.  What a finished batch returns is   *)
(* chosen when it is read: a tick that dies before it saves leaves no      *)
(* trace of what it read.                                                  *)
(***************************************************************************)
EXTENDS RowWorkflow, Sequences, FiniteSets

CONSTANTS
  Item,              \* the items of the job
  AnswersUsed,       \* the answers the model gives
  MaxAttempts,       \* --max-attempts
  MaxResubmissions,  \* DEFAULT_MAX_RESUBMISSIONS
  MaxInfraRounds,    \* DEFAULT_MAX_INFRASTRUCTURE_ROUNDS
  MaxDownloadTicks,  \* MAX_RESULT_DOWNLOAD_TICKS
  AdoptionMayFail,   \* an orphan may be unlisted, or its input file unreadable
  MaxCrashes         \* bound: how many ticks die

ASSUME BatchJobAssumption ==
  /\ AnswersUsed \subseteq Answers
  /\ MaxAttempts \in Nat \ {0}
  /\ MaxResubmissions \in Nat \ {0}
  /\ MaxInfraRounds \in Nat \ {0}
  /\ MaxDownloadTicks \in Nat \ {0}
  /\ AdoptionMayFail \in BOOLEAN
  /\ MaxCrashes \in Nat

VARIABLES
  saved,    \* state.jsonl.gz: the entry of every item
  ledger,   \* batches.json: batches in flight and all batch ids ever recorded
  api,      \* the batches the provider accepted, each with what it was asked
  ended,    \* those in a terminal status
  pc,       \* where the running tick is, "idle" when none runs
  mem,      \* the JobState of the running tick
  todo,     \* the items whose requests it still has to submit
  status,   \* what became of the job
  crashes   \* how many ticks have died

vars == <<saved, ledger, api, ended, pc, mem, todo, status, crashes>>

(***************************************************************************)
(* A row entry: the row and the batch it waits on (0: none).  A ledger     *)
(* maps each batch in flight to its download failures.                     *)
(***************************************************************************)
NoBatch == 0

FreshEntry(row) ==
  [row |-> row, pending |-> NoBatch, resubmissions |-> 0,
   infrastructureRounds |-> 0, deferred |-> FALSE]

Missing == [inflight |-> <<>>, known |-> {}, there |-> FALSE]
Ledger(inflight, known) == [inflight |-> inflight, known |-> known, there |-> TRUE]

NoMemory == [rows |-> <<>>, inflight |-> <<>>, known |-> {}]

\* The request a row is at (the stage and attempt of `_pending_marker`), and
\* which sending of it: every folded result moves one of the five.
Request(e) == <<e.row.stage, e.row.attempt, e.row.aborts,
                e.resubmissions, e.infrastructureRounds>>

Requests == Stages \X Nat \X Nat \X Nat \X Nat

Undecided(e) == e.row.state = Open

\* `_awaiting_rows`
Awaiting(rows) ==
  {i \in DOMAIN rows :
     Undecided(rows[i]) /\ rows[i].pending = NoBatch /\ ~rows[i].deferred}

\* Faulty: a job whose batches are all gone counts as done.
StrandedIgnored(rows) == {}

\* The end of advance_extract_job: rows waiting on a batch nobody tracks.
Stranded(rows) ==
  {i \in DOMAIN rows :
     Undecided(rows[i]) /\ rows[i].pending # NoBatch /\ ~rows[i].deferred}

\* `_create_job` has written manifest, state and marker; the tick goes on with
\* the job in memory.
Init ==
  /\ \E broken \in SUBSET Item :
       saved = [i \in Item |-> FreshEntry(BeginRow(i \in broken))]
  /\ ledger = Missing
  /\ api = <<>>
  /\ ended = {}
  /\ pc = "folded"
  /\ mem = [rows |-> saved, inflight |-> <<>>, known |-> {}]
  /\ todo = {}
  /\ status = "active"
  /\ crashes = 0

GoTo(place) == pc' = place

EndTick == GoTo("idle") /\ mem' = NoMemory /\ todo' = {}

\* A job directory without batches.json is unusable: the marker is cleared.
LoadJob ==
  /\ pc = "idle"
  /\ status = "active"
  /\ IF ledger.there
     THEN /\ mem' = [rows |-> saved, inflight |-> ledger.inflight,
                     known |-> ledger.known]
          /\ GoTo("loaded")
          /\ UNCHANGED status
     ELSE /\ status' = "abandoned"
          /\ UNCHANGED <<mem, pc>>
  /\ UNCHANGED <<saved, ledger, api, ended, todo, crashes>>

(***************************************************************************)
(* Orphan reconciliation: batches tagged with the job that no ledger ever  *)
(* recorded, newest first.  Only a row that waits on nothing is attached.  *)
(***************************************************************************)
Orphans == (1 .. Len(api)) \ mem.known

Newest(bs) == CHOOSE b \in bs : \A c \in bs : c <= b

\* Batches join those in flight, with no failed download yet.
Track(inflight, batches) ==
  [b \in DOMAIN inflight \cup batches |-> IF b \in batches THEN 0 ELSE inflight[b]]

\* Faulty: an orphan is recorded but no row is attached to it.
AdoptNobody(e, bs) == e

Adopt(e, bs) ==
  IF Undecided(e) /\ e.pending = NoBatch /\ bs # {}
  THEN [e EXCEPT !.pending = Newest(bs)]
  ELSE e

Reconcile(adopted) ==
  /\ pc = "loaded"
  /\ adopted \subseteq Orphans
  /\ ~AdoptionMayFail => adopted = Orphans
  /\ mem' = [rows |-> [i \in Item |->
                         Adopt(mem.rows[i], {b \in adopted : i \in DOMAIN api[b]})],
             inflight |-> Track(mem.inflight, adopted),
             known |-> mem.known \cup adopted]
  /\ GoTo("reconciled")
  /\ UNCHANGED <<saved, ledger, api, ended, todo, status, crashes>>

(***************************************************************************)
(* What the result files of a finished batch hold for one row: an answer   *)
(* or a provider abort in the output file, an error or a 429/5xx line, or  *)
(* no line at all (failed, cancelled or expired without reaching it).      *)
(***************************************************************************)
Outcomes == [kind : {"answer"}, answer : AnswersUsed]
            \cup [kind : {"abort", "error", "infrastructure", "none"}]

InOutputFile(o) == o.kind \in {"answer", "abort"}

Defer(e) ==
  [e EXCEPT !.infrastructureRounds = @ + 1,
            !.deferred = @ \/ e.infrastructureRounds + 1 >= MaxInfraRounds]

Resubmit(e) ==
  [e EXCEPT !.resubmissions = @ + 1,
            !.row = IF e.resubmissions + 1 >= MaxResubmissions
                    THEN RecordStageError(@) ELSE @]

Score(e, o) ==
  [e EXCEPT !.resubmissions = 0,
            !.row = CASE o.kind = "answer" -> HandleResponse(@, o.answer, MaxAttempts)
                      [] o.kind = "abort"  -> HandleProviderAbort(@)
                      [] o.kind = "error"  -> RecordStageError(@)]

\* Faulty: the row still waits on the batch after its result is folded.
FoldEntryStillPending(e, o, unreadable) ==
  CASE o.kind = "none" -> IF unreadable THEN Defer(e) ELSE Resubmit(e)
    [] o.kind = "infrastructure" -> Defer(e)
    [] OTHER -> Score(e, o)

FoldEntry(e, o, unreadable) ==
  LET cleared == [e EXCEPT !.pending = NoBatch]
      noLine  == o.kind = "none" \/ (unreadable /\ InOutputFile(o))
  IN  CASE noLine /\ unreadable -> Defer(cleared)
        [] noLine /\ ~unreadable -> Resubmit(cleared)
        [] o.kind = "infrastructure" -> Defer(cleared)
        [] OTHER -> Score(cleared, o)

\* Faulty: failed downloads are not counted.
TriesForgotten(b, unreadable) == mem.inflight[b]

Tries(b, unreadable) == mem.inflight[b] + (IF b \in unreadable THEN 1 ELSE 0)

\* Finished batches whose rows are folded now; one whose output file cannot be
\* read waits for MAX_RESULT_DOWNLOAD_TICKS ticks.
Folded(unreadable) ==
  {b \in DOMAIN mem.inflight \cap ended :
     b \in unreadable => Tries(b, unreadable) >= MaxDownloadTicks}

\* Only a row that waits on the batch takes its result.
FoldableRows(batches) ==
  {i \in Item : Undecided(mem.rows[i]) /\ mem.rows[i].pending \in batches}

Fold(unreadable, outcome) ==
  /\ pc = "reconciled"
  /\ outcome \in [FoldableRows(Folded(unreadable)) -> Outcomes]
  /\ mem' = [mem EXCEPT
       !.rows = [i \in Item |->
                  IF i \in DOMAIN outcome
                  THEN FoldEntry(@[i], outcome[i], @[i].pending \in unreadable)
                  ELSE @[i]],
       !.inflight = [b \in DOMAIN @ \ Folded(unreadable) |-> Tries(b, unreadable)]]
  /\ GoTo("folded")
  /\ UNCHANGED <<saved, ledger, api, ended, todo, status, crashes>>

\* The post-fold save, rows before ledger.
SaveRows ==
  /\ pc = "folded"
  /\ saved' = mem.rows
  /\ GoTo("rowsSaved")
  /\ UNCHANGED <<ledger, api, ended, mem, todo, status, crashes>>

SaveLedger ==
  /\ pc = "rowsSaved"
  /\ ledger' = Ledger(mem.inflight, mem.known)
  /\ GoTo("building")
  /\ UNCHANGED <<saved, api, ended, mem, todo, status, crashes>>

\* `_build_requests`: a row whose request is too big for any batch is ended,
\* and saved before anything is submitted.
BuildRequests(oversized) ==
  /\ pc = "building"
  /\ oversized \subseteq Awaiting(mem.rows)
  /\ LET rows == [i \in Item |->
                    IF i \in oversized
                    THEN [mem.rows[i] EXCEPT !.row = RecordStageError(@)]
                    ELSE mem.rows[i]]
     IN  /\ mem' = [mem EXCEPT !.rows = rows]
         /\ saved' = IF oversized # {} THEN rows ELSE saved
  /\ todo' = Awaiting(mem.rows) \ oversized
  /\ GoTo("submitting")
  /\ UNCHANGED <<ledger, api, ended, status, crashes>>

Asked(chunk) == [i \in chunk |-> Request(mem.rows[i])]

Submit(chunk) ==
  /\ pc = "submitting"
  /\ chunk \subseteq todo /\ chunk # {}
  /\ api' = Append(api, Asked(chunk))
  /\ mem' = [mem EXCEPT
       !.rows = [i \in Item |-> IF i \in chunk THEN [@[i] EXCEPT !.pending = Len(api')]
                                              ELSE @[i]],
       !.inflight = Track(@, {Len(api')}),
       !.known = @ \cup {Len(api')}]
  /\ todo' = todo \ chunk
  /\ GoTo("submitted")
  /\ UNCHANGED <<saved, ledger, ended, status, crashes>>

SaveChunkRows ==
  /\ pc = "submitted"
  /\ saved' = mem.rows
  /\ GoTo("chunkSaved")
  /\ UNCHANGED <<ledger, api, ended, mem, todo, status, crashes>>

SaveChunkLedger ==
  /\ pc = "chunkSaved"
  /\ ledger' = Ledger(mem.inflight, mem.known)
  /\ GoTo("submitting")
  /\ UNCHANGED <<saved, api, ended, mem, todo, status, crashes>>

\* The end of a tick: wait for batches, requeue rows whose batch nobody tracks,
\* or hand the rows to finalize.
Drained == DOMAIN mem.inflight = {} /\ Awaiting(mem.rows) = {}

Requeue(e) == [e EXCEPT !.pending = NoBatch]

Settle ==
  /\ pc = "submitting" /\ todo = {}
  /\ LET stranded == Stranded(mem.rows)
     IN  /\ saved' = IF Drained /\ stranded # {}
                     THEN [i \in Item |-> IF i \in stranded THEN Requeue(mem.rows[i])
                                                            ELSE mem.rows[i]]
                     ELSE saved
         /\ status' = IF Drained /\ stranded = {} THEN "finalizing" ELSE status
  /\ EndTick
  /\ UNCHANGED <<ledger, api, ended, crashes>>

\* The process dies, its lease is lost at a renewal, or the API raises.
Crash ==
  /\ pc # "idle"
  /\ crashes < MaxCrashes
  /\ crashes' = crashes + 1
  /\ EndTick
  /\ UNCHANGED <<saved, ledger, api, ended, status>>

\* A batch reaches a terminal status.
BatchEnds ==
  /\ \E b \in (1 .. Len(api)) \ ended : ended' = ended \cup {b}
  /\ UNCHANGED <<saved, ledger, api, pc, mem, todo, status, crashes>>

Tick ==
  \/ LoadJob
  \/ /\ pc = "loaded"
     /\ \E adopted \in SUBSET Orphans : Reconcile(adopted)
  \/ /\ pc = "reconciled"
     /\ \E unreadable \in SUBSET (DOMAIN mem.inflight \cap ended) :
          \E outcome \in [FoldableRows(Folded(unreadable)) -> Outcomes] :
            Fold(unreadable, outcome)
  \/ SaveRows
  \/ SaveLedger
  \/ /\ pc = "building"
     /\ \E oversized \in SUBSET Awaiting(mem.rows) : BuildRequests(oversized)
  \/ \E chunk \in SUBSET todo : Submit(chunk)
  \/ SaveChunkRows
  \/ SaveChunkLedger
  \/ Settle

Next == Tick \/ Crash \/ BatchEnds

Spec == Init /\ [][Next]_vars

\* Ticks are scheduled for ever, and a batch ends within its completion window.
FairSpec == Spec /\ WF_vars(Tick) /\ WF_vars(BatchEnds)

-----------------------------------------------------------------------------
(* A row is scored only with the answer to the request it is at: the batch it *)
(* waits on was asked exactly that (batch.py:314-318, 795-798).               *)
WaitsOnItsRequest(e, i) ==
  Undecided(e) /\ e.pending # NoBatch =>
    i \in DOMAIN api[e.pending] /\ api[e.pending][i] = Request(e)

AnswersFitTheirRequests ==
  /\ \A i \in Item : WaitsOnItsRequest(saved[i], i)
  /\ pc # "idle" => \A i \in Item : WaitsOnItsRequest(mem.rows[i], i)

(* That much survives the death of one tick, at any step; batch_job_misfold    *)
(* shows what a second one can do (batch.py:792-836, 949-961).                *)
OneDeathMixesNoAnswers == crashes <= 1 => AnswersFitTheirRequests

(* Nothing is paid for twice: a request is sent again only after a result of  *)
(* its previous sending was folded, so a tick that dies loses no submission   *)
(* (batch.py:1107-1109, 1315-1319).                                           *)
NothingPaidTwice ==
  \A b, c \in 1 .. Len(api) : \A i \in DOMAIN api[b] \cap DOMAIN api[c] :
    b # c => api[b][i] # api[c][i]

\* The batches accepted so far, those that asked for an item, and what the
\* promise sees of a row.
Batches == 1 .. Len(api)

AskedBy(i) == {b \in Batches : i \in DOMAIN api[b]}

Piece(e) == [next |-> Request(e), verdict |-> e.row.state, deferred |-> e.deferred]

Promise == INSTANCE PaidWork WITH
  work  <- [i \in Item |-> Piece(saved[i])],
  asked <- [i \in Item |-> {api[b][i] : b \in AskedBy(i)}],
  paid  <- [i \in Item |-> Cardinality(AskedBy(i))]

(* The job keeps the promise of PaidWork across every save and death: what is *)
(* stored moves only as far as what was asked for allows, each request is     *)
(* asked once and only for a row that needs it, and the job ends only when    *)
(* none does, or before it paid for anything (batch.py:1085-1125, 1284-1383). *)
PaidWorkSpec == Promise!Spec

(* Only a job every row of which has a verdict, or was deferred to the next   *)
(* job, is finalized (batch.py:1352-1383, outputs.py:493).                    *)
FinalizesOnlyDecidedRows ==
  status = "finalizing" =>
    \A i \in Item : ~Undecided(saved[i]) \/ saved[i].deferred

(* Every job finishes: no mix of expiries, throttling, unreadable files and   *)
(* deaths keeps it alive for ever (batch.py:88-96, 1352-1383).                *)
JobEnds == <>(status # "active")
=============================================================================
