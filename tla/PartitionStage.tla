--------------------------- MODULE PartitionStage ---------------------------
(***************************************************************************)
(* The loop both 6-K stages share (partition_stage.py, completion.py), one *)
(* feeding the other: segment cuts the documents of a day into the windows *)
(* of its month (segmenter/sixk.py), triage judges the windows of a month  *)
(* and writes its snippets (classifier/sixk.py), and a retry judges again  *)
(* the filings of triage's failure list (classifier/core.py).              *)
(*                                                                         *)
(* A document is a version number; its windows carry the number of the     *)
(* text they were cut from, a judged filing that of its windows.  Runs     *)
(* hold the writer lease (module Lease), so there is one at a time.  Every *)
(* durable write is a step; a run may die between two of them.             *)
(***************************************************************************)
EXTENDS Integers, FiniteSets

CONSTANTS
  Filing,
  DayOf,            \* DayOf[f]: the documents partition of a filing
  MonthOf,          \* MonthOf[d]: the month of a day
  Gated,            \* the texts the pre-LLM gate leaves without a window
  CasAttempts,      \* _REGISTRY_CAS_ATTEMPTS
  MaxRewrites,      \* bound on the later texts of filings
  MaxTroubles       \* bound on forces, retries, deaths, lost races, failed calls

Stage == {"segment", "triage"}
Day   == {DayOf[f] : f \in Filing}
Month == {MonthOf[d] : d \in Day}

ASSUME PartitionStageAssumption ==
  /\ DayOf \in [Filing -> Nat \ {0}]
  /\ MonthOf \in [Day -> Nat \ {0}]
  /\ Gated \subseteq Nat
  /\ CasAttempts \in Nat \ {0}
  /\ {MaxRewrites, MaxTroubles} \subseteq Nat

VARIABLES
  docs,      \* docs[f]: the text of a filing
  windows,   \* windows[f]: the text its windows were cut from, 0 for no window
  cuts,      \* cuts[m]: how often the windows file of a month was written
  snippets,  \* snippets[f]: its rows in the snippets files
  registry,  \* registry[s][p]: the stored completion entries of each stage
  others,    \* entries other runs stored in the registry shard of a month
  failures,  \* triage's failure list
  run,       \* the run that holds the lease
  adrift,    \* history: the filings a dead run left as its file says and its
             \* registry or failure list does not
  left       \* how many rewrites and troubles are left

vars == <<docs, windows, cuts, snippets, registry, others, failures, run, adrift, left>>

-----------------------------------------------------------------------------
Least(S) == CHOOSE x \in S : \A y \in S : x <= y

Partition(s) == IF s = "segment" THEN Day ELSE Month

Home(s, f) == IF s = "segment" THEN DayOf[f] ELSE MonthOf[DayOf[f]]

FilingsOf(s, p) == {f \in Filing : Home(s, f) = p}

\* `source_partition_month`, which is also the registry shard of the partition.
MonthOfPartition(s, p) == IF s = "segment" THEN MonthOf[p] ELSE p

NoVersion == <<>>

\* `list_artifacts_with_versions`: no file, no version.
Version(s, p) ==
  IF s = "segment" THEN <<[f \in FilingsOf(s, p) |-> docs[f]]>>
  ELSE IF cuts[p] = 0 THEN NoVersion ELSE <<cuts[p]>>

\* A missing entry acts as an incomplete one with nothing done.
NoEntry == [fingerprint |-> NoVersion, done |-> {}, complete |-> FALSE]

UpToDate(s, p) ==
  registry[s][p].complete /\ registry[s][p].fingerprint = Version(s, p)

Present(s) == {p \in Partition(s) : Version(s, p) # NoVersion}

\* `pending_source_partitions`
Pending(s, force) == {p \in Present(s) : force \/ ~UpToDate(s, p)}

NoRow     == [win |-> 0, verdict |-> "none"]
NoMonth   == 0
NoOutputs == <<>>

Idle == [pc |-> "idle", stage |-> "segment", force |-> FALSE, todo |-> {},
         entries |-> <<>>, dirty |-> {}, month |-> NoMonth, outputs |-> NoOutputs,
         list |-> {}, changed |-> FALSE, owed |-> {},
         shard |-> NoMonth, seen |-> <<>>, tries |-> 0]

Init ==
  /\ docs = [f \in Filing |-> 1]
  /\ windows = [f \in Filing |-> 0]
  /\ cuts = [m \in Month |-> 0]
  /\ snippets = [f \in Filing |-> NoRow]
  /\ registry = [s \in Stage |-> [p \in Partition(s) |-> NoEntry]]
  /\ others = [m \in Month |-> 0]
  /\ failures = {}
  /\ run = Idle
  /\ adrift = {}
  /\ left = [rewrites |-> MaxRewrites, troubles |-> MaxTroubles]

Spend(what, n) == n <= left[what] /\ left' = [left EXCEPT ![what] = @ - n]

\* Ingest writes a later text of a filing (the lease keeps it out of a run).
RewriteDocument(f) ==
  /\ run = Idle
  /\ Spend("rewrites", 1)
  /\ docs' = [docs EXCEPT ![f] = @ + 1]
  /\ UNCHANGED <<windows, cuts, snippets, registry, others, failures, run, adrift>>

-----------------------------------------------------------------------------
\* A run of a stage lists what is pending and loads the registry, or starts
\* from an empty one.  One with nothing pending writes only its manifest.
StartRun(s, force) ==
  /\ run = Idle
  /\ Pending(s, force) # {}
  /\ IF force THEN Spend("troubles", 1) ELSE UNCHANGED left
  /\ run' = [Idle EXCEPT !.pc = "loop", !.stage = s, !.force = force,
               !.todo = Pending(s, force),
               !.entries = IF force THEN [p \in Partition(s) |-> NoEntry]
                                    ELSE registry[s]]
  /\ UNCHANGED <<docs, windows, cuts, snippets, registry, others, failures, adrift>>

\* Faulty: filings held on the provider count as finished.
OutputComplete(rows, judged, done, held, failed) ==
  [rows |-> rows, judged |-> judged, done |-> done, complete |-> TRUE, failures |-> failed]

\* What a partition yields: rows for each of its filings, those it judged by now,
\* and its done keys.
Output(rows, judged, done, held, failed) ==
  [rows |-> rows, judged |-> judged, done |-> done, complete |-> held = {},
   failures |-> failed]

\* `segment_pending_sixk_documents`: the windows of a day's filings.
Cut(p) ==
  Output([f \in FilingsOf("segment", p) |->
            IF docs[f] \in Gated THEN 0 ELSE docs[f]], {}, {}, {}, {})

\* `triage_windows` for the filings of `of`: those whose windows match the text
\* no more are stale; of the others, `infra` failed on the provider and
\* `failed` on their answers.
Stale(of) == {f \in of : windows[f] # docs[f]}

Verdict(f, failed) ==
  [win |-> windows[f], verdict |-> IF f \in failed THEN "failed" ELSE "judged"]

\* Faulty: a failed filing is recorded done like a judged one.
TriageFailedDone(among, done, infra, failed) ==
  LET windowed == {f \in among : windows[f] # 0}
      fresh    == {f \in windowed : <<f, windows[f]>> \notin done}
      held     == Stale(fresh) \cup infra
  IN  Output([f \in among |->
                IF f \in fresh \ held THEN Verdict(f, failed)
                ELSE IF f \in windowed THEN snippets[f] ELSE NoRow],
             fresh \ held,
             {<<f, windows[f]>> : f \in windowed \ held},
             held, failed)

\* `_WindowPartitionTriage.__call__` over the filings `among` of a month: those
\* judged before, and those held, keep their rows.
Windowed(among) == {f \in among : windows[f] # 0}

Carried(among, done) == {f \in Windowed(among) : <<f, windows[f]>> \in done}

Triage(among, done, infra, failed) ==
  LET fresh == Windowed(among) \ Carried(among, done)
      held  == Stale(fresh) \cup infra
  IN  Output([f \in among |->
                IF f \in fresh \ held THEN Verdict(f, failed)
                ELSE IF f \in Windowed(among) THEN snippets[f] ELSE NoRow],
             fresh \ held,
             {<<f, windows[f]>> : f \in Windowed(among) \ (held \cup failed)},
             held, failed)

\* The filings a stage-2 call fails for, within what is left of the bounds.
CallsFail(among, done, infra, failed) ==
  LET sent == LET fresh == Windowed(among) \ Carried(among, done)
              IN  fresh \ Stale(fresh)
  IN  /\ infra \subseteq sent
      /\ failed \subseteq sent \ infra
      /\ Spend("troubles", Cardinality(infra \cup failed))

\* Faulty: the list is rewritten with the failures of one partition.
ReplaceAllFailures(list, p, failed) == failed

\* `replace_partition_failures`
ReplaceFailures(list, p, failed) == (list \ FilingsOf("triage", p)) \cup failed

\* The loop takes the next partition of the buffered month.  A checkpoint may
\* be due after any partition.
Take(p, output) ==
  /\ run.pc = "loop"
  /\ run.todo # {} /\ p = Least(run.todo)
  /\ run.month \in {NoMonth, MonthOfPartition(run.stage, p)}
  /\ \E due \in BOOLEAN :
       LET list  == IF run.changed THEN run.list ELSE failures
           list2 == IF output.complete /\ run.stage = "triage"
                    THEN ReplaceFailures(list, p, output.failures) ELSE list
       IN run' = [run EXCEPT
            !.pc = IF due THEN "saving" ELSE "loop",
            !.todo = @ \ {p},
            !.month = MonthOfPartition(run.stage, p),
            !.outputs = [q \in DOMAIN @ \cup {p} |-> IF q = p THEN output ELSE @[q]],
            !.list = list2,
            !.changed = @ \/ list2 # list]
  /\ UNCHANGED <<docs, windows, cuts, snippets, registry, others, failures, adrift>>

CutDay(p) ==
  /\ run.stage = "segment"
  /\ Take(p, Cut(p))
  /\ UNCHANGED left

DoneKeys(p) == IF run.force THEN {} ELSE run.entries[p].done

TriageMonth(p, infra, failed) ==
  /\ run.pc = "loop" /\ run.stage = "triage"
  /\ CallsFail(FilingsOf("triage", p), DoneKeys(p), infra, failed)
  /\ Take(p, Triage(FilingsOf("triage", p), DoneKeys(p), infra, failed))

-----------------------------------------------------------------------------
\* Faulty: a partition that yields no rows writes nothing.
WrittenNonEmpty(old) ==
  [f \in Filing |-> LET p == Home(run.stage, f)
                        none == IF run.stage = "segment" THEN 0 ELSE NoRow
                    IN  IF p \in DOMAIN run.outputs /\ run.outputs[p].rows[f] # none
                        THEN run.outputs[p].rows[f] ELSE old[f]]

\* The rows of the buffered partitions replace those they wrote before.
Written(old) ==
  [f \in Filing |-> LET p == Home(run.stage, f)
                    IN  IF p \in DOMAIN run.outputs
                        THEN run.outputs[p].rows[f] ELSE old[f]]

MustFlush ==
  \/ run.pc = "saving"
  \/ run.pc = "loop" /\ run.todo = {}
  \/ run.pc = "loop" /\ run.todo # {}
     /\ MonthOfPartition(run.stage, Least(run.todo)) # run.month

\* The filings the buffered partitions judge, and those of them whose row, once it
\* is in the file, waits for the registry (which may still call the filing done)
\* or for the failure list (which names it, or is to).
JudgedNow == UNION {run.outputs[p].judged : p \in DOMAIN run.outputs}

OwedBy(rows) ==
  {f \in JudgedNow : rows[f].verdict = "failed"}
    \cup {f \in failures : \E p \in DOMAIN run.outputs :
                              <<f, windows[f]>> \in run.outputs[p].done}

Entry(p) == [fingerprint |-> Version(run.stage, p),
             done        |-> run.outputs[p].done,
             complete    |-> run.outputs[p].complete]

\* `flush`: one write of the month file, then the entries, in memory.  No
\* file is created for a month that never had a row.
Flush ==
  /\ run.pc \in {"loop", "saving"}
  /\ run.month # NoMonth
  /\ MustFlush
  /\ IF run.stage = "segment"
     THEN /\ windows' = Written(windows)
          /\ cuts' = IF \/ cuts[run.month] > 0
                        \/ \E p \in DOMAIN run.outputs :
                             \E f \in FilingsOf("segment", p) :
                                run.outputs[p].rows[f] # 0
                     THEN [cuts EXCEPT ![run.month] = @ + 1] ELSE cuts
          /\ UNCHANGED snippets
     ELSE snippets' = Written(snippets) /\ UNCHANGED <<windows, cuts>>
  /\ adrift' = adrift \ JudgedNow
  /\ run' = [run EXCEPT
       !.pc = IF run.todo = {} THEN "saving" ELSE @,
       !.entries = [p \in DOMAIN @ |->
                      IF p \in DOMAIN run.outputs THEN Entry(p) ELSE @[p]],
       !.dirty = @ \cup DOMAIN run.outputs,
       !.owed = IF run.stage = "triage" THEN @ \cup OwedBy(snippets') ELSE @,
       !.month = NoMonth,
       !.outputs = NoOutputs]
  /\ UNCHANGED <<docs, registry, others, failures, left>>

\* A registry shard holds the entries of one month's partitions, and those
\* other runs put there.
ShardKeys(s, m) == {p \in Partition(s) : MonthOfPartition(s, p) = m}

Shard(s, m) == <<[p \in ShardKeys(s, m) |-> registry[s][p]],
                 IF s = "triage" THEN others[m] ELSE 0>>

\* `_save_registry_shard`: read a shard with its version, ...
ReadShard ==
  /\ run.pc = "saving" /\ run.month = NoMonth
  /\ run.dirty # {}
  /\ LET m == Least({MonthOfPartition(run.stage, p) : p \in run.dirty})
     IN  run' = [run EXCEPT !.pc = "swap", !.shard = m,
                            !.seen = Shard(run.stage, m)]
  /\ UNCHANGED <<docs, windows, cuts, snippets, registry, others, failures, adrift, left>>

\* ... overlay the changed entries on what was read and write it back, if the
\* version is still the same.
Overlay(s, m, seen) ==
  [p \in Partition(s) |->
     IF p \in ShardKeys(s, m) THEN IF p \in run.dirty THEN run.entries[p] ELSE seen[1][p]
     ELSE registry[s][p]]

\* Faulty: a put without the version it read.
SwapShardBlind ==
  /\ run.pc = "swap"
  /\ registry' = [registry EXCEPT
                    ![run.stage] = Overlay(run.stage, run.shard, run.seen)]
  /\ others' = IF run.stage = "triage"
               THEN [others EXCEPT ![run.shard] = run.seen[2]] ELSE others
  /\ run' = [run EXCEPT !.pc = "saving", !.tries = 0, !.seen = <<>>,
                        !.shard = NoMonth,
                        !.dirty = @ \ ShardKeys(run.stage, run.shard)]
  /\ UNCHANGED <<docs, windows, cuts, snippets, failures, adrift, left>>

SwapShard ==
  /\ run.pc = "swap"
  /\ Shard(run.stage, run.shard) = run.seen
  /\ registry' = [registry EXCEPT
                    ![run.stage] = Overlay(run.stage, run.shard, run.seen)]
  /\ others' = IF run.stage = "triage"
               THEN [others EXCEPT ![run.shard] = run.seen[2]] ELSE others
  /\ run' = [run EXCEPT !.pc = "saving", !.tries = 0, !.seen = <<>>,
                        !.shard = NoMonth,
                        !.dirty = @ \ ShardKeys(run.stage, run.shard)]
  /\ UNCHANGED <<docs, windows, cuts, snippets, failures, adrift, left>>

\* A lost race is tried again; too many in a row end the run with an error.
LoseRace ==
  /\ run.pc = "swap" /\ run.tries + 1 < CasAttempts
  /\ Shard(run.stage, run.shard) # run.seen
  /\ run' = [run EXCEPT !.pc = "saving", !.tries = @ + 1, !.seen = <<>>,
                        !.shard = NoMonth]
  /\ UNCHANGED <<docs, windows, cuts, snippets, registry, others, failures, adrift, left>>

GiveUp ==
  /\ run.pc = "swap" /\ run.tries + 1 = CasAttempts
  /\ Shard(run.stage, run.shard) # run.seen
  /\ run' = Idle
  /\ adrift' = adrift \cup run.owed
  /\ UNCHANGED <<docs, windows, cuts, snippets, registry, others, failures, left>>

\* Another run, overlapping this one, stores the entry of a partition of its own
\* in the shard this one has read (elsewhere it is as if it came before the read).
OtherRunSaves(m) ==
  /\ run.pc = "swap" /\ run.stage = "triage" /\ m = run.shard
  /\ Spend("troubles", 1)
  /\ others' = [others EXCEPT ![m] = @ + 1]
  /\ UNCHANGED <<docs, windows, cuts, snippets, registry, failures, run, adrift>>

\* The failure list comes last; then the loop goes on, or the run ends.
SaveList ==
  /\ run.pc = "saving" /\ run.month = NoMonth
  /\ run.dirty = {}
  /\ failures' = IF run.changed THEN run.list ELSE failures
  /\ run' = IF run.todo = {} THEN Idle
            ELSE [run EXCEPT !.pc = "loop", !.list = {}, !.changed = FALSE,
                             !.owed = {}]
  /\ UNCHANGED <<docs, windows, cuts, snippets, registry, others, adrift, left>>

-----------------------------------------------------------------------------
\* `retry_failed_classifications`: the listed filings, by partition; those of
\* a pending partition are left to the next plain run.
StartRetry ==
  /\ run = Idle
  /\ failures # {}
  /\ Spend("troubles", 1)
  /\ run' = [Idle EXCEPT !.pc = "retry", !.stage = "triage", !.list = failures,
               !.todo = {Home("triage", f) : f \in failures}
                          \ Pending("triage", FALSE)]
  /\ UNCHANGED <<docs, windows, cuts, snippets, registry, others, failures, adrift>>

\* A held partition keeps its entries; of another, the rows of the listed
\* filings are replaced and nothing else.
RetryMonth(p, infra, failed) ==
  LET listed == run.list \cap FilingsOf("triage", p)
      output == Triage(listed, {}, infra, failed)
  IN  /\ run.pc = "retry"
      /\ run.todo # {} /\ p = Least(run.todo)
      /\ CallsFail(listed, {}, infra, failed)
      /\ snippets' = IF output.complete
                     THEN [f \in Filing |-> IF f \in listed THEN output.rows[f]
                                            ELSE snippets[f]]
                     ELSE snippets
      /\ run' = [run EXCEPT
           !.todo = @ \ {p},
           !.pc   = IF output.complete THEN "retry_list" ELSE @,
           !.list = IF output.complete THEN ReplaceFailures(@, p, failed) ELSE @]
      /\ UNCHANGED <<docs, windows, cuts, registry, others, failures, adrift>>

RetrySaveList ==
  /\ run.pc = "retry_list"
  /\ failures' = run.list
  /\ run' = [run EXCEPT !.pc = "retry"]
  /\ UNCHANGED <<docs, windows, cuts, snippets, registry, others, adrift, left>>

EndRetry ==
  /\ run.pc = "retry" /\ run.todo = {}
  /\ run' = Idle
  /\ UNCHANGED <<docs, windows, cuts, snippets, registry, others, failures, adrift, left>>

\* The process dies, its memory with it.
Crash ==
  /\ run # Idle
  /\ Spend("troubles", 1)
  /\ run' = Idle
  /\ adrift' = adrift \cup run.owed
  /\ UNCHANGED <<docs, windows, cuts, snippets, registry, others, failures>>

-----------------------------------------------------------------------------
\* A step of the run that holds the lease.
Step ==
  \/ \E p \in Day : CutDay(p)
  \/ /\ run.stage = "triage" /\ run.pc \in {"loop", "retry"}
     /\ \E p \in run.todo : \E infra, failed \in SUBSET FilingsOf("triage", p) :
          TriageMonth(p, infra, failed) \/ RetryMonth(p, infra, failed)
  \/ Flush \/ ReadShard \/ SwapShard \/ LoseRace \/ GiveUp \/ SaveList
  \/ RetrySaveList \/ EndRetry

Next ==
  \/ \E f \in Filing : RewriteDocument(f)
  \/ \E s \in Stage, force \in BOOLEAN : StartRun(s, force)
  \/ StartRetry
  \/ Step
  \/ \E m \in Month : OtherRunSaves(m)
  \/ Crash

Spec == Init /\ [][Next]_vars

\* A run that started goes on, and the schedule starts both stages again and
\* again (pipeline.py runs segment before classify).
FairSpec == Spec /\ WF_vars(Step) /\ \A s \in Stage : SF_vars(StartRun(s, FALSE))

-----------------------------------------------------------------------------
\* What a partition the next run will skip has in the output file: the
\* windows of its present text, a verdict on its present windows.
Current(s, p) ==
  \A f \in FilingsOf(s, p) :
    IF s = "segment" THEN windows[f] = IF docs[f] \in Gated THEN 0 ELSE docs[f]
    ELSE snippets[f].win = windows[f]

\* A partition that no run takes up again, because its entry is complete and
\* its fingerprint current, has its rows written from just that source: a death
\* or a lost registry race never makes a stage skip work it did not write.
CompleteIsCurrent ==
  \A s \in Stage : \A p \in Present(s) : UpToDate(s, p) => Current(s, p)

\* A filing whose done key is stored is not judged again while its windows
\* stay, so the rows a later triage carries over must be a verdict on them:
\* judged, or failed by a run that died before it had recorded that.
DoneFilingsHaveVerdicts ==
  run = Idle => \A m \in Month : \A f \in FilingsOf("triage", m) :
    windows[f] # 0 /\ <<f, windows[f]>> \in registry["triage"][m].done
      => /\ snippets[f].win = windows[f]
         /\ snippets[f].verdict = "judged" \/ f \in adrift

\* sixk.py:893-896 of a failed row: the filing has an entry in the stage's
\* failure list, or its month is pending and triage takes it up anyway.
\* Otherwise nothing ever judges the filing again; so it is with a filing that a
\* run left adrift, until a run with force or with new windows judges it.
FailedFilingsAreListed ==
  run = Idle => \A f \in Filing :
    snippets[f].verdict = "failed" /\ UpToDate("triage", Home("triage", f))
      => f \in failures \cup adrift

\* Saving a shard never reverts an entry another run stored in it meanwhile.
OtherRunsEntriesSurvive ==
  [][\A m \in Month : others'[m] >= others[m]]_others

\* Whatever is rewritten, forced, retried or interrupted, every document is
\* cut and every month of windows judged in the end.
EverythingIsTriaged ==
  <>[](\A s \in Stage : \A p \in Present(s) : UpToDate(s, p) /\ Current(s, p))
=============================================================================
